------------------------- MODULE DockSessionProofs -------------------------
(***************************************************************************)
(* Proofs about a dock's session with the Elgato app.  Part 1 is about     *)
(* CoraSession, for every number of sockets, attempts and retries, with    *)
(* the dial-back allowed or not.  Part 2 is about DockImages: what the     *)
(* operators that render a burst of images do to the driver, for bursts    *)
(* of any length, and that the panel shows what the dock believes.  Part 3 *)
(* is about DockInput: what a dock passes on of fingers, knobs and levels. *)
(***************************************************************************)
EXTENDS MCDockSession, DockInput, FiniteSetTheorems, NaturalsInduction, TLAPS

(***************************************************************************)
(* Part 1.  The server pair.                                               *)
(***************************************************************************)


(* The client of a server was accepted by that server. *)
ClientEnds == \A e \in Ends : Has(e) => sock[clientOf[e]].end = e

(* Until the pair is bound nobody has been the child's client: whatever a failed bind stops,
   the dial-back and the watchdog have not begun. *)
StartPhase ==
    /\ starter = "wait" => attempt < MaxAttempts
    /\ \A e \in Ends : listening[e] = "binding" => starter = "bind"
    /\ listening["child"] = "binding" => listening["primary"] # "binding"
    /\ listening["child"] = "up" => starter = "done"
    /\ rec.enabled => starter = "done"
    /\ starter # "done" =>
         ~rec.remote /\ ~Has("child") /\ rec.out = NoSocket /\ ~rec.timer /\ ~watch.timer
    /\ \A s \in Sockets :
         sock[s].st = "opening" /\ sock[s].end = "child" /\ sock[s].live => starter = "done"

(* The dial-back is due from the moment the child's client is gone, not only once the close
   events have run. *)
DialBack ==
    /\ rec.enabled /\ rec.remote /\ AllowOutbound /\ ~Has("child") =>
          \/ rec.state = "in-progress" /\ rec.out # NoSocket
          \/ rec.state = "scheduled" /\ rec.timer
    /\ \A s \in Sockets : sock[s].st = "dialing" <=> rec.out = s
    /\ Has("child") => rec.out = NoSocket /\ ~rec.timer /\ rec.state = "idle"
    /\ rec.timer => rec.out = NoSocket

(* A socket that opens after the stop belongs to no generation. *)
OpenersAreStale == stopped => \A s \in Sockets : sock[s].st = "opening" => ~sock[s].live

(* The inductive invariant. *)
SessionInv ==
    /\ TypeOK /\ OnlyClientIsOpen /\ ClientEnds /\ OneKeepalivePerClient
    /\ StartPhase /\ DialBack /\ RecheckOnlyUnpaired /\ NothingAfterStop /\ OpenersAreStale

-----------------------------------------------------------------------------
(* Traffic and silence change who may be replaced, nothing else. *)
LEMMA DataKeeps ==
  ASSUME SessionInv, NEW e \in Ends, Data(e)
  PROVE  SessionInv'
<1> USE SessionAssumption DEF SessionInv, Data, startVars, Has, Ends, TypeOK
<1>1. TypeOK'
  BY DEF OnlyClientIsOpen, ClientEnds, OneKeepalivePerClient, StartPhase, DialBack,
         RecheckOnlyUnpaired, NothingAfterStop, OpenersAreStale
<1>2. OnlyClientIsOpen' /\ ClientEnds' /\ OneKeepalivePerClient'
  BY DEF OnlyClientIsOpen, ClientEnds, OneKeepalivePerClient, StartPhase, DialBack,
         RecheckOnlyUnpaired, NothingAfterStop, OpenersAreStale
<1>3. StartPhase' /\ DialBack'
  BY DEF OnlyClientIsOpen, ClientEnds, OneKeepalivePerClient, StartPhase, DialBack,
         RecheckOnlyUnpaired, NothingAfterStop, OpenersAreStale
<1>4. RecheckOnlyUnpaired' /\ NothingAfterStop' /\ OpenersAreStale'
  BY DEF OnlyClientIsOpen, ClientEnds, OneKeepalivePerClient, StartPhase, DialBack,
         RecheckOnlyUnpaired, NothingAfterStop, OpenersAreStale
<1> QED BY <1>1, <1>2, <1>3, <1>4

LEMMA SilenceKeeps ==
  ASSUME SessionInv, NEW e \in Ends, Silence(e)
  PROVE  SessionInv'
<1> USE SessionAssumption DEF SessionInv, Silence, startVars, Has, Ends, TypeOK
<1>1. TypeOK'
  BY DEF OnlyClientIsOpen, ClientEnds, OneKeepalivePerClient, StartPhase, DialBack,
         RecheckOnlyUnpaired, NothingAfterStop, OpenersAreStale
<1>2. OnlyClientIsOpen' /\ ClientEnds' /\ OneKeepalivePerClient'
  BY DEF OnlyClientIsOpen, ClientEnds, OneKeepalivePerClient, StartPhase, DialBack,
         RecheckOnlyUnpaired, NothingAfterStop, OpenersAreStale
<1>3. StartPhase' /\ DialBack'
  BY DEF OnlyClientIsOpen, ClientEnds, OneKeepalivePerClient, StartPhase, DialBack,
         RecheckOnlyUnpaired, NothingAfterStop, OpenersAreStale
<1>4. RecheckOnlyUnpaired' /\ NothingAfterStop' /\ OpenersAreStale'
  BY DEF OnlyClientIsOpen, ClientEnds, OneKeepalivePerClient, StartPhase, DialBack,
         RecheckOnlyUnpaired, NothingAfterStop, OpenersAreStale
<1> QED BY <1>1, <1>2, <1>3, <1>4

(* A connection to a listener that is up begins a socket of the present generation. *)
LEMMA ConnectKeeps ==
  ASSUME SessionInv, NEW s \in Sockets, NEW e \in Ends, Connect(s, e)
  PROVE  SessionInv'
<1> USE SessionAssumption DEF SessionInv, Connect, startVars, Has, Ends, TypeOK
<1>1. TypeOK'
  BY DEF OnlyClientIsOpen, ClientEnds, OneKeepalivePerClient, StartPhase, DialBack,
         RecheckOnlyUnpaired, NothingAfterStop, OpenersAreStale
<1>2. OnlyClientIsOpen' /\ ClientEnds' /\ OneKeepalivePerClient'
  BY DEF OnlyClientIsOpen, ClientEnds, OneKeepalivePerClient, StartPhase, DialBack,
         RecheckOnlyUnpaired, NothingAfterStop, OpenersAreStale
<1>3. StartPhase' /\ DialBack'
  BY DEF OnlyClientIsOpen, ClientEnds, OneKeepalivePerClient, StartPhase, DialBack,
         RecheckOnlyUnpaired, NothingAfterStop, OpenersAreStale
<1>4. RecheckOnlyUnpaired' /\ NothingAfterStop' /\ OpenersAreStale'
  BY DEF OnlyClientIsOpen, ClientEnds, OneKeepalivePerClient, StartPhase, DialBack,
         RecheckOnlyUnpaired, NothingAfterStop, OpenersAreStale
<1> QED BY <1>1, <1>2, <1>3, <1>4

(* A socket that ends stays the client until its close event. *)
LEMMA SocketEndsKeeps ==
  ASSUME SessionInv, NEW s \in Sockets, SocketEnds(s)
  PROVE  SessionInv'
<1> USE SessionAssumption DEF SessionInv, SocketEnds, startVars, Has, Ends, TypeOK
<1>1. TypeOK'
  BY DEF OnlyClientIsOpen, ClientEnds, OneKeepalivePerClient, StartPhase, DialBack,
         RecheckOnlyUnpaired, NothingAfterStop, OpenersAreStale
<1>2. OnlyClientIsOpen' /\ ClientEnds' /\ OneKeepalivePerClient'
  BY DEF OnlyClientIsOpen, ClientEnds, OneKeepalivePerClient, StartPhase, DialBack,
         RecheckOnlyUnpaired, NothingAfterStop, OpenersAreStale
<1>3. StartPhase' /\ DialBack'
  BY DEF OnlyClientIsOpen, ClientEnds, OneKeepalivePerClient, StartPhase, DialBack,
         RecheckOnlyUnpaired, NothingAfterStop, OpenersAreStale
<1>4. RecheckOnlyUnpaired' /\ NothingAfterStop' /\ OpenersAreStale'
  BY DEF OnlyClientIsOpen, ClientEnds, OneKeepalivePerClient, StartPhase, DialBack,
         RecheckOnlyUnpaired, NothingAfterStop, OpenersAreStale
<1> QED BY <1>1, <1>2, <1>3, <1>4

(* A failed dial leaves the timer for the next one. *)
LEMMA DialFailsKeeps ==
  ASSUME SessionInv, NEW s \in Sockets, DialFails(s)
  PROVE  SessionInv'
<1> USE SessionAssumption DEF SessionInv, DialFails, Free, startVars, Has, Ends, TypeOK
<1>1. TypeOK'
  BY DEF OnlyClientIsOpen, ClientEnds, OneKeepalivePerClient, StartPhase, DialBack,
         RecheckOnlyUnpaired, NothingAfterStop, OpenersAreStale
<1>2. OnlyClientIsOpen' /\ ClientEnds' /\ OneKeepalivePerClient'
  BY DEF OnlyClientIsOpen, ClientEnds, OneKeepalivePerClient, StartPhase, DialBack,
         RecheckOnlyUnpaired, NothingAfterStop, OpenersAreStale
<1>3. StartPhase' /\ DialBack'
  BY DEF OnlyClientIsOpen, ClientEnds, OneKeepalivePerClient, StartPhase, DialBack,
         RecheckOnlyUnpaired, NothingAfterStop, OpenersAreStale
<1>4. RecheckOnlyUnpaired' /\ NothingAfterStop' /\ OpenersAreStale'
  BY DEF OnlyClientIsOpen, ClientEnds, OneKeepalivePerClient, StartPhase, DialBack,
         RecheckOnlyUnpaired, NothingAfterStop, OpenersAreStale
<1> QED BY <1>1, <1>2, <1>3, <1>4

(* Only a start that has attempts left waits for one. *)
LEMMA RetryTimerKeeps ==
  ASSUME SessionInv, RetryTimer
  PROVE  SessionInv'
<1> USE SessionAssumption DEF SessionInv, RetryTimer, netVars, Has, Ends, TypeOK
<1>1. TypeOK'
  BY DEF OnlyClientIsOpen, ClientEnds, OneKeepalivePerClient, StartPhase, DialBack,
         RecheckOnlyUnpaired, NothingAfterStop, OpenersAreStale
<1>2. OnlyClientIsOpen' /\ ClientEnds' /\ OneKeepalivePerClient'
  BY DEF OnlyClientIsOpen, ClientEnds, OneKeepalivePerClient, StartPhase, DialBack,
         RecheckOnlyUnpaired, NothingAfterStop, OpenersAreStale
<1>3. StartPhase' /\ DialBack'
  BY DEF OnlyClientIsOpen, ClientEnds, OneKeepalivePerClient, StartPhase, DialBack,
         RecheckOnlyUnpaired, NothingAfterStop, OpenersAreStale
<1>4. RecheckOnlyUnpaired' /\ NothingAfterStop' /\ OpenersAreStale'
  BY DEF OnlyClientIsOpen, ClientEnds, OneKeepalivePerClient, StartPhase, DialBack,
         RecheckOnlyUnpaired, NothingAfterStop, OpenersAreStale
<1> QED BY <1>1, <1>2, <1>3, <1>4

(* A child session that lasts changes the watchdog's memory only. *)
LEMMA ChildMaturesKeeps ==
  ASSUME SessionInv, ChildMatures
  PROVE  SessionInv'
<1> USE SessionAssumption DEF SessionInv, ChildMatures, netVars, startVars, Has, Ends, TypeOK
<1>1. TypeOK'
  BY DEF OnlyClientIsOpen, ClientEnds, OneKeepalivePerClient, StartPhase, DialBack,
         RecheckOnlyUnpaired, NothingAfterStop, OpenersAreStale
<1>2. OnlyClientIsOpen' /\ ClientEnds' /\ OneKeepalivePerClient'
  BY DEF OnlyClientIsOpen, ClientEnds, OneKeepalivePerClient, StartPhase, DialBack,
         RecheckOnlyUnpaired, NothingAfterStop, OpenersAreStale
<1>3. StartPhase' /\ DialBack'
  BY DEF OnlyClientIsOpen, ClientEnds, OneKeepalivePerClient, StartPhase, DialBack,
         RecheckOnlyUnpaired, NothingAfterStop, OpenersAreStale
<1>4. RecheckOnlyUnpaired' /\ NothingAfterStop' /\ OpenersAreStale'
  BY DEF OnlyClientIsOpen, ClientEnds, OneKeepalivePerClient, StartPhase, DialBack,
         RecheckOnlyUnpaired, NothingAfterStop, OpenersAreStale
<1> QED BY <1>1, <1>2, <1>3, <1>4
(* The recheck ends the primary session and leaves its client to the close event. *)
LEMMA WatchTimerKeeps ==
  ASSUME SessionInv, WatchTimer
  PROVE  SessionInv'
<1> USE SessionAssumption DEF SessionInv, WatchTimer, startVars, NoMicrotask, Has, Ends
<1>1. TypeOK'
  <2>1. watch' \in [timer : BOOLEAN, retries : 0 .. MaxRetries, early : BOOLEAN]
    <3>1. watch.retries \in 0 .. MaxRetries /\ watch.early \in BOOLEAN
      BY DEF TypeOK
    <3>2. watch.retries >= MaxRetries \/ watch.retries + 1 \in 0 .. MaxRetries
      BY <3>1
    <3>3. CASE watch' = [watch EXCEPT !.timer = FALSE]
      BY <3>3 DEF TypeOK
    <3>4. CASE /\ watch.retries + 1 \in 0 .. MaxRetries
               /\ watch' = [watch EXCEPT !.timer = FALSE, !.retries = @ + 1]
      BY <3>4 DEF TypeOK
    <3> QED BY <3>2, <3>3, <3>4
  <2>2. CASE UNCHANGED sock
    BY <2>1, <2>2 DEF TypeOK
  <2>3. CASE /\ Has("primary")
             /\ sock' = [sock EXCEPT ![clientOf["primary"]].st = "closing"]
    <3>1. clientOf["primary"] \in Sockets BY <2>3 DEF TypeOK
    <3>2. \A t \in Sockets : sock'[t].st \in {"free", "opening", "dialing", "open", "closing"}
                             /\ sock'[t] = [sock[t] EXCEPT !.st = sock'[t].st]
      BY <2>3, <3>1 DEF TypeOK
    <3>3. sock' \in [Sockets -> [st : {"free", "opening", "dialing", "open", "closing"},
                                 end : Ends, live : BOOLEAN]]
      BY <2>3, <3>1, <3>2 DEF TypeOK
    <3> QED BY <2>1, <3>3 DEF TypeOK
  <2> QED BY <2>2, <2>3
<1>2. OnlyClientIsOpen' /\ ClientEnds' /\ OneKeepalivePerClient'
  BY DEF TypeOK, OnlyClientIsOpen, ClientEnds, OneKeepalivePerClient
<1>3. StartPhase' /\ DialBack'
  BY DEF TypeOK, OnlyClientIsOpen, StartPhase, DialBack
<1>4. RecheckOnlyUnpaired' /\ NothingAfterStop' /\ OpenersAreStale'
  BY DEF TypeOK, OnlyClientIsOpen, RecheckOnlyUnpaired, NothingAfterStop, OpenersAreStale
<1> QED BY <1>1, <1>2, <1>3, <1>4

(* Stopping both servers keeps the types of what it resets. *)
LEMMA StopServersTypes ==
  ASSUME TypeOK, StopServers
  PROVE  /\ sock' \in [Sockets -> [st : {"free", "opening", "dialing", "open", "closing"},
                                   end : Ends, live : BOOLEAN]]
         /\ clientOf' \in [Ends -> Sockets \cup {NoSocket}]
         /\ intervals' \in [Ends -> Nat]
         /\ listening' \in [Ends -> {"down", "binding", "up", "stale"}]
         /\ rec' \in [enabled : BOOLEAN, remote : BOOLEAN, timer : BOOLEAN,
                      state : {"idle", "in-progress", "scheduled"},
                      out : Sockets \cup {NoSocket}]
<1> USE DEF TypeOK, StopServers, Ends, Free
<1>1. \A t \in Sockets : sock'[t] \in [st : {"free", "opening", "dialing", "open", "closing"},
                                       end : Ends, live : BOOLEAN]
  OBVIOUS
<1>2. sock' = [t \in Sockets |-> sock'[t]]
  OBVIOUS
<1>3. sock' \in [Sockets -> [st : {"free", "opening", "dialing", "open", "closing"},
                             end : Ends, live : BOOLEAN]]
  BY <1>1, <1>2
<1>4. clientOf' \in [Ends -> Sockets \cup {NoSocket}] /\ intervals' \in [Ends -> Nat]
  OBVIOUS
<1>5. listening' \in [Ends -> {"down", "binding", "up", "stale"}]
  OBVIOUS
<1> QED BY <1>3, <1>4, <1>5

(* A failed bind stops both servers before anybody was the child's client. *)
LEMMA BindFailsKeeps ==
  ASSUME SessionInv, NEW e \in Ends, BindFails(e)
  PROVE  SessionInv'
<1> USE SessionAssumption DEF SessionInv, BindFails, NoMicrotask, Has, Ends
<1>1. TypeOK'
  BY StopServersTypes DEF TypeOK
<1> USE DEF StopServers, Free, TypeOK
<1>2. OnlyClientIsOpen' /\ ClientEnds' /\ OneKeepalivePerClient'
  BY DEF OnlyClientIsOpen, ClientEnds, OneKeepalivePerClient
<1>3. StartPhase' /\ DialBack'
  BY DEF StartPhase, DialBack
<1>4. RecheckOnlyUnpaired' /\ NothingAfterStop' /\ OpenersAreStale'
  BY DEF RecheckOnlyUnpaired, NothingAfterStop, OpenersAreStale, StartPhase
<1> QED BY <1>1, <1>2, <1>3, <1>4

(* The stop itself: what is open closes without an event, what opens is of no generation. *)
LEMMA StopKeeps ==
  ASSUME SessionInv, Stop
  PROVE  SessionInv'
<1> USE SessionAssumption DEF SessionInv, Stop, NoMicrotask, Has, Ends
<1>1. TypeOK'
  <2>1. watch' \in [timer : BOOLEAN, retries : 0 .. MaxRetries, early : BOOLEAN]
    BY DEF TypeOK
  <2> QED BY <2>1, StopServersTypes DEF TypeOK
<1> USE DEF StopServers, Free, TypeOK
<1>2. OnlyClientIsOpen' /\ ClientEnds' /\ OneKeepalivePerClient'
  BY DEF OnlyClientIsOpen, ClientEnds, OneKeepalivePerClient
<1>3. StartPhase' /\ DialBack'
  BY DEF StartPhase, DialBack
<1>4. RecheckOnlyUnpaired' /\ NothingAfterStop' /\ OpenersAreStale'
  BY DEF RecheckOnlyUnpaired, NothingAfterStop, OpenersAreStale, StartPhase
<1> QED BY <1>1, <1>2, <1>3, <1>4

(* A bind that succeeds, and one that was cancelled meanwhile. *)
LEMMA BoundKeeps ==
  ASSUME SessionInv, NEW e \in Ends, Bound(e)
  PROVE  SessionInv'
<1> USE SessionAssumption DEF SessionInv, Bound, netVars, Has, Ends
<1>1. listening' \in [Ends -> {"down", "binding", "up", "stale"}]
  BY DEF TypeOK
<1>2. starter' \in {"bind", "wait", "done", "failed"}
      /\ rec' \in [enabled : BOOLEAN, remote : BOOLEAN, timer : BOOLEAN,
                   state : {"idle", "in-progress", "scheduled"}, out : Sockets \cup {NoSocket}]
  BY DEF TypeOK
<1>3. TypeOK'
  BY <1>1, <1>2 DEF TypeOK
<1>4. OnlyClientIsOpen' /\ ClientEnds' /\ OneKeepalivePerClient'
  BY DEF OnlyClientIsOpen, ClientEnds, OneKeepalivePerClient
<1>5. StartPhase' /\ DialBack'
  <2>1. CASE listening[e] = "stale"
    BY <2>1 DEF TypeOK, StartPhase, DialBack
  <2>2. CASE listening[e] = "binding" /\ e = "primary"
    BY <2>2 DEF TypeOK, StartPhase, DialBack
  <2>3. CASE listening[e] = "binding" /\ e = "child"
    <3>1. starter = "bind" /\ ~rec.remote
      BY <2>3 DEF StartPhase
    <3>2. /\ listening' = [listening EXCEPT !["child"] = "up"] /\ starter' = "done"
          /\ rec' = [rec EXCEPT !.enabled = TRUE]
      BY <2>3
    <3>3. StartPhase'
      BY <3>1, <3>2 DEF StartPhase, TypeOK
    <3>4. DialBack'
      BY <3>1, <3>2 DEF DialBack, TypeOK
    <3> QED BY <3>3, <3>4
  <2> QED BY <2>1, <2>2, <2>3
<1>6. RecheckOnlyUnpaired' /\ NothingAfterStop' /\ OpenersAreStale'
  BY DEF TypeOK, RecheckOnlyUnpaired, NothingAfterStop, OpenersAreStale, StartPhase
<1> QED BY <1>3, <1>4, <1>5, <1>6

-----------------------------------------------------------------------------
(* A socket is handed to its server: it is turned away, or it replaces a silent client. *)
LEMMA AcceptConnectionKeeps ==
  ASSUME SessionInv, NEW s \in Sockets, NEW e \in Ends, NoMicrotask,
         \/ sock[s].st = "opening" /\ sock[s].live /\ sock[s].end = e
         \/ sock[s].st = "dialing" /\ e = "child",
         AcceptConnection(s, e), UNCHANGED startVars
  PROVE  SessionInv'
<1> USE SessionAssumption DEF SessionInv, NoMicrotask, startVars, Has, Ends
<1>1. ~stopped /\ (e = "child" => starter = "done")
  BY DEF TypeOK, NothingAfterStop, OpenersAreStale, StartPhase, DialBack
<1>2. CASE Has(e) /\ ~quiet[e]
  <2> USE <1>1, <1>2 DEF AcceptConnection, Free
  <2>1. sock[s].st = "opening" /\ rec' = rec
    BY DEF TypeOK, DialBack
  <2>2. s # clientOf["primary"] /\ s # clientOf["child"]
    BY DEF TypeOK, OnlyClientIsOpen
  <2>3. /\ sock' = [sock EXCEPT ![s] = [st |-> "free", end |-> "primary", live |-> FALSE]]
        /\ UNCHANGED <<clientOf, quiet, intervals, watch, sulking>>
    OBVIOUS
  <2> HIDE DEF AcceptConnection
  <2>4. TypeOK'
    BY <2>1, <2>3 DEF TypeOK
  <2>5. OnlyClientIsOpen' /\ ClientEnds' /\ OneKeepalivePerClient'
    BY <2>2, <2>3 DEF TypeOK, OnlyClientIsOpen, ClientEnds, OneKeepalivePerClient
  <2>6. StartPhase' /\ DialBack'
    BY <2>1, <2>3 DEF TypeOK, StartPhase, DialBack
  <2>7. RecheckOnlyUnpaired' /\ NothingAfterStop' /\ OpenersAreStale'
    BY <2>1, <2>3 DEF TypeOK, RecheckOnlyUnpaired, NothingAfterStop, OpenersAreStale
  <2> QED BY <2>5, <2>6, <2>7, <2>4
<1>3. CASE ~(Has(e) /\ ~quiet[e])
  <2> USE <1>1, <1>3 DEF AcceptConnection, Free
  <2>1. /\ sock' = [t \in Sockets |->
                IF t = s THEN [st |-> "open", end |-> e, live |-> TRUE]
                ELSE IF t = clientOf[e] THEN [sock[t] EXCEPT !.st = "closing"]
                ELSE IF e = "child" /\ t = rec.out THEN Free
                ELSE sock[t]]
        /\ clientOf' = [clientOf EXCEPT ![e] = s]
    OBVIOUS
  <2>2. s # clientOf["primary"] /\ s # clientOf["child"]
        /\ (rec.out # NoSocket => rec.out # clientOf["primary"] /\ rec.out # clientOf["child"])
    BY DEF TypeOK, OnlyClientIsOpen, DialBack
  <2>3. sock' \in [Sockets -> [st : {"free", "opening", "dialing", "open", "closing"},
                               end : Ends, live : BOOLEAN]]
    <3>1. \A t \in Sockets : sock'[t] \in [st : {"free", "opening", "dialing", "open", "closing"},
                                           end : Ends, live : BOOLEAN]
      BY <2>1 DEF TypeOK
    <3> QED BY <2>1, <3>1
  <2>4. intervals' = [intervals EXCEPT ![e] = 1]
    BY DEF TypeOK, OneKeepalivePerClient
  <2>5. /\ watch' = IF e = "child" THEN [watch EXCEPT !.timer = FALSE, !.early = TRUE] ELSE watch
        /\ rec' = IF e = "child" THEN [rec EXCEPT !.remote = TRUE, !.timer = FALSE,
                                                  !.state = "idle", !.out = NoSocket] ELSE rec
        /\ quiet' = [quiet EXCEPT ![e] = FALSE] /\ sulking' = FALSE
    OBVIOUS
  <2> HIDE DEF AcceptConnection
  <2>6. TypeOK'
    BY <2>1, <2>3, <2>4, <2>5 DEF TypeOK
  <2>7. OnlyClientIsOpen' /\ ClientEnds' /\ OneKeepalivePerClient'
    BY <2>1, <2>2, <2>4 DEF TypeOK, OnlyClientIsOpen, ClientEnds, OneKeepalivePerClient
  <2>8. CASE e = "primary"
    <3>1. StartPhase' /\ DialBack'
      BY <2>1, <2>2, <2>5, <2>8 DEF TypeOK, StartPhase, DialBack
    <3>2. RecheckOnlyUnpaired' /\ NothingAfterStop' /\ OpenersAreStale'
      BY <2>1, <2>5, <2>8 DEF TypeOK, RecheckOnlyUnpaired, NothingAfterStop, OpenersAreStale
    <3> QED BY <2>6, <2>7, <3>1, <3>2
  <2>9. CASE e = "child"
    <3>1. clientOf'["child"] = s /\ rec'.out = NoSocket /\ ~rec'.timer /\ rec'.state = "idle"
          /\ ~watch'.timer
      BY <2>1, <2>5, <2>9 DEF TypeOK
    <3>2. StartPhase'
      BY <2>1, <2>5, <2>9 DEF TypeOK, StartPhase
    <3>3. \A t \in Sockets : sock'[t].st # "dialing"
      BY <2>1, <2>9 DEF TypeOK, DialBack
    <3>4. DialBack'
      BY <3>1, <3>3 DEF DialBack
    <3>5. RecheckOnlyUnpaired' /\ NothingAfterStop' /\ OpenersAreStale'
      BY <3>1 DEF RecheckOnlyUnpaired, NothingAfterStop, OpenersAreStale
    <3> QED BY <2>6, <2>7, <3>2, <3>4, <3>5
  <2> QED BY <2>8, <2>9
<1> QED BY <1>2, <1>3

LEMMA DialConnectsKeeps ==
  ASSUME SessionInv, NEW s \in Sockets, DialConnects(s)
  PROVE  SessionInv'
BY AcceptConnectionKeeps DEF DialConnects, Ends

(* A socket of an older generation closes without a trace. *)
LEMMA AdoptKeeps ==
  ASSUME SessionInv, NEW s \in Sockets, Adopt(s)
  PROVE  SessionInv'
<1>1. sock[s].end \in Ends BY DEF SessionInv, TypeOK
<1>2. CASE sock[s].live
  BY <1>1, <1>2, AcceptConnectionKeeps DEF Adopt
<1>3. CASE ~sock[s].live
  <2>0. /\ sock' = [sock EXCEPT ![s] = [st |-> "free", end |-> "primary", live |-> FALSE]]
        /\ sock[s].st = "opening"
        /\ UNCHANGED <<clientOf, quiet, intervals, rec, watch, sulking, startVars>>
    BY <1>3 DEF Adopt, Free
  <2> USE <2>0, SessionAssumption DEF SessionInv, startVars, Has, Ends, TypeOK
  <2>1. TypeOK'
    OBVIOUS
  <2>2. OnlyClientIsOpen' /\ ClientEnds' /\ OneKeepalivePerClient'
    BY DEF OnlyClientIsOpen, ClientEnds, OneKeepalivePerClient
  <2>3. StartPhase' /\ DialBack'
    BY DEF StartPhase, DialBack
  <2>4. RecheckOnlyUnpaired' /\ NothingAfterStop' /\ OpenersAreStale'
    BY DEF RecheckOnlyUnpaired, NothingAfterStop, OpenersAreStale
  <2> QED BY <2>1, <2>2, <2>3, <2>4
<1> QED BY <1>2, <1>3


-----------------------------------------------------------------------------
(* Where the child has no client, a dial-back begun from an idle record is pending. *)
LEMMA TryConnectDials ==
  ASSUME TypeOK, NEW r, NEW sk, TryConnect(r, sk),
         r \in [enabled : BOOLEAN, remote : BOOLEAN, timer : BOOLEAN,
                state : {"idle", "in-progress", "scheduled"}, out : Sockets \cup {NoSocket}],
         sk \in [Sockets -> [st : {"free", "opening", "dialing", "open", "closing"},
                             end : Ends, live : BOOLEAN]],
         r.state = "idle", r.out = NoSocket, ~r.timer,
         \A t \in Sockets : sk[t].st # "dialing"
  PROVE  /\ sock' \in [Sockets -> [st : {"free", "opening", "dialing", "open", "closing"},
                                   end : Ends, live : BOOLEAN]]
         /\ rec' \in [enabled : BOOLEAN, remote : BOOLEAN, timer : BOOLEAN,
                      state : {"idle", "in-progress", "scheduled"},
                      out : Sockets \cup {NoSocket}]
         /\ rec'.enabled = r.enabled /\ rec'.remote = r.remote /\ ~rec'.timer
         /\ rec'.enabled /\ rec'.remote /\ AllowOutbound =>
              rec'.state = "in-progress" /\ rec'.out # NoSocket
         /\ rec'.out # NoSocket => r.enabled
         /\ \A t \in Sockets : sock'[t].st = "dialing" <=> rec'.out = t
         /\ \A t \in Sockets : sock'[t] = sk[t] \/ (sk[t].st = "free" /\ sock'[t].st = "dialing")
<1> USE SessionAssumption DEF Ends
<1>1. CASE Dials(r)
  <2>1. PICK t \in Sockets :
          /\ sk[t].st = "free"
          /\ sock' = [sk EXCEPT ![t] = [st |-> "dialing", end |-> "child", live |-> TRUE]]
          /\ rec' = [r EXCEPT !.state = "in-progress", !.out = t]
    BY <1>1 DEF TryConnect
  <2>2. t # NoSocket
    OBVIOUS
  <2> QED BY <1>1, <2>1, <2>2 DEF Dials
<1>2. CASE ~Dials(r)
  BY <1>2 DEF TryConnect, Dials
<1> QED BY <1>1, <1>2

(* The pause after a failed dial is over: dial again. *)
LEMMA DialTimerKeeps ==
  ASSUME SessionInv, DialTimer
  PROVE  SessionInv'
<1> USE SessionAssumption DEF SessionInv, startVars, Has, Ends
<1> DEFINE r == [rec EXCEPT !.timer = FALSE, !.state = "idle"]
<1>1. /\ rec.timer /\ ~Has("child") /\ TryConnect(r, sock)
      /\ UNCHANGED <<clientOf, quiet, intervals, startVars, watch, sulking>>
  BY DEF DialTimer, DialBack
<1>2. /\ r \in [enabled : BOOLEAN, remote : BOOLEAN, timer : BOOLEAN,
                state : {"idle", "in-progress", "scheduled"}, out : Sockets \cup {NoSocket}]
      /\ r.state = "idle" /\ ~r.timer /\ r.out = rec.out /\ r.out = NoSocket
      /\ r.enabled = rec.enabled /\ r.remote = rec.remote
      /\ \A t \in Sockets : sock[t].st # "dialing"
  <2>1. rec.out = NoSocket BY <1>1 DEF DialBack
  <2>2. \A t \in Sockets : sock[t].st # "dialing" BY <2>1 DEF DialBack
  <2> QED BY <2>1, <2>2 DEF TypeOK
<1> HIDE DEF r
<1>3. /\ sock' \in [Sockets -> [st : {"free", "opening", "dialing", "open", "closing"},
                                end : Ends, live : BOOLEAN]]
      /\ rec' \in [enabled : BOOLEAN, remote : BOOLEAN, timer : BOOLEAN,
                   state : {"idle", "in-progress", "scheduled"},
                   out : Sockets \cup {NoSocket}]
      /\ rec'.enabled = rec.enabled /\ rec'.remote = rec.remote /\ ~rec'.timer
      /\ rec'.enabled /\ rec'.remote /\ AllowOutbound =>
           rec'.state = "in-progress" /\ rec'.out # NoSocket
      /\ rec'.out # NoSocket => rec.enabled
      /\ \A t \in Sockets : sock'[t].st = "dialing" <=> rec'.out = t
      /\ \A t \in Sockets : sock'[t] = sock[t]
                            \/ (sock[t].st = "free" /\ sock'[t].st = "dialing")
  <2>1. TypeOK /\ TryConnect(r, sock) BY <1>1
  <2>2. sock \in [Sockets -> [st : {"free", "opening", "dialing", "open", "closing"},
                              end : Ends, live : BOOLEAN]]
    BY DEF TypeOK
  <2> QED BY <1>2, <2>1, <2>2, TryConnectDials
<1>4. TypeOK'
  BY <1>1, <1>3 DEF TypeOK
<1>5. OnlyClientIsOpen' /\ ClientEnds' /\ OneKeepalivePerClient'
  BY <1>1, <1>3 DEF TypeOK, OnlyClientIsOpen, ClientEnds, OneKeepalivePerClient
<1>6. StartPhase' /\ DialBack'
  BY <1>1, <1>3 DEF TypeOK, StartPhase, DialBack
<1>7. RecheckOnlyUnpaired' /\ NothingAfterStop' /\ OpenersAreStale'
  BY <1>1, <1>3 DEF TypeOK, RecheckOnlyUnpaired, NothingAfterStop, OpenersAreStale
<1> QED BY <1>4, <1>5, <1>6, <1>7

(* A close event: of a socket that is nobody's client, of the primary's client, and of the
   child's, which starts the dial-back in the same step. *)
LEMMA CloseEventKeeps ==
  ASSUME SessionInv, NEW s \in Sockets, CloseEvent(s)
  PROVE  SessionInv'
<1> USE SessionAssumption DEF SessionInv, startVars, Has, Ends
<1> DEFINE e == sock[s].end
           closed == [sock EXCEPT ![s] = Free]
<1>1. sock[s].st = "closing" /\ e \in Ends /\ UNCHANGED <<quiet, startVars, sulking>>
  BY DEF CloseEvent, TypeOK
<1>2. /\ closed \in [Sockets -> [st : {"free", "opening", "dialing", "open", "closing"},
                                 end : Ends, live : BOOLEAN]]
      /\ closed[s].st = "free" /\ \A t \in Sockets \ {s} : closed[t] = sock[t]
  BY DEF TypeOK, Free
<1>3. CASE clientOf[e] # s
  <2>1. sock' = closed /\ UNCHANGED <<clientOf, intervals, rec, watch>>
    BY <1>3 DEF CloseEvent
  <2>2. clientOf["primary"] # s /\ clientOf["child"] # s
    BY <1>3 DEF TypeOK, ClientEnds
  <2> HIDE DEF closed
  <2>3. TypeOK'
    BY <1>1, <1>2, <2>1 DEF TypeOK
  <2>4. OnlyClientIsOpen' /\ ClientEnds' /\ OneKeepalivePerClient'
    BY <1>1, <1>2, <2>1, <2>2 DEF TypeOK, OnlyClientIsOpen, ClientEnds, OneKeepalivePerClient
  <2>5. StartPhase' /\ DialBack'
    <3>1. StartPhase'
      BY <1>1, <1>2, <2>1 DEF TypeOK, StartPhase, DialBack
    <3>2. DialBack'
      BY <1>1, <1>2, <2>1 DEF TypeOK, StartPhase, DialBack
    <3> QED BY <3>1, <3>2
  <2>6. RecheckOnlyUnpaired' /\ NothingAfterStop' /\ OpenersAreStale'
    BY <1>1, <1>2, <2>1 DEF TypeOK, RecheckOnlyUnpaired, NothingAfterStop, OpenersAreStale
  <2> QED BY <2>3, <2>4, <2>5, <2>6
<1>4. CASE clientOf[e] = s
  <2>1. /\ clientOf' = [clientOf EXCEPT ![e] = NoSocket]
        /\ intervals' = [intervals EXCEPT ![e] = 0]
    BY <1>1, <1>4 DEF CloseEvent, TypeOK, OneKeepalivePerClient
  <2>2. \A f \in Ends \ {e} : clientOf[f] # s
    BY DEF ClientEnds
  <2>3. CASE e = "primary"
    <3>1. sock' = closed /\ watch' = [watch EXCEPT !.timer = FALSE] /\ UNCHANGED rec
      BY <1>4, <2>3 DEF CloseEvent
    <3> HIDE DEF closed
    <3>2. TypeOK'
      BY <1>1, <1>2, <2>1, <3>1, ZenonT(40) DEF TypeOK
    <3>3. /\ clientOf'["primary"] = NoSocket /\ clientOf'["child"] = clientOf["child"]
          /\ intervals'["primary"] = 0 /\ intervals'["child"] = intervals["child"]
          /\ clientOf["child"] # s /\ clientOf["primary"] = s
      BY <1>4, <2>1, <2>2, <2>3 DEF TypeOK
    <3>4. OnlyClientIsOpen'
      BY <1>2, <3>1, <3>3 DEF TypeOK, OnlyClientIsOpen
    <3>5. ClientEnds' /\ OneKeepalivePerClient'
      BY <1>2, <3>1, <3>3 DEF TypeOK, ClientEnds, OneKeepalivePerClient
    <3>6. StartPhase' /\ DialBack'
      BY <1>1, <1>2, <2>1, <2>3, <3>1 DEF TypeOK, StartPhase, DialBack
    <3>7. RecheckOnlyUnpaired' /\ NothingAfterStop' /\ OpenersAreStale'
      BY <1>1, <1>2, <2>1, <2>3, <3>1
         DEF TypeOK, RecheckOnlyUnpaired, NothingAfterStop, OpenersAreStale
    <3> QED BY <3>2, <3>6, <3>7, <3>4, <3>5
  <2>4. CASE e = "child"
    <3>1. TryConnect(rec, closed) /\ OnChildGone
      BY <1>4, <2>4 DEF CloseEvent
    <3>2. /\ Has("child") /\ rec.state = "idle" /\ rec.out = NoSocket /\ ~rec.timer
          /\ \A t \in Sockets : sock[t].st # "dialing"
          /\ starter = "done" /\ ~stopped /\ ~watch.timer
      BY <1>4, <2>4 DEF DialBack, StartPhase, NothingAfterStop, RecheckOnlyUnpaired
    <3>3. \A t \in Sockets : closed[t].st # "dialing"
      BY <1>2, <3>2
    <3> HIDE DEF closed
    <3>4. /\ sock' \in [Sockets -> [st : {"free", "opening", "dialing", "open", "closing"},
                                    end : Ends, live : BOOLEAN]]
          /\ rec' \in [enabled : BOOLEAN, remote : BOOLEAN, timer : BOOLEAN,
                       state : {"idle", "in-progress", "scheduled"},
                       out : Sockets \cup {NoSocket}]
          /\ rec'.enabled = rec.enabled /\ rec'.remote = rec.remote /\ ~rec'.timer
          /\ rec'.enabled /\ rec'.remote /\ AllowOutbound =>
               rec'.state = "in-progress" /\ rec'.out # NoSocket
          /\ rec'.out # NoSocket => rec.enabled
          /\ \A t \in Sockets : sock'[t].st = "dialing" <=> rec'.out = t
          /\ \A t \in Sockets : sock'[t] = closed[t]
                                \/ (closed[t].st = "free" /\ sock'[t].st = "dialing")
      <4>1. rec \in [enabled : BOOLEAN, remote : BOOLEAN, timer : BOOLEAN,
                     state : {"idle", "in-progress", "scheduled"},
                     out : Sockets \cup {NoSocket}]
        BY DEF TypeOK
      <4>2. TypeOK OBVIOUS
      <4> QED BY <1>2, <3>1, <3>2, <3>3, <4>1, <4>2, TryConnectDials
    <3>5. /\ watch' \in [timer : BOOLEAN, retries : 0 .. MaxRetries, early : BOOLEAN]
          /\ watch'.timer => Has("primary")
      <4>1. watch \in [timer : BOOLEAN, retries : 0 .. MaxRetries, early : BOOLEAN]
            /\ 0 \in 0 .. MaxRetries
        BY DEF TypeOK
      <4>2. \/ watch' = [watch EXCEPT !.retries = 0]
            \/ Has("primary") /\ watch' = [watch EXCEPT !.timer = TRUE]
            \/ watch' = watch
        BY <3>1 DEF OnChildGone
      <4> QED BY <3>2, <4>1, <4>2
    <3>6. TypeOK'
      BY <1>1, <2>1, <3>4, <3>5 DEF TypeOK
    <3>7. /\ clientOf'["child"] = NoSocket /\ clientOf'["primary"] = clientOf["primary"]
           /\ intervals'["child"] = 0 /\ intervals'["primary"] = intervals["primary"]
           /\ clientOf["primary"] # s /\ clientOf["child"] = s
      BY <1>4, <2>1, <2>2, <2>4 DEF TypeOK
    <3>8. OnlyClientIsOpen' /\ ClientEnds' /\ OneKeepalivePerClient'
      <4>1. OnlyClientIsOpen'
        BY <1>2, <3>4, <3>7 DEF TypeOK, OnlyClientIsOpen
      <4>2. ClientEnds' /\ OneKeepalivePerClient'
        BY <1>2, <3>4, <3>7 DEF TypeOK, OnlyClientIsOpen, ClientEnds, OneKeepalivePerClient
      <4> QED BY <4>1, <4>2
    <3>9. StartPhase' /\ DialBack'
      BY <1>1, <1>2, <2>1, <2>4, <3>2, <3>4 DEF TypeOK, StartPhase, DialBack
    <3>10. RecheckOnlyUnpaired' /\ NothingAfterStop' /\ OpenersAreStale'
      BY <1>1, <2>1, <2>4, <3>2, <3>5
         DEF TypeOK, RecheckOnlyUnpaired, NothingAfterStop, OpenersAreStale
    <3> QED BY <3>6, <3>8, <3>9, <3>10
  <2> QED BY <1>1, <2>3, <2>4
<1> QED BY <1>3, <1>4

-----------------------------------------------------------------------------
LEMMA SessionInvInit ==
  ASSUME CoraInit
  PROVE  SessionInv
<1> USE SessionAssumption DEF CoraInit, Free, Has, Ends
<1>1. TypeOK
  <2>1. sock \in [Sockets -> [st : {"free", "opening", "dialing", "open", "closing"},
                              end : Ends, live : BOOLEAN]]
    OBVIOUS
  <2>2. attempt \in 1 .. MaxAttempts
    OBVIOUS
  <2>3. watch \in [timer : BOOLEAN, retries : 0 .. MaxRetries, early : BOOLEAN]
    OBVIOUS
  <2>4. listening \in [Ends -> {"down", "binding", "up", "stale"}]
    OBVIOUS
  <2> QED BY <2>1, <2>2, <2>3, <2>4 DEF TypeOK
<1>2. OnlyClientIsOpen /\ ClientEnds /\ OneKeepalivePerClient
  BY DEF OnlyClientIsOpen, ClientEnds, OneKeepalivePerClient
<1>3. StartPhase /\ DialBack
  BY DEF StartPhase, DialBack
<1>4. RecheckOnlyUnpaired /\ NothingAfterStop /\ OpenersAreStale
  BY DEF RecheckOnlyUnpaired, NothingAfterStop, OpenersAreStale
<1> QED BY <1>1, <1>2, <1>3, <1>4 DEF SessionInv

LEMMA SessionInvStep ==
  ASSUME SessionInv, [CoraNext]_coraVars
  PROVE  SessionInv'
<1>1. ASSUME NEW e \in Ends, Bound(e) \/ BindFails(e) \/ Data(e) \/ Silence(e)
      PROVE  SessionInv'
  BY <1>1, BoundKeeps, BindFailsKeeps, DataKeeps, SilenceKeeps
<1>2. ASSUME NEW s \in Sockets, NEW e \in Ends, Connect(s, e)
      PROVE  SessionInv'
  BY <1>2, ConnectKeeps
<1>3. ASSUME NEW s \in Sockets,
             Adopt(s) \/ SocketEnds(s) \/ CloseEvent(s) \/ DialConnects(s) \/ DialFails(s)
      PROVE  SessionInv'
  BY <1>3, AdoptKeeps, SocketEndsKeeps, CloseEventKeeps, DialConnectsKeeps, DialFailsKeeps
<1>4. CASE RetryTimer \/ Stop \/ DialTimer \/ ChildMatures \/ WatchTimer
  BY <1>4, RetryTimerKeeps, StopKeeps, DialTimerKeeps, ChildMaturesKeeps, WatchTimerKeeps
<1>5. CASE UNCHANGED coraVars
  BY <1>5 DEF SessionInv, coraVars, netVars, startVars, TypeOK, OnlyClientIsOpen, ClientEnds,
              OneKeepalivePerClient, StartPhase, DialBack, RecheckOnlyUnpaired,
              NothingAfterStop, OpenersAreStale, Has
<1> QED BY <1>1, <1>2, <1>3, <1>4, <1>5 DEF CoraNext

(* The dial-back of the inductive invariant is the one the runs check. *)
LEMMA SessionInvConsistent ==
  ASSUME SessionInv
  PROVE  SessionsConsistent
<1>1. DialBackPending
  <2>1. {s \in Sockets : sock[s].st = "dialing"} = {rec.out} \ {NoSocket}
    BY SessionAssumption DEF SessionInv, TypeOK, DialBack
  <2> QED BY <2>1 DEF SessionInv, DialBack, DialBackPending
<1> QED BY <1>1 DEF SessionInv, SessionsConsistent

(* In every behaviour of a dock's server pair, whatever the order of connections, takeovers,
   dials, close events, failed binds and stops, an open socket is the client of its server,
   each client has one keepalive interval, dial-back and recheck are armed exactly while
   what they are for is missing, and nothing comes back after CoraDock.stop. *)
THEOREM SessionsStayConsistent == CoraSpec => []SessionsConsistent
<1>1. CoraInit => SessionInv BY SessionInvInit
<1>2. SessionInv /\ [CoraNext]_coraVars => SessionInv' BY SessionInvStep
<1>3. SessionInv => SessionsConsistent BY SessionInvConsistent
<1> QED BY <1>1, <1>2, <1>3, PTL DEF CoraSpec

(***************************************************************************)
(* Part 2.  The panel.                                                     *)
(***************************************************************************)

(* Counting up from 0 reaches every number to n: induction, stated with a set. *)
LEMMA CountingUp ==
    ASSUME NEW n \in Nat, NEW A, 0 \in A,
           \A i \in 0..n : i \in A /\ i < n => i + 1 \in A
    PROVE  \A i \in 0..n : i \in A
<1> DEFINE Missed == {i \in 0..n : i \notin A}
<1> SUFFICES ASSUME Missed # {} PROVE FALSE
  OBVIOUS
<1>1. IsWellFoundedOn(OpToRel(<, Nat), Nat)
  BY NatLessThanWellFounded
<1>2. Missed \subseteq Nat
  OBVIOUS
<1>3. PICK m \in Missed : \A j \in Missed : ~ (<<j, m>> \in OpToRel(<, Nat))
  <2> HIDE DEF Missed
  <2> QED BY <1>1, <1>2, WFMin
<1>4. m # 0 /\ m \in 0..n
  OBVIOUS
<1>5. m - 1 \in 0..n /\ m - 1 < n /\ m - 1 + 1 = m
  BY <1>4
<1>6. m - 1 \notin A
  BY <1>5
<1>7. <<m - 1, m>> \in OpToRel(<, Nat)
  BY <1>4, <1>5 DEF OpToRel
<1> QED BY <1>3, <1>5, <1>6, <1>7

LEMMA SetToSeqLists ==
    ASSUME NEW S, IsFiniteSet(S)
    PROVE  /\ SetToSeq(S) \in [1..Cardinality(S) -> S]
           /\ \A x \in S : \E i \in 1..Cardinality(S) : SetToSeq(S)[i] = x
<1>1. ExistsBijection(1..Cardinality(S), S) /\ Cardinality(S) \in Nat
  BY FS_CardinalityType
<1>2. PICK f \in Bijection(1..Cardinality(S), S) : TRUE
  BY <1>1 DEF ExistsBijection
<1>3. f \in [1..Cardinality(S) -> S] /\ IsInjective(f)
  BY <1>2 DEF Bijection, Injection
<1>4. SetToSeq(S) \in [1..Cardinality(S) -> S] /\ IsInjective(SetToSeq(S))
  BY <1>3 DEF SetToSeq
<1>5. SetToSeq(S) \in Injection(1..Cardinality(S), S)
  BY <1>4 DEF Injection
<1>6. Cardinality(1..Cardinality(S)) = Cardinality(S)
  BY <1>1, FS_Interval
<1>7. SetToSeq(S) \in Surjection(1..Cardinality(S), S)
  BY <1>5, <1>6, FS_Injection
<1> QED BY <1>4, <1>7 DEF Surjection

-----------------------------------------------------------------------------
(* The driver renders one picture. *)

Image == [what : {"app", "widget", "blank", "pattern", "splash"}, version : Int,
          on : Models \cup {NoModel}]
Picture == [key : AllKeys, img : Image, kind : {"cora", "local", "control"}]
DriverState == [pipe : Seq(Picture), cora : BOOLEAN, local : BOOLEAN]

(* How many pictures a driver has admitted. *)
Size(d) == Len(d.pipe)

Refused(d, p, e) == e = d /\ ((p.kind = "cora" /\ d.cora) \/ (p.kind = "local" /\ d.local))
Admitted(d, p, e) ==
    /\ e.pipe = Append(d.pipe, p) /\ e.cora = d.cora /\ e.local = d.local
    /\ Size(d) < Capacity + ControlReserve
Overloaded(d, p, e) ==
    /\ e.pipe = d.pipe /\ e.local /\ e.cora = (d.cora \/ p.kind # "local")
    /\ Size(d) >= Capacity

(* What submit() may do with an image. *)
LEMMA RenderOutcomes ==
    ASSUME NEW d \in DriverState, NEW p \in Picture
    PROVE  /\ Render(d, p) \in DriverState
           /\ \/ Refused(d, p, Render(d, p))
              \/ Admitted(d, p, Render(d, p))
              \/ Overloaded(d, p, Render(d, p))
<1> DEFINE room == Capacity + (IF p.kind = "control" THEN ControlReserve ELSE 0)
<1>1. Capacity \in Nat /\ ControlReserve \in Nat /\ room \in Nat
  BY ImagesAssumption
<1>2. /\ d.pipe \in Seq(Picture) /\ d.cora \in BOOLEAN /\ d.local \in BOOLEAN
      /\ Len(d.pipe) \in Nat /\ Append(d.pipe, p) \in Seq(Picture)
      /\ d = [pipe |-> d.pipe, cora |-> d.cora, local |-> d.local]
  BY DEF DriverState
<1>3. CASE p.kind = "cora" /\ d.cora
  <2>1. Render(d, p) = d
    BY <1>3 DEF Render
  <2> QED BY <2>1, <1>3 DEF Refused
<1>4. CASE p.kind = "local" /\ d.local
  <2>1. Render(d, p) = d
    BY <1>4 DEF Render
  <2> QED BY <2>1, <1>4 DEF Refused
<1>5. CASE ~ (p.kind = "cora" /\ d.cora) /\ ~ (p.kind = "local" /\ d.local)
  <2>1. CASE Len(d.pipe) < room
    <3>1. Render(d, p) = [d EXCEPT !.pipe = Append(@, p)]
      BY <1>5, <2>1 DEF Render
    <3>2. Render(d, p) = [pipe |-> Append(d.pipe, p), cora |-> d.cora, local |-> d.local]
      BY <3>1, <1>2 DEF DriverState
    <3>3. Len(d.pipe) < Capacity + ControlReserve
      BY <2>1, <1>1, <1>2
    <3>4. Admitted(d, p, Render(d, p))
      BY <3>2, <3>3 DEF Admitted, Size
    <3> QED BY <3>2, <3>4, <1>2 DEF DriverState
  <2>2. CASE ~ (Len(d.pipe) < room)
    <3>1. Render(d, p) = [d EXCEPT !.local = TRUE, !.cora = @ \/ p.kind # "local"]
      BY <1>5, <2>2 DEF Render
    <3>2. Render(d, p) = [pipe |-> d.pipe, cora |-> d.cora \/ p.kind # "local", local |-> TRUE]
      BY <3>1, <1>2 DEF DriverState
    <3>3. Len(d.pipe) >= Capacity
      BY <2>2, <1>1, <1>2
    <3>4. Overloaded(d, p, Render(d, p))
      BY <3>2, <3>3, <1>2 DEF Overloaded, Size
    <3> QED BY <3>2, <3>4, <1>2 DEF DriverState
  <2> QED BY <2>1, <2>2
<1> QED BY <1>3, <1>4, <1>5

-----------------------------------------------------------------------------
(* A burst renders its pictures one after the other: RenderAll is the last of a run of
   drivers. *)

FoldTable(d, s) ==
    CHOOSE iter : iter = [S \in SUBSET (DOMAIN s) |->
                            IF S = {} THEN d
                            ELSE Render(iter[S \ {Max(S)}], s[Max(S)])]

(* A table of the drivers that the pictures at the places in a set lead to. *)
IsTable(t, d, s, n) ==
    /\ t \in [SUBSET (1..n) -> DriverState]
    /\ \A S \in SUBSET (1..n) :
         t[S] = IF S = {} THEN d ELSE Render(t[S \ {Max(S)}], s[Max(S)])

LEMMA MaxOfInterval ==
    ASSUME NEW n \in Nat, NEW S \in SUBSET (1..(n + 1)), n + 1 \in S
    PROVE  Max(S) = n + 1
<1>1. \A y \in S : n + 1 >= y
  OBVIOUS
<1>2. \A x \in S : (\A y \in S : x >= y) => x = n + 1
  OBVIOUS
<1> QED BY <1>1, <1>2 DEF Max

LEMMA TableExists ==
    ASSUME NEW d \in DriverState, NEW s \in Seq(Picture)
    PROVE  \A n \in 0..Len(s) : \E t : IsTable(t, d, s, n)
<1> DEFINE A == {n \in 0..Len(s) : \E t : IsTable(t, d, s, n)}
<1>0. Len(s) \in Nat
  OBVIOUS
<1>1. 0 \in A
  <2> DEFINE t == [S \in SUBSET (1..0) |-> d]
  <2>1. \A S \in SUBSET (1..0) : S = {}
    OBVIOUS
  <2>2. t \in [SUBSET (1..0) -> DriverState]
    OBVIOUS
  <2>3. \A S \in SUBSET (1..0) : t[S] = d
    OBVIOUS
  <2> HIDE DEF t
  <2>4. IsTable(t, d, s, 0)
    BY <2>1, <2>2, <2>3 DEF IsTable
  <2> QED BY <2>4, <1>0
<1>2. ASSUME NEW n \in 0..Len(s), n \in A, n < Len(s) PROVE n + 1 \in A
  <2>1. PICK t : IsTable(t, d, s, n)
    BY <1>2
  <2> DEFINE u == [S \in SUBSET (1..(n + 1)) |->
                     IF n + 1 \in S THEN Render(t[S \ {n + 1}], s[n + 1]) ELSE t[S]]
  <2>2. s[n + 1] \in Picture /\ n \in Nat /\ n + 1 \in 0..Len(s)
    BY <1>0, <1>2
  <2>3. ASSUME NEW S \in SUBSET (1..(n + 1)) PROVE S \ {n + 1} \in SUBSET (1..n)
    BY <2>2
  <2>4. ASSUME NEW S \in SUBSET (1..(n + 1)), n + 1 \notin S PROVE S \in SUBSET (1..n)
    BY <2>2, <2>4
  <2>5. \A S \in SUBSET (1..n) : t[S] \in DriverState
    BY <2>1 DEF IsTable
  <2>6. \A S \in SUBSET (1..(n + 1)) :
           (IF n + 1 \in S THEN Render(t[S \ {n + 1}], s[n + 1]) ELSE t[S]) \in DriverState
    BY <2>2, <2>3, <2>4, <2>5, RenderOutcomes
  <2>7. u \in [SUBSET (1..(n + 1)) -> DriverState]
    BY <2>6
  <2>8. ASSUME NEW S \in SUBSET (1..(n + 1))
        PROVE  u[S] = IF S = {} THEN d ELSE Render(u[S \ {Max(S)}], s[Max(S)])
    <3>1. CASE n + 1 \in S
      <4>1. Max(S) = n + 1
        BY <3>1, <2>2, MaxOfInterval
      <4>2. S \ {n + 1} \in SUBSET (1..(n + 1)) /\ n + 1 \notin S \ {n + 1}
        OBVIOUS
      <4>3. u[S \ {n + 1}] = t[S \ {n + 1}]
        BY <4>2
      <4>4. u[S] = Render(t[S \ {n + 1}], s[n + 1])
        BY <3>1
      <4>5. S # {}
        BY <3>1
      <4> HIDE DEF u
      <4> QED BY <4>1, <4>3, <4>4, <4>5
    <3>2. CASE n + 1 \notin S
      <4>1. S \in SUBSET (1..n) /\ S \ {Max(S)} \in SUBSET (1..n)
        BY <2>4, <3>2
      <4>2. u[S] = t[S]
        BY <3>2
      <4>3. S \ {Max(S)} \in SUBSET (1..(n + 1)) /\ n + 1 \notin S \ {Max(S)}
        BY <3>2
      <4>4. u[S \ {Max(S)}] = t[S \ {Max(S)}]
        BY <4>3
      <4> HIDE DEF u
      <4>5. t[S] = IF S = {} THEN d ELSE Render(t[S \ {Max(S)}], s[Max(S)])
        BY <4>1, <2>1 DEF IsTable
      <4> QED BY <4>2, <4>4, <4>5
    <3> QED BY <3>1, <3>2
  <2> HIDE DEF u
  <2>9. IsTable(u, d, s, n + 1)
    BY <2>7, <2>8 DEF IsTable
  <2> QED BY <2>2, <2>9
<1> HIDE DEF A
<1>3. \A n \in 0..Len(s) : n \in A
  BY <1>0, <1>1, <1>2, CountingUp
<1> QED BY <1>3 DEF A

(* A run of the drivers a burst leads through. *)
IsRun(r, d, s) ==
    /\ r \in [0..Len(s) -> DriverState]
    /\ r[0] = d
    /\ \A i \in 0..Len(s) : i < Len(s) => r[i + 1] = Render(r[i], s[i + 1])

LEMMA BurstIsRun ==
    ASSUME NEW d \in DriverState, NEW s \in Seq(Picture)
    PROVE  \E r : IsRun(r, d, s) /\ RenderAll(d, s) = r[Len(s)]
<1> DEFINE n == Len(s)
           F(t) == [S \in SUBSET (DOMAIN s) |->
                      IF S = {} THEN d ELSE Render(t[S \ {Max(S)}], s[Max(S)])]
           T == FoldTable(d, s)
           r == [i \in 0..n |-> T[1..i]]
<1>1. n \in Nat /\ DOMAIN s = 1..n
  OBVIOUS
<1>2. PICK t : IsTable(t, d, s, n)
  BY <1>1, TableExists
<1>3. t = F(t)
  BY <1>1, <1>2 DEF IsTable
<1>4. T = F(T)
  BY <1>3 DEF FoldTable
<1>5. RenderAll(d, s) = T[DOMAIN s]
  BY DEF RenderAll, FoldLeft, MapThenFoldSet, FoldTable
<1> HIDE DEF T
<1>6. T = [S \in SUBSET (1..n) |->
             IF S = {} THEN d ELSE Render(T[S \ {Max(S)}], s[Max(S)])]
  BY <1>4, <1>1
<1>7. \A S \in SUBSET (1..n) :
        T[S] = IF S = {} THEN d ELSE Render(T[S \ {Max(S)}], s[Max(S)])
  BY <1>6
<1>8. r[0] = d
  <2>1. 1..0 = {} /\ 1..0 \in SUBSET (1..n)
    OBVIOUS
  <2>2. r[0] = T[1..0]
    BY <1>1
  <2> HIDE DEF r
  <2> QED BY <2>1, <2>2, <1>7
<1>9. ASSUME NEW i \in 0..n, i < n PROVE r[i + 1] = Render(r[i], s[i + 1])
  <2>1. 1..(i + 1) \in SUBSET (1..n) /\ i + 1 \in 1..(i + 1) /\ i \in Nat /\ i + 1 \in 0..n
    BY <1>1, <1>9
  <2>2. Max(1..(i + 1)) = i + 1
    BY <2>1, MaxOfInterval
  <2>3. (1..(i + 1)) \ {i + 1} = 1..i
    BY <2>1
  <2>4. T[1..(i + 1)] = Render(T[(1..(i + 1)) \ {Max(1..(i + 1))}], s[Max(1..(i + 1))])
    BY <2>1, <1>7
  <2>5. r[i + 1] = T[1..(i + 1)] /\ r[i] = T[1..i]
    BY <2>1
  <2> HIDE DEF r, n
  <2> QED BY <2>2, <2>3, <2>4, <2>5
<1>10. r[n] = T[1..n]
  BY <1>1
<1> DEFINE A == {i \in 0..n : r[i] \in DriverState}
<1> HIDE DEF r
<1>11. 0 \in A
  BY <1>8, <1>1
<1>12. ASSUME NEW i \in 0..n, i \in A, i < n PROVE i + 1 \in A
  <2>1. s[i + 1] \in Picture /\ i + 1 \in 0..n
    BY <1>1, <1>12
  <2>2. r[i + 1] \in DriverState
    BY <1>9, <1>12, <2>1, RenderOutcomes
  <2> QED BY <2>1, <2>2
<1>13. \A i \in 0..n : r[i] \in DriverState
  <2> HIDE DEF A
  <2>1. \A i \in 0..n : i \in A
    BY <1>1, <1>11, <1>12, CountingUp
  <2> QED BY <2>1 DEF A
<1>14. r \in [0..n -> DriverState]
  BY <1>13 DEF r
<1>15. IsRun(r, d, s)
  BY <1>8, <1>9, <1>14 DEF IsRun
<1> QED BY <1>15, <1>10, <1>5, <1>1

-----------------------------------------------------------------------------
(* What a burst leaves of a driver, by parts: e is the driver after the first i pictures of
   the burst s. *)

(* Suspensions stay, and the pipe keeps what it had. *)
Keeps(d, e) ==
    /\ d.cora => e.cora
    /\ d.local => e.local
    /\ Size(d) <= Size(e)
    /\ \A j \in 1..Size(d) : e.pipe[j] = d.pipe[j]

(* What is new comes from the burst, and fits. *)
Adds(d, s, e, i) ==
    /\ \A j \in 1..Size(e) : j > Size(d) => \E k \in 1..i : e.pipe[j] = s[k]
    /\ Size(e) <= Size(d) + i
    /\ Size(d) <= Capacity + ControlReserve => Size(e) <= Capacity + ControlReserve

(* Without a suspension nothing is lost. *)
LosesNone(d, s, e, i) ==
    ~e.cora /\ ~e.local =>
      /\ Size(e) = Size(d) + i
      /\ \A j \in 1..i : e.pipe[Size(d) + j] = s[j]

(* A burst the driver has room for does not suspend it. *)
Fits(d, e, i) ==
    Size(d) + i <= Capacity /\ ~d.local => ~e.local /\ e.cora = d.cora

SoFar(d, s, e, i) ==
    e \in DriverState /\ Keeps(d, e) /\ Adds(d, s, e, i) /\ LosesNone(d, s, e, i) /\ Fits(d, e, i)

LEMMA SoFarBegins ==
    ASSUME NEW d \in DriverState, NEW s \in Seq(Picture)
    PROVE  SoFar(d, s, d, 0)
<1>1. d.pipe \in Seq(Picture) /\ Size(d) \in Nat
  BY DEF DriverState, Size
<1> QED BY <1>1 DEF SoFar, Keeps, Adds, LosesNone, Fits

LEMMA AppendPlaces ==
    ASSUME NEW q \in Seq(Picture), NEW p \in Picture
    PROVE  /\ Len(Append(q, p)) = Len(q) + 1
           /\ \A j \in 1..Len(q) : Append(q, p)[j] = q[j]
           /\ Append(q, p)[Len(q) + 1] = p
  OBVIOUS

LEMMA SoFarGoesOn ==
    ASSUME NEW d \in DriverState, NEW s \in Seq(Picture), NEW i \in 0..Len(s), i < Len(s),
           NEW e, SoFar(d, s, e, i)
    PROVE  SoFar(d, s, Render(e, s[i + 1]), i + 1)
<1> DEFINE p == s[i + 1]
           f == Render(e, p)
<1>1. /\ p \in Picture /\ i \in Nat
      /\ d.pipe \in Seq(Picture) /\ Size(d) \in Nat
      /\ d.cora \in BOOLEAN /\ d.local \in BOOLEAN
  BY DEF DriverState, Size
<1>2. /\ e \in DriverState /\ e.pipe \in Seq(Picture) /\ Size(e) \in Nat
      /\ e.cora \in BOOLEAN /\ e.local \in BOOLEAN
  BY DEF SoFar, DriverState, Size
<1>3. Keeps(d, e) /\ Adds(d, s, e, i) /\ LosesNone(d, s, e, i) /\ Fits(d, e, i)
  BY DEF SoFar
<1>4. f \in DriverState /\ (Refused(e, p, f) \/ Admitted(e, p, f) \/ Overloaded(e, p, f))
  BY <1>1, <1>2, RenderOutcomes
<1>5. Capacity \in Nat /\ ControlReserve \in Nat
  BY ImagesAssumption
<1>n. i \in Nat /\ Size(d) \in Nat /\ Size(e) \in Nat
  BY <1>1, <1>2
<1> HIDE DEF f
<1>6. CASE Refused(e, p, f)
  <2>1. f = e /\ (e.cora \/ e.local)
    BY <1>6 DEF Refused
  <2>2. Keeps(d, f)
    BY <2>1, <1>3
  <2>3. Adds(d, s, f, i + 1)
    <3>1. \A j \in 1..Size(e) : j > Size(d) => \E k \in 1..(i + 1) : e.pipe[j] = s[k]
      BY ONLY <1>3, <1>n DEF Adds
    <3>2. Size(e) <= Size(d) + (i + 1)
      BY ONLY <1>3, <1>n DEF Adds
    <3> QED BY <3>1, <3>2, <2>1, <1>3 DEF Adds
  <2>4. LosesNone(d, s, f, i + 1)
    BY <2>1 DEF LosesNone
  <2>5. Fits(d, f, i + 1)
    BY ONLY <2>1, <1>n, <1>3, <1>5 DEF Fits, Adds
  <2> QED BY <2>2, <2>3, <2>4, <2>5, <1>4 DEF SoFar, f
<1>7. CASE Admitted(e, p, f)
  <2>1. /\ f.pipe = Append(e.pipe, p) /\ f.cora = e.cora /\ f.local = e.local
        /\ Size(e) < Capacity + ControlReserve
    BY <1>7 DEF Admitted
  <2>2. /\ Size(f) = Size(e) + 1
        /\ \A j \in 1..Size(e) : f.pipe[j] = e.pipe[j]
        /\ f.pipe[Size(e) + 1] = p
    BY <2>1, <1>1, <1>2, AppendPlaces DEF Size
  <2>3. Keeps(d, f)
    <3>1. \A j \in 1..Size(d) : j \in 1..Size(e) /\ e.pipe[j] = d.pipe[j]
      BY <1>1, <1>2, <1>3 DEF Keeps
    <3>2. \A j \in 1..Size(d) : f.pipe[j] = d.pipe[j]
      BY <3>1, <2>2
    <3>3. Size(d) <= Size(f)
      BY <2>2, <1>1, <1>2, <1>3 DEF Keeps
    <3> QED BY <3>2, <3>3, <2>1, <1>3 DEF Keeps
  <2>4. Adds(d, s, f, i + 1)
    <3>1. ASSUME NEW j \in 1..Size(f), j > Size(d)
          PROVE  \E k \in 1..(i + 1) : f.pipe[j] = s[k]
      <4>1. CASE j = Size(e) + 1
        <5>1. f.pipe[j] = s[i + 1] /\ i + 1 \in 1..(i + 1)
          BY <4>1, <2>2, <1>1
        <5> QED BY <5>1
      <4>2. CASE j # Size(e) + 1
        <5>1. j \in 1..Size(e)
          BY <4>2, <2>2, <1>2
        <5>2. PICK k \in 1..i : e.pipe[j] = s[k]
          BY <5>1, <3>1, <1>3 DEF Adds
        <5>3. k \in 1..(i + 1)
          BY <1>1
        <5> QED BY <5>1, <5>2, <5>3, <2>2
      <4> QED BY <4>1, <4>2
    <3>2. Size(f) <= Size(d) + (i + 1)
      BY ONLY <2>2, <1>n, <1>3 DEF Adds
    <3>3. Size(f) <= Capacity + ControlReserve
      BY ONLY <2>1, <2>2, <1>n, <1>5
    <3> QED BY <3>1, <3>2, <3>3 DEF Adds
  <2>5. LosesNone(d, s, f, i + 1)
    <3> SUFFICES ASSUME ~f.cora, ~f.local
                 PROVE  /\ Size(f) = Size(d) + (i + 1)
                        /\ \A j \in 1..(i + 1) : f.pipe[Size(d) + j] = s[j]
      BY DEF LosesNone
    <3>1. /\ Size(e) = Size(d) + i
          /\ \A j \in 1..i : e.pipe[Size(d) + j] = s[j]
      BY ONLY <2>1, <1>3, ~f.cora, ~f.local DEF LosesNone
    <3>2. Size(f) = Size(d) + (i + 1)
      BY ONLY <3>1, <2>2, <1>n
    <3>3. ASSUME NEW j \in 1..(i + 1) PROVE f.pipe[Size(d) + j] = s[j]
      <4>1. CASE j = i + 1
        <5>1. Size(d) + j = Size(e) + 1
          BY ONLY <4>1, <3>1, <1>n
        <5> QED BY <5>1, <4>1, <2>2
      <4>2. CASE j # i + 1
        <5>1. j \in 1..i /\ Size(d) + j \in 1..Size(e)
          BY ONLY <4>2, <3>1, <1>n, j \in 1..(i + 1)
        <5> QED BY <5>1, <3>1, <2>2
      <4> QED BY <4>1, <4>2
    <3> QED BY <3>2, <3>3
  <2>6. Fits(d, f, i + 1)
    BY ONLY <2>1, <1>n, <1>3, <1>5 DEF Fits
  <2> QED BY <2>3, <2>4, <2>5, <2>6, <1>4 DEF SoFar, f
<1>8. CASE Overloaded(e, p, f)
  <2>1. /\ f.pipe = e.pipe /\ Size(f) = Size(e) /\ f.local /\ (e.cora => f.cora)
        /\ Size(e) >= Capacity
    BY <1>8, <1>2 DEF Overloaded, Size
  <2>2. Keeps(d, f)
    BY <2>1, <1>3 DEF Keeps
  <2>3. Adds(d, s, f, i + 1)
    <3>1. \A j \in 1..Size(e) : j > Size(d) => \E k \in 1..(i + 1) : e.pipe[j] = s[k]
      BY ONLY <1>3, <1>n DEF Adds
    <3>2. Size(e) <= Size(d) + (i + 1)
      BY ONLY <1>3, <1>n DEF Adds
    <3> QED BY <3>1, <3>2, <2>1, <1>3 DEF Adds
  <2>4. LosesNone(d, s, f, i + 1)
    BY <2>1 DEF LosesNone
  <2>5. Fits(d, f, i + 1)
    <3>1. Size(e) <= Size(d) + i
      BY <1>3 DEF Adds
    <3>2. ~ (Size(d) + (i + 1) <= Capacity)
      BY ONLY <3>1, <2>1, <1>n, <1>5
    <3> QED BY <3>2 DEF Fits
  <2> QED BY <2>2, <2>3, <2>4, <2>5, <1>4 DEF SoFar, f
<1> QED BY <1>4, <1>6, <1>7, <1>8 DEF f

(* A burst that ends in an image of the dock itself ends the pipe with it. *)
EndsWith(s, e) ==
    Len(s) > 0 /\ s[Len(s)].kind = "local" /\ ~e.local
      => Size(e) > 0 /\ e.pipe[Size(e)] = s[Len(s)]

LEMMA BurstFacts ==
    ASSUME NEW d \in DriverState, NEW s \in Seq(Picture)
    PROVE  /\ RenderAll(d, s) \in DriverState
           /\ Keeps(d, RenderAll(d, s))
           /\ Adds(d, s, RenderAll(d, s), Len(s))
           /\ LosesNone(d, s, RenderAll(d, s), Len(s))
           /\ Fits(d, RenderAll(d, s), Len(s))
           /\ EndsWith(s, RenderAll(d, s))
<1>1. PICK r : IsRun(r, d, s) /\ RenderAll(d, s) = r[Len(s)]
  BY BurstIsRun
<1> DEFINE n == Len(s)
           A == {i \in 0..n : SoFar(d, s, r[i], i)}
<1>2. n \in Nat
  OBVIOUS
<1>3. 0 \in A
  BY <1>1, <1>2, SoFarBegins DEF IsRun
<1>4. ASSUME NEW i \in 0..n, i \in A, i < n PROVE i + 1 \in A
  <2>1. SoFar(d, s, r[i], i) /\ r[i + 1] = Render(r[i], s[i + 1]) /\ i + 1 \in 0..n
    BY <1>1, <1>2, <1>4 DEF IsRun
  <2> QED BY <2>1, <1>4, SoFarGoesOn
<1>5. \A i \in 0..n : i \in A
  <2> HIDE DEF A, n
  <2> QED BY <1>2, <1>3, <1>4, CountingUp
<1>6. SoFar(d, s, r[n], n)
  BY <1>5, <1>2
<1>7. EndsWith(s, r[n])
  <2> SUFFICES ASSUME n > 0, s[n].kind = "local", ~r[n].local
               PROVE  Size(r[n]) > 0 /\ r[n].pipe[Size(r[n])] = s[n]
    BY DEF EndsWith
  <2> DEFINE e == r[n - 1]
             f == r[n]
  <2>1. /\ n - 1 \in 0..n /\ n - 1 < n /\ n - 1 + 1 = n /\ s[n] \in Picture
    BY <1>2
  <2>2. f = Render(e, s[n]) /\ e \in DriverState
    BY <2>1, <1>1 DEF IsRun
  <2> HIDE DEF e, f
  <2>3. Refused(e, s[n], f) \/ Admitted(e, s[n], f) \/ Overloaded(e, s[n], f)
    BY <2>1, <2>2, RenderOutcomes
  <2>4. ~f.local
    BY DEF f
  <2>5. ~Refused(e, s[n], f) /\ ~Overloaded(e, s[n], f)
    BY <2>4 DEF Refused, Overloaded
  <2>6. f.pipe = Append(e.pipe, s[n])
    BY <2>3, <2>5 DEF Admitted
  <2>7. e.pipe \in Seq(Picture)
    BY <2>2 DEF DriverState
  <2>8. Size(f) = Size(e) + 1 /\ f.pipe[Size(e) + 1] = s[n] /\ Size(e) \in Nat
    BY <2>1, <2>6, <2>7, AppendPlaces DEF Size
  <2>9. Size(f) > 0 /\ f.pipe[Size(f)] = s[n]
    BY <2>8
  <2> QED BY <2>9 DEF f
<1> QED BY <1>1, <1>6, <1>7 DEF SoFar

-----------------------------------------------------------------------------
(* Where a burst leaves a key. *)

Rendered(d, s, e) == SoFar(d, s, e, Len(s)) /\ EndsWith(s, e)

LEMMA BurstIsRendered ==
    ASSUME NEW d \in DriverState, NEW s \in Seq(Picture)
    PROVE  RenderAll(d, s) \in DriverState /\ Rendered(d, s, RenderAll(d, s))
BY BurstFacts DEF Rendered, SoFar

LEMMA PictureIsRendered ==
    ASSUME NEW d \in DriverState, NEW p \in Picture
    PROVE  Render(d, p) \in DriverState /\ SoFar(d, <<p>>, Render(d, p), 1)
<1> DEFINE s == <<p>>
<1>1. s \in Seq(Picture) /\ Len(s) = 1 /\ s[1] = p
  OBVIOUS
<1> HIDE DEF s
<1>2. SoFar(d, s, d, 0)
  BY <1>1, SoFarBegins
<1>3. 0 \in 0..Len(s) /\ 0 < Len(s) /\ 0 + 1 = 1
  BY <1>1
<1>4. SoFar(d, s, Render(d, s[0 + 1]), 0 + 1)
  BY <1>1, <1>2, <1>3, SoFarGoesOn
<1>5. SoFar(d, s, Render(d, p), 1)
  BY <1>1, <1>3, <1>4
<1> QED BY <1>5 DEF SoFar, s

(* The last picture s has of key k shows img; s has none of k. *)
Places(s, k, img) ==
    \E i \in 1..Len(s) :
        /\ s[i].key = k /\ s[i].img = img
        /\ \A j \in 1..Len(s) : j > i /\ s[j].key = k => s[j].img = img

Spares(s, k) == \A j \in 1..Len(s) : s[j].key # k

(* When the pipe q is empty again, key k of the panel pn shows img. *)
Shows(q, pn, k, img) ==
    \/ Places(q, k, img)
    \/ pn[k] = img /\ \A j \in 1..Len(q) : q[j].key = k => q[j].img = img

LEMMA ConcatPictures ==
    ASSUME NEW s \in Seq(Picture), NEW t \in Seq(Picture)
    PROVE  /\ s \o t \in Seq(Picture) /\ Len(s \o t) = Len(s) + Len(t)
           /\ \A i \in 1..Len(s) : (s \o t)[i] = s[i]
           /\ \A i \in 1..Len(t) : (s \o t)[Len(s) + i] = t[i]
           /\ \A j \in 1..Len(s \o t) : j \in 1..Len(s)
                                          \/ \E i \in 1..Len(t) : j = Len(s) + i
<1>1. /\ s \o t \in Seq(Picture) /\ Len(s \o t) = Len(s) + Len(t)
      /\ \A i \in 1..Len(s) : (s \o t)[i] = s[i]
      /\ \A i \in 1..Len(t) : (s \o t)[Len(s) + i] = t[i]
  OBVIOUS
<1>2. ASSUME NEW j \in 1..Len(s \o t), j \notin 1..Len(s)
      PROVE  \E i \in 1..Len(t) : j = Len(s) + i
  <2>1. j - Len(s) \in 1..Len(t) /\ j = Len(s) + (j - Len(s))
    BY <1>1, <1>2
  <2> QED BY <2>1
<1> QED BY <1>1, <1>2

LEMMA PlacesFirst ==
    ASSUME NEW s \in Seq(Picture), NEW t \in Seq(Picture), NEW k, NEW img,
           Places(s, k, img), Spares(t, k)
    PROVE  Places(s \o t, k, img)
<1>1. PICK i \in 1..Len(s) :
        /\ s[i].key = k /\ s[i].img = img
        /\ \A j \in 1..Len(s) : j > i /\ s[j].key = k => s[j].img = img
  BY DEF Places
<1> DEFINE q == s \o t
<1>2. /\ Len(q) = Len(s) + Len(t) /\ Len(s) \in Nat /\ Len(t) \in Nat
      /\ \A j \in 1..Len(s) : q[j] = s[j]
      /\ \A j \in 1..Len(t) : q[Len(s) + j] = t[j]
      /\ \A j \in 1..Len(q) : j \in 1..Len(s) \/ \E h \in 1..Len(t) : j = Len(s) + h
  BY ConcatPictures
<1> HIDE DEF q
<1>3. i \in 1..Len(q)
  BY ONLY <1>2, i \in 1..Len(s)
<1>4. ASSUME NEW j \in 1..Len(q), j > i, q[j].key = k PROVE q[j].img = img
  <2>1. CASE j \in 1..Len(s)
    BY <2>1, <1>1, <1>2, <1>4
  <2>2. CASE \E h \in 1..Len(t) : j = Len(s) + h
    BY <2>2, <1>2, <1>4 DEF Spares
  <2> QED BY <2>1, <2>2, <1>2
<1>5. q[i].key = k /\ q[i].img = img
  BY <1>1, <1>2
<1>6. Places(q, k, img)
  BY <1>3, <1>4, <1>5 DEF Places
<1> QED BY <1>6 DEF q

LEMMA PlacesLast ==
    ASSUME NEW s \in Seq(Picture), NEW t \in Seq(Picture), NEW k, NEW img, Places(t, k, img)
    PROVE  Places(s \o t, k, img)
<1>1. PICK i \in 1..Len(t) :
        /\ t[i].key = k /\ t[i].img = img
        /\ \A j \in 1..Len(t) : j > i /\ t[j].key = k => t[j].img = img
  BY DEF Places
<1> DEFINE q == s \o t
<1>2. /\ Len(q) = Len(s) + Len(t) /\ Len(s) \in Nat /\ Len(t) \in Nat
      /\ \A j \in 1..Len(t) : q[Len(s) + j] = t[j]
      /\ \A j \in 1..Len(q) : j \in 1..Len(s) \/ \E h \in 1..Len(t) : j = Len(s) + h
  BY ConcatPictures
<1> HIDE DEF q
<1>3. Len(s) + i \in 1..Len(q)
  BY ONLY <1>2, i \in 1..Len(t)
<1>4. ASSUME NEW j \in 1..Len(q), j > Len(s) + i, q[j].key = k PROVE q[j].img = img
  <2>1. j \notin 1..Len(s)
    BY ONLY <1>2, <1>4, i \in 1..Len(t)
  <2>2. PICK h \in 1..Len(t) : j = Len(s) + h
    BY <2>1, <1>2
  <2>3. h > i
    BY ONLY <2>2, <1>2, <1>4, i \in 1..Len(t)
  <2> QED BY <2>2, <2>3, <1>1, <1>2, <1>4
<1>5. q[Len(s) + i].key = k /\ q[Len(s) + i].img = img
  BY <1>1, <1>2
<1>6. Places(q, k, img)
  BY <1>3, <1>4, <1>5 DEF Places
<1> QED BY <1>6 DEF q

LEMMA SparesBoth ==
    ASSUME NEW s \in Seq(Picture), NEW t \in Seq(Picture), NEW k, Spares(s, k), Spares(t, k)
    PROVE  Spares(s \o t, k)
<1> SUFFICES ASSUME NEW j \in 1..Len(s \o t) PROVE (s \o t)[j].key # k
  BY DEF Spares
<1> QED BY ConcatPictures DEF Spares

(* A burst without a suspension leaves its keys as it places them. *)
LEMMA BurstPlaces ==
    ASSUME NEW d \in DriverState, NEW s \in Seq(Picture), NEW e,
           SoFar(d, s, e, Len(s)), ~e.cora, ~e.local,
           NEW k, NEW img, Places(s, k, img)
    PROVE  Places(e.pipe, k, img)
<1>1. PICK i \in 1..Len(s) :
        /\ s[i].key = k /\ s[i].img = img
        /\ \A j \in 1..Len(s) : j > i /\ s[j].key = k => s[j].img = img
  BY DEF Places
<1>2. /\ Size(e) = Size(d) + Len(s) /\ \A j \in 1..Len(s) : e.pipe[Size(d) + j] = s[j]
  BY DEF SoFar, LosesNone
<1>3. Size(d) \in Nat /\ Len(s) \in Nat
  BY DEF DriverState, Size
<1>4. Size(d) + i \in 1..Size(e)
  BY ONLY <1>2, <1>3, i \in 1..Len(s)
<1>5. ASSUME NEW j \in 1..Size(e), j > Size(d) + i, e.pipe[j].key = k PROVE e.pipe[j].img = img
  <2>1. j - Size(d) \in 1..Len(s) /\ Size(d) + (j - Size(d)) = j /\ j - Size(d) > i
    BY ONLY <1>2, <1>3, <1>5, i \in 1..Len(s), j \in 1..Size(e)
  <2>2. e.pipe[j] = s[j - Size(d)]
    BY <2>1, <1>2
  <2> QED BY <2>1, <2>2, <1>1, <1>5
<1>6. e.pipe[Size(d) + i].key = k /\ e.pipe[Size(d) + i].img = img
  BY <1>1, <1>2
<1> QED BY <1>4, <1>5, <1>6 DEF Places, Size

(* A burst leaves alone the keys it does not name. *)
LEMMA BurstSpares ==
    ASSUME NEW d \in DriverState, NEW s \in Seq(Picture), NEW e, SoFar(d, s, e, Len(s)),
           NEW k, NEW img, NEW pn, Spares(s, k), Shows(d.pipe, pn, k, img)
    PROVE  Shows(e.pipe, pn, k, img)
<1>1. /\ Size(d) <= Size(e) /\ \A j \in 1..Size(d) : e.pipe[j] = d.pipe[j]
      /\ \A j \in 1..Size(e) : j > Size(d) => \E i \in 1..Len(s) : e.pipe[j] = s[i]
  BY DEF SoFar, Keeps, Adds
<1>2. Size(d) \in Nat /\ Size(e) \in Nat
  BY DEF DriverState, Size, SoFar
<1>3. \A j \in 1..Size(e) : j > Size(d) => e.pipe[j].key # k
  BY <1>1 DEF Spares
<1>4. \A j \in 1..Size(e) : j \in 1..Size(d) \/ j > Size(d)
  BY ONLY <1>2
<1>5. CASE Places(d.pipe, k, img)
  <2>1. PICK i \in 1..Size(d) :
          /\ d.pipe[i].key = k /\ d.pipe[i].img = img
          /\ \A j \in 1..Size(d) : j > i /\ d.pipe[j].key = k => d.pipe[j].img = img
    BY <1>5 DEF Places, Size
  <2>2. i \in 1..Size(e)
    BY ONLY <1>1, <1>2, i \in 1..Size(d)
  <2>3. \A j \in 1..Size(e) : j > i /\ e.pipe[j].key = k => e.pipe[j].img = img
    BY <1>1, <1>3, <1>4, <2>1
  <2>4. e.pipe[i].key = k /\ e.pipe[i].img = img
    BY <1>1, <2>1
  <2> QED BY <2>2, <2>3, <2>4 DEF Shows, Places, Size
<1>6. CASE ~Places(d.pipe, k, img)
  <2>1. pn[k] = img /\ \A j \in 1..Size(d) : d.pipe[j].key = k => d.pipe[j].img = img
    BY <1>6 DEF Shows, Size
  <2>2. \A j \in 1..Size(e) : e.pipe[j].key = k => e.pipe[j].img = img
    BY <1>1, <1>3, <1>4, <2>1
  <2> QED BY <2>1, <2>2 DEF Shows, Size
<1> QED BY <1>5, <1>6

(* A burst that ends in an image of the dock leaves that image on its key. *)
LEMMA BurstEnds ==
    ASSUME NEW d \in DriverState, NEW s \in Seq(Picture), NEW e, Rendered(d, s, e), ~e.local,
           Len(s) > 0, s[Len(s)].kind = "local"
    PROVE  Places(e.pipe, s[Len(s)].key, s[Len(s)].img)
<1>1. Size(e) > 0 /\ e.pipe[Size(e)] = s[Len(s)]
  BY DEF Rendered, EndsWith
<1>2. Size(e) \in Nat
  BY DEF Rendered, SoFar, DriverState, Size
<1>3. Size(e) \in 1..Size(e) /\ \A j \in 1..Size(e) : ~ (j > Size(e))
  BY ONLY <1>1, <1>2
<1> QED BY <1>1, <1>3 DEF Places, Size

(* The device takes the next picture. *)
LEMMA PaintShows ==
    ASSUME NEW q \in Seq(Picture), q # << >>, NEW pn, DOMAIN pn = AllKeys,
           NEW k \in AllKeys, NEW img, Shows(q, pn, k, img)
    PROVE  Shows(Tail(q), [pn EXCEPT ![Head(q).key] = Head(q).img], k, img)
<1> DEFINE r == Tail(q)
           qn == [pn EXCEPT ![Head(q).key] = Head(q).img]
<1>1. /\ Len(q) \in Nat /\ Len(q) >= 1 /\ Len(r) = Len(q) - 1
      /\ \A j \in 1..Len(r) : r[j] = q[j + 1]
      /\ Head(q) = q[1] /\ q[1] \in Picture
  OBVIOUS
<1>2. q[1].key \in AllKeys
  BY <1>1 DEF Picture
<1>3. qn[k] = IF k = q[1].key THEN q[1].img ELSE pn[k]
  BY <1>1, <1>2
<1> HIDE DEF r, qn
<1>l. \A j \in 1..Len(r) : j + 1 \in 1..Len(q) /\ j + 1 > 1
  BY ONLY <1>1
<1>4. CASE Places(q, k, img)
  <2>1. PICK i \in 1..Len(q) :
          /\ q[i].key = k /\ q[i].img = img
          /\ \A j \in 1..Len(q) : j > i /\ q[j].key = k => q[j].img = img
    BY <1>4 DEF Places
  <2>2. CASE i = 1
    <3>1. qn[k] = img
      BY <2>1, <2>2, <1>3
    <3>2. \A j \in 1..Len(r) : r[j].key = k => r[j].img = img
      BY <2>1, <2>2, <1>1, <1>l
    <3> QED BY <3>1, <3>2 DEF Shows, r, qn
  <2>3. CASE i # 1
    <3>1. i - 1 \in 1..Len(r) /\ i - 1 + 1 = i
      BY ONLY <1>1, <2>3, i \in 1..Len(q)
    <3>2. r[i - 1] = q[i]
      BY <3>1, <1>1
    <3>3. ASSUME NEW j \in 1..Len(r), j > i - 1, r[j].key = k PROVE r[j].img = img
      <4>1. j + 1 \in 1..Len(q) /\ j + 1 > i
        BY ONLY <1>1, <3>1, <3>3, j \in 1..Len(r), i \in 1..Len(q)
      <4> QED BY <4>1, <1>1, <2>1, <3>3
    <3>4. Places(r, k, img)
      BY <3>1, <3>2, <3>3, <2>1 DEF Places
    <3> QED BY <3>4 DEF Shows, r
  <2> QED BY <2>2, <2>3
<1>5. CASE ~Places(q, k, img)
  <2>1. pn[k] = img /\ \A j \in 1..Len(q) : q[j].key = k => q[j].img = img
    BY <1>5 DEF Shows
  <2>2. 1 \in 1..Len(q)
    BY ONLY <1>1
  <2>3. qn[k] = img
    BY <2>1, <2>2, <1>3
  <2>4. \A j \in 1..Len(r) : r[j].key = k => r[j].img = img
    BY <2>1, <1>1, <1>l
  <2> QED BY <2>3, <2>4 DEF Shows, r, qn
<1> QED BY <1>4, <1>5

(* A picture the app draws for model m, or one no app drew. *)
Native(p, m) == p.kind = "cora" /\ p.img # Pattern => p.img.on = m

(* A driver with what it may hold while model m is attached. *)
Sound(d, m) ==
    /\ d \in DriverState
    /\ Size(d) <= Capacity + ControlReserve
    /\ \A j \in 1..Size(d) : Native(d.pipe[j], m)

LEMMA BurstSound ==
    ASSUME NEW d, NEW m, Sound(d, m), NEW s \in Seq(Picture), NEW e, SoFar(d, s, e, Len(s)),
           \A j \in 1..Len(s) : Native(s[j], m)
    PROVE  Sound(e, m)
<1>1. /\ d \in DriverState /\ e \in DriverState
      /\ Size(d) <= Size(e) /\ \A j \in 1..Size(d) : e.pipe[j] = d.pipe[j]
      /\ \A j \in 1..Size(e) : j > Size(d) => \E i \in 1..Len(s) : e.pipe[j] = s[i]
  BY DEF SoFar, Keeps, Adds, Sound
<1>2. Size(e) <= Capacity + ControlReserve
  BY DEF SoFar, Adds, Sound
<1>3. Size(d) \in Nat /\ Size(e) \in Nat
  BY <1>1 DEF DriverState, Size
<1>4. \A j \in 1..Size(e) : j \in 1..Size(d) \/ j > Size(d)
  BY ONLY <1>3
<1>5. ASSUME NEW j \in 1..Size(e) PROVE Native(e.pipe[j], m)
  <2>1. CASE j \in 1..Size(d)
    <3>1. e.pipe[j] = d.pipe[j] /\ Native(d.pipe[j], m)
      BY <2>1, <1>1 DEF Sound
    <3> QED BY <3>1
  <2>2. CASE j > Size(d)
    <3>1. PICK i \in 1..Len(s) : e.pipe[j] = s[i]
      BY <2>2, <1>1
    <3>2. Native(s[i], m)
      OBVIOUS
    <3> QED BY <3>1, <3>2
  <2> QED BY <2>1, <2>2, <1>4
<1> QED BY <1>1, <1>2, <1>5 DEF Sound

-----------------------------------------------------------------------------
(* The invariant, by parts. *)

Typed ==
    /\ model \in Models \cup {NoModel} /\ framesModel \in Models \cup {NoModel}
    /\ held \in BOOLEAN /\ verifyKeys \subseteq Keys /\ (~held => verifyKeys = {})
    /\ client \in {"none", "up", "dropping"} /\ unsent \subseteq Keys
    /\ DOMAIN panel = AllKeys
    /\ want \in [Keys -> Int] /\ widgetWant \in Int
    /\ DOMAIN frames \subseteq Keys
    /\ \A k \in DOMAIN frames : frames[k] \in Image /\ frames[k].on = framesModel

(* Frames are kept for the attached model; the wizard needs a panel. *)
Attached ==
    /\ model # NoModel => framesModel = model
    /\ held => model # NoModel

(* What the app has sent in this session is on record, for the model it was sent to. *)
FramesAreCurrent ==
    client = "up" =>
      \A k \in Keys \ unsent : k \in DOMAIN frames /\ frames[k] = AppImage(want[k], framesModel)

(* A panel that nothing suspends is about to show the recorded frames. *)
FramesArrive ==
    model # NoModel /\ ~held /\ client = "up" /\ ~coraSuspended /\ ~localSuspended =>
      \A k \in Keys \ unsent : Shows(pipe, panel, k, frames[k])

(* A panel that takes the dock's own images is about to show the widget as cached. *)
WidgetArrives ==
    model # NoModel /\ ~localSuspended =>
      Shows(pipe, panel, WidgetKey, WidgetImage(widgetCache))

PanelInv ==
    /\ Typed /\ Attached /\ Sound(Driver, model)
    /\ FramesAreCurrent /\ FramesArrive /\ WidgetArrives

-----------------------------------------------------------------------------
(* The bursts. *)

AllNative(s, m) == \A j \in 1..Len(s) : Native(s[j], m)

LEMMA NativeBoth ==
    ASSUME NEW s \in Seq(Picture), NEW t \in Seq(Picture), NEW m, AllNative(s, m), AllNative(t, m)
    PROVE  AllNative(s \o t, m)
<1> SUFFICES ASSUME NEW j \in 1..Len(s \o t) PROVE Native((s \o t)[j], m)
  BY DEF AllNative
<1>1. CASE j \in 1..Len(s)
  <2>1. (s \o t)[j] = s[j] /\ Native(s[j], m)
    BY <1>1, ConcatPictures DEF AllNative
  <2> QED BY <2>1
<1>2. CASE \E i \in 1..Len(t) : j = Len(s) + i
  <2>1. PICK i \in 1..Len(t) : j = Len(s) + i
    BY <1>2
  <2>2. (s \o t)[j] = t[i] /\ Native(t[i], m)
    BY <2>1, ConcatPictures DEF AllNative
  <2> QED BY <2>2
<1> QED BY <1>1, <1>2, ConcatPictures

LEMMA KeySets == IsFiniteSet(Keys) /\ IsFiniteSet(SplashKeys) /\ SplashKeys \subseteq Keys
                 /\ Keys \subseteq AllKeys /\ WidgetKey \in AllKeys /\ WidgetKey \notin Keys
BY ImagesAssumption, FS_Subset DEF AllKeys

LEMMA FixedImages ==
    /\ \A what \in {"blank", "pattern", "splash"} : Fixed(what) \in Image
    /\ \A v \in Int : WidgetImage(v) \in Image
    /\ \A v \in Int, m \in Models : AppImage(v, m) \in Image
BY DEF Fixed, WidgetImage, AppImage, Image

LEMMA SplashFacts ==
    ASSUME NEW m
    PROVE  /\ Splash \in Seq(Picture) /\ Len(Splash) = Cardinality(SplashKeys)
           /\ Spares(Splash, WidgetKey) /\ AllNative(Splash, m)
<1> DEFINE s == SetToSeq(SplashKeys)
           n == Cardinality(SplashKeys)
<1>1. s \in [1..n -> SplashKeys] /\ n \in Nat /\ DOMAIN s = 1..n
  BY KeySets, SetToSeqLists, FS_CardinalityType
<1>2. \A k \in SplashKeys : Local(k, Fixed("splash")) \in Picture
  BY KeySets, FixedImages DEF Local, Picture
<1>3. Splash = [i \in 1..n |-> Local(s[i], Fixed("splash"))]
  BY <1>1 DEF Splash
<1> HIDE DEF s, n
<1>4. \A i \in 1..n : Local(s[i], Fixed("splash")) \in Picture
  BY <1>1, <1>2
<1>5. Splash \in Seq(Picture) /\ Len(Splash) = n
  BY <1>1, <1>3, <1>4
<1>6. ASSUME NEW j \in 1..n PROVE Splash[j].key # WidgetKey /\ Native(Splash[j], m)
  <2>1. Splash[j] = Local(s[j], Fixed("splash")) /\ s[j] \in SplashKeys
    BY <1>1, <1>3
  <2> QED BY <2>1, KeySets DEF Local, Native
<1> QED BY <1>5, <1>6 DEF Spares, AllNative, n

LEMMA FramesFacts ==
    ASSUME Typed
    PROVE  /\ Frames \in Seq(Picture) /\ Len(Frames) <= Cardinality(Keys)
           /\ Spares(Frames, WidgetKey) /\ AllNative(Frames, framesModel)
           /\ \A k \in DOMAIN frames : Places(Frames, k, frames[k])
<1> DEFINE s == SetToSeq(DOMAIN frames)
           n == Cardinality(DOMAIN frames)
<1>0. DOMAIN frames \subseteq Keys /\ \A k \in DOMAIN frames : frames[k] \in Image
                                                            /\ frames[k].on = framesModel
  BY DEF Typed
<1>1. IsFiniteSet(DOMAIN frames) /\ n <= Cardinality(Keys)
  BY <1>0, KeySets, FS_Subset
<1>2. /\ s \in [1..n -> DOMAIN frames] /\ n \in Nat /\ DOMAIN s = 1..n
      /\ \A k \in DOMAIN frames : \E i \in 1..n : s[i] = k
  BY <1>1, SetToSeqLists, FS_CardinalityType
<1>3. Frames = [i \in 1..n |-> Cora(s[i], frames[s[i]])]
  BY <1>2 DEF Frames
<1> HIDE DEF s, n
<1>4. \A k \in DOMAIN frames : Cora(k, frames[k]) \in Picture
  BY <1>0, KeySets DEF Cora, Picture
<1>5. \A i \in 1..n : Cora(s[i], frames[s[i]]) \in Picture /\ s[i] \in DOMAIN frames
  BY <1>2, <1>4
<1>6. Frames \in Seq(Picture) /\ Len(Frames) = n
  BY <1>2, <1>3, <1>5
<1>7. \A j \in 1..n : Frames[j].key = s[j] /\ Frames[j].img = frames[s[j]] /\ s[j] \in DOMAIN frames
  BY <1>2, <1>3 DEF Cora
<1>8. Spares(Frames, WidgetKey) /\ AllNative(Frames, framesModel)
  BY <1>0, <1>6, <1>7, KeySets DEF Spares, AllNative, Native
<1>9. ASSUME NEW k \in DOMAIN frames PROVE Places(Frames, k, frames[k])
  <2>1. PICK i \in 1..n : s[i] = k
    BY <1>2
  <2> QED BY <2>1, <1>6, <1>7 DEF Places
<1>10. Len(Frames) <= Cardinality(Keys)
  BY <1>1, <1>6
<1> QED BY <1>6, <1>8, <1>9, <1>10

LEMMA WidgetsFacts ==
    ASSUME Typed, NEW m
    PROVE  /\ Widgets \in Seq(Picture) /\ Len(Widgets) = 1
           /\ Widgets[1] = Local(WidgetKey, WidgetImage(widgetWant))
           /\ AllNative(Widgets, m)
           /\ \A k \in Keys : Spares(Widgets, k)
<1> DEFINE p == Local(WidgetKey, WidgetImage(widgetWant))
<1>1. p \in Picture /\ p.key = WidgetKey /\ p.kind = "local"
  BY KeySets, FixedImages DEF Local, Picture, Typed
<1>2. Widgets = <<p>>
  BY DEF Widgets
<1> HIDE DEF p
<1>3. Widgets \in Seq(Picture) /\ Len(Widgets) = 1 /\ Widgets[1] = p
  BY <1>1, <1>2
<1>4. AllNative(Widgets, m) /\ \A k \in Keys : Spares(Widgets, k)
  BY <1>1, <1>3, KeySets DEF AllNative, Native, Spares
<1> QED BY <1>3, <1>4 DEF p

(* After an attach or a drain. *)
LEMMA RefillFacts ==
    ASSUME Typed, NEW s, s = Splash \o Replay \o Widgets
    PROVE  /\ s \in Seq(Picture) /\ Len(s) <= Capacity /\ Len(s) > 0
           /\ s[Len(s)] = Local(WidgetKey, WidgetImage(widgetWant))
           /\ AllNative(s, framesModel)
           /\ ~held => \A k \in DOMAIN frames : Places(s, k, frames[k])
<1>1. /\ Splash \in Seq(Picture) /\ Len(Splash) = Cardinality(SplashKeys)
      /\ AllNative(Splash, framesModel)
  BY SplashFacts
<1>2. /\ Replay \in Seq(Picture) /\ Len(Replay) <= Cardinality(Keys)
      /\ AllNative(Replay, framesModel)
      /\ ~held => \A k \in DOMAIN frames : Places(Replay, k, frames[k])
  <2>1. CASE held
    <3>1. Replay = << >>
      BY <2>1 DEF Replay
    <3>2. Cardinality(Keys) \in Nat
      BY KeySets, FS_CardinalityType
    <3> QED BY <2>1, <3>1, <3>2 DEF AllNative
  <2>2. CASE ~held
    <3>1. Replay = Frames
      BY <2>2 DEF Replay
    <3> QED BY <2>2, <3>1, FramesFacts
  <2> QED BY <2>1, <2>2 DEF Typed
<1>3. /\ Widgets \in Seq(Picture) /\ Len(Widgets) = 1
      /\ Widgets[1] = Local(WidgetKey, WidgetImage(widgetWant))
      /\ AllNative(Widgets, framesModel)
      /\ \A k \in Keys : Spares(Widgets, k)
  BY WidgetsFacts
<1> DEFINE h == Splash \o Replay
<1>4. h \in Seq(Picture) /\ Len(h) = Len(Splash) + Len(Replay) /\ AllNative(h, framesModel)
  BY <1>1, <1>2, ConcatPictures, NativeBoth
<1>5. ~held => \A k \in DOMAIN frames : Places(h, k, frames[k])
  BY <1>1, <1>2, PlacesLast
<1>6. s = h \o Widgets
  OBVIOUS
<1> HIDE DEF h
<1>7. s \in Seq(Picture) /\ Len(s) = Len(h) + 1 /\ AllNative(s, framesModel)
  <2>1. h \o Widgets \in Seq(Picture) /\ Len(h \o Widgets) = Len(h) + Len(Widgets)
    BY <1>3, <1>4, ConcatPictures
  <2>2. AllNative(h \o Widgets, framesModel)
    BY <1>3, <1>4, NativeBoth
  <2> QED BY <2>1, <2>2, <1>3, <1>6
<1>8. s[Len(s)] = Local(WidgetKey, WidgetImage(widgetWant))
  <2>1. 1 \in 1..Len(Widgets)
    BY <1>3
  <2>2. (h \o Widgets)[Len(h) + 1] = Widgets[1]
    BY <2>1, <1>3, <1>4, ConcatPictures
  <2> QED BY <2>2, <1>3, <1>6, <1>7
<1>9. ~held => \A k \in DOMAIN frames : Places(s, k, frames[k])
  <2>1. DOMAIN frames \subseteq Keys
    BY DEF Typed
  <2> QED BY <2>1, <1>3, <1>4, <1>5, <1>6, PlacesFirst
<1>10. Len(s) <= Capacity /\ Len(s) > 0
  <2>1. /\ Cardinality(SplashKeys) \in Nat /\ Cardinality(Keys) \in Nat
        /\ Capacity \in Nat /\ Capacity >= Cardinality(SplashKeys) + 2 * Cardinality(Keys) + 1
    BY KeySets, FS_CardinalityType, ImagesAssumption
  <2>2. Len(Replay) \in Nat
    BY <1>2
  <2> QED BY ONLY <2>1, <2>2, <1>1, <1>2, <1>4, <1>7
<1> QED BY <1>7, <1>8, <1>9, <1>10

(* After an attach of another model. *)
LEMMA BareFacts ==
    ASSUME Typed, NEW m, NEW s, s = Splash \o Widgets
    PROVE  /\ s \in Seq(Picture) /\ Len(s) <= Capacity /\ Len(s) > 0
           /\ s[Len(s)] = Local(WidgetKey, WidgetImage(widgetWant))
           /\ AllNative(s, m)
<1>1. /\ Splash \in Seq(Picture) /\ Len(Splash) = Cardinality(SplashKeys) /\ AllNative(Splash, m)
  BY SplashFacts
<1>2. /\ Widgets \in Seq(Picture) /\ Len(Widgets) = 1
      /\ Widgets[1] = Local(WidgetKey, WidgetImage(widgetWant)) /\ AllNative(Widgets, m)
  BY WidgetsFacts
<1>3. s \in Seq(Picture) /\ Len(s) = Len(Splash) + 1 /\ AllNative(s, m)
  <2>1. Splash \o Widgets \in Seq(Picture)
        /\ Len(Splash \o Widgets) = Len(Splash) + Len(Widgets)
    BY <1>1, <1>2, ConcatPictures
  <2>2. AllNative(Splash \o Widgets, m)
    BY <1>1, <1>2, NativeBoth
  <2> QED BY <2>1, <2>2, <1>2
<1>4. s[Len(s)] = Local(WidgetKey, WidgetImage(widgetWant))
  <2>1. 1 \in 1..Len(Widgets)
    BY <1>2
  <2>2. (Splash \o Widgets)[Len(Splash) + 1] = Widgets[1]
    BY <2>1, <1>1, <1>2, ConcatPictures
  <2> QED BY <2>2, <1>2, <1>3
<1>5. Len(s) <= Capacity /\ Len(s) > 0
  <2>1. /\ Cardinality(SplashKeys) \in Nat /\ Cardinality(Keys) \in Nat
        /\ Capacity \in Nat /\ Capacity >= Cardinality(SplashKeys) + 2 * Cardinality(Keys) + 1
    BY KeySets, FS_CardinalityType, ImagesAssumption
  <2> QED BY ONLY <2>1, <1>1, <1>3
<1> QED BY <1>3, <1>4, <1>5

(* At the end of a wizard session. *)
LEMMA ReleaseFacts ==
    ASSUME Typed, NEW b \in BOOLEAN
    PROVE  /\ Release(b) \in Seq(Picture) /\ AllNative(Release(b), framesModel)
           /\ Spares(Release(b), WidgetKey)
           /\ b => \A k \in DOMAIN frames : Places(Release(b), k, frames[k])
<1> DEFINE O == verifyKeys \ DOMAIN frames
           o == SetToSeq(O)
           n == Cardinality(O)
           c == [i \in DOMAIN o |-> ClearKey(o[i])]
           s == IF frames = << >> THEN Splash ELSE << >>
           f == IF b THEN Frames ELSE << >>
<1>1. O \subseteq Keys
  BY DEF Typed
<1>2. IsFiniteSet(O)
  BY <1>1, KeySets, FS_Subset
<1>3. o \in [1..n -> O] /\ n \in Nat /\ DOMAIN o = 1..n
  <2> HIDE DEF O
  <2> QED BY <1>2, SetToSeqLists, FS_CardinalityType
<1>4. c = [i \in 1..n |-> ClearKey(o[i])]
  BY <1>3
<1>5. \A k \in O : ClearKey(k) \in Picture
  BY <1>1, KeySets, FixedImages DEF ClearKey, Picture, Blank
<1>6. Release(b) = c \o s \o f
  BY DEF Release
<1>7. \A k \in O : k \in Keys /\ k \notin DOMAIN frames
  BY <1>1
<1> HIDE DEF O, o, n, c, s, f
<1>8. \A i \in 1..n : ClearKey(o[i]) \in Picture /\ o[i] \in O
  BY <1>3, <1>5
<1>9. c \in Seq(Picture) /\ Len(c) = n
  BY <1>3, <1>4, <1>8
<1>10. \A i \in 1..n : c[i].key = o[i] /\ c[i].kind = "control"
  BY <1>3, <1>4 DEF ClearKey
<1>11. AllNative(c, framesModel) /\ Spares(c, WidgetKey)
  BY <1>7, <1>8, <1>9, <1>10, KeySets DEF AllNative, Native, Spares
<1>12. s \in Seq(Picture) /\ AllNative(s, framesModel) /\ Spares(s, WidgetKey)
  <2>1. Splash \in Seq(Picture) /\ AllNative(Splash, framesModel) /\ Spares(Splash, WidgetKey)
    BY SplashFacts
  <2>2. << >> \in Seq(Picture) /\ AllNative(<< >>, framesModel) /\ Spares(<< >>, WidgetKey)
    BY DEF AllNative, Spares
  <2> QED BY <2>1, <2>2 DEF s
<1>13. /\ f \in Seq(Picture) /\ AllNative(f, framesModel) /\ Spares(f, WidgetKey)
       /\ b => \A k \in DOMAIN frames : Places(f, k, frames[k])
  BY FramesFacts DEF f, AllNative, Spares
<1>14. c \o s \in Seq(Picture) /\ AllNative(c \o s, framesModel) /\ Spares(c \o s, WidgetKey)
  BY <1>9, <1>11, <1>12, ConcatPictures, NativeBoth, SparesBoth
<1>15. c \o s \o f \in Seq(Picture) /\ AllNative(c \o s \o f, framesModel)
       /\ Spares(c \o s \o f, WidgetKey)
  BY <1>13, <1>14, ConcatPictures, NativeBoth, SparesBoth
<1>16. b => \A k \in DOMAIN frames : Places(c \o s \o f, k, frames[k])
  BY <1>13, <1>14, PlacesLast
<1> QED BY <1>6, <1>15, <1>16

-----------------------------------------------------------------------------
(* Every step keeps the invariant. *)

LEMMA DriverTaken ==
    ASSUME NEW d \in DriverState, DriverIs(d)
    PROVE  /\ Driver' = d /\ pipe' = d.pipe /\ coraSuspended' = d.cora /\ localSuspended' = d.local
           /\ client' = "up" => client = "up"
           /\ client \in {"none", "up", "dropping"} => client' \in {"none", "up", "dropping"}
BY DEF DriverIs, Driver, DriverState

LEMMA DriverNow ==
    /\ Driver.pipe = pipe /\ Driver.cora = coraSuspended /\ Driver.local = localSuspended
BY DEF Driver

LEMMA InitHolds == Init => PanelInv
<1> SUFFICES ASSUME Init PROVE PanelInv
  OBVIOUS
<1>1. Typed
  <2>1. DOMAIN frames = {} /\ DOMAIN panel = AllKeys /\ want \in [Keys -> Int] /\ widgetWant \in Int
    BY DEF Init
  <2> QED BY <2>1 DEF Init, Typed
<1>2. Sound(Driver, model)
  <2>1. Driver = [pipe |-> << >>, cora |-> FALSE, local |-> FALSE]
    BY DEF Init, Driver
  <2>2. Capacity \in Nat /\ ControlReserve \in Nat
    BY ImagesAssumption
  <2> QED BY <2>1, <2>2 DEF Sound, DriverState, Size
<1> QED BY <1>1, <1>2 DEF Init, PanelInv, Attached, FramesAreCurrent, FramesArrive, WidgetArrives

(* A fresh or drained driver takes a repaint burst whole, up to refused app frames. *)
LEMMA RefillStep ==
    ASSUME PanelInv, NEW m, NEW d \in DriverState, d.pipe = << >>, ~d.local,
           NEW s \in Seq(Picture), Len(s) <= Capacity, Len(s) > 0,
           s[Len(s)] = Local(WidgetKey, WidgetImage(widgetWant)), AllNative(s, m),
           NEW e, e = RenderAll(d, s)
    PROVE  /\ e \in DriverState /\ SoFar(d, s, e, Len(s)) /\ Sound(e, m)
           /\ ~e.local /\ e.cora = d.cora
           /\ Places(e.pipe, WidgetKey, WidgetImage(widgetWant))
<1>1. e \in DriverState /\ Rendered(d, s, e) /\ SoFar(d, s, e, Len(s))
  BY BurstIsRendered DEF Rendered
<1>2. Size(d) = 0
  BY DEF Size
<1>3. ~e.local /\ e.cora = d.cora
  <2>1. Fits(d, e, Len(s))
    BY <1>1 DEF SoFar
  <2>2. Size(d) + Len(s) <= Capacity
    BY <1>2
  <2> QED BY <2>1, <2>2 DEF Fits
<1>4. Sound(d, m)
  <2>1. Capacity \in Nat /\ ControlReserve \in Nat
    BY ImagesAssumption
  <2>2. Size(d) <= Capacity + ControlReserve
    BY <1>2, <2>1
  <2> QED BY <1>2, <2>2 DEF Sound
<1>5. Sound(e, m)
  BY <1>1, <1>4, BurstSound DEF AllNative
<1>6. Places(e.pipe, WidgetKey, WidgetImage(widgetWant))
  <2>1. /\ s[Len(s)].kind = "local" /\ s[Len(s)].key = WidgetKey
        /\ s[Len(s)].img = WidgetImage(widgetWant)
    BY DEF Local
  <2> QED BY <2>1, <1>1, <1>3, BurstEnds
<1> QED BY <1>1, <1>3, <1>5, <1>6

LEMMA PlugStep ==
    ASSUME PanelInv, NEW m \in Models, Plug(m)
    PROVE  PanelInv'
<1> DEFINE s == IF framesModel = m THEN Splash \o Replay \o Widgets ELSE Splash \o Widgets
           e == RenderAll(FreshDriver, s)
<1>0. Typed /\ Attached /\ FramesAreCurrent /\ m # NoModel
  BY ImagesAssumption DEF PanelInv
<1>1. /\ s \in Seq(Picture) /\ Len(s) <= Capacity /\ Len(s) > 0
      /\ s[Len(s)] = Local(WidgetKey, WidgetImage(widgetWant)) /\ AllNative(s, m)
      /\ framesModel = m /\ ~held => \A k \in DOMAIN frames : Places(s, k, frames[k])
  <2>1. CASE framesModel = m
    BY <2>1, <1>0, RefillFacts
  <2>2. CASE framesModel # m
    BY <2>2, <1>0, BareFacts
  <2> QED BY <2>1, <2>2
<1>2. /\ FreshDriver \in DriverState /\ FreshDriver.pipe = << >> /\ ~FreshDriver.local
      /\ ~FreshDriver.cora
  BY DEF FreshDriver, DriverState
<1>3. /\ model' = m /\ framesModel' = m /\ widgetCache' = widgetWant
      /\ panel' = [k \in AllKeys |-> Blank] /\ DriverIs(e)
      /\ UNCHANGED <<verifyKeys, held, widgetWant, want>>
      /\ framesModel = m => frames' = frames /\ unsent' = unsent
      /\ framesModel # m => frames' = << >> /\ unsent' = IF client = "none" THEN {} ELSE Keys
  BY DEF Plug
<1> HIDE DEF s
<1>4. /\ e \in DriverState /\ SoFar(FreshDriver, s, e, Len(s)) /\ Sound(e, m)
      /\ ~e.local /\ ~e.cora /\ Places(e.pipe, WidgetKey, WidgetImage(widgetWant))
  BY <1>1, <1>2, RefillStep
<1> HIDE DEF e
<1>5. /\ Driver' = e /\ pipe' = e.pipe
      /\ client' = "up" => client = "up"
      /\ client' \in {"none", "up", "dropping"}
  BY <1>0, <1>3, <1>4, DriverTaken DEF Typed
<1>6. Typed'
  <2>1. DOMAIN frames' \subseteq Keys /\ \A k \in DOMAIN frames' : frames'[k] \in Image
                                                             /\ frames'[k].on = m
    BY <1>0, <1>3 DEF Typed
  <2> QED BY <2>1, <1>0, <1>3, <1>5 DEF Typed
<1>7. Attached'
  BY <1>0, <1>3 DEF Attached
<1>8. Sound(Driver, model)'
  BY <1>3, <1>4, <1>5
<1>9. FramesAreCurrent'
  BY <1>0, <1>3, <1>5 DEF FramesAreCurrent
<1>10. FramesArrive'
  <2> SUFFICES ASSUME ~held', client' = "up", NEW k \in Keys \ unsent'
               PROVE  Shows(pipe', panel', k, frames'[k])
    BY DEF FramesArrive
  <2>1. framesModel = m /\ frames' = frames /\ k \in DOMAIN frames /\ ~held
    BY <1>0, <1>3, <1>5 DEF FramesAreCurrent
  <2>2. Places(s, k, frames[k])
    BY <2>1, <1>1
  <2>3. Places(e.pipe, k, frames[k])
    BY <2>2, <1>1, <1>2, <1>4, BurstPlaces
  <2> QED BY <2>1, <2>3, <1>5 DEF Shows
<1>11. WidgetArrives'
  BY <1>3, <1>4, <1>5 DEF WidgetArrives, Shows
<1> QED BY <1>6, <1>7, <1>8, <1>9, <1>10, <1>11 DEF PanelInv

LEMMA UnplugStep ==
    ASSUME PanelInv, Unplug
    PROVE  PanelInv'
<1>1. Typed'
  BY DEF PanelInv, Typed, Unplug, widgetVars, appVars
<1>2. Sound(Driver, model)'
  <2>1. Driver' = [pipe |-> << >>, cora |-> FALSE, local |-> FALSE]
    BY DEF Unplug, Driver
  <2>2. Capacity \in Nat /\ ControlReserve \in Nat
    BY ImagesAssumption
  <2> QED BY <2>1, <2>2 DEF Sound, DriverState, Size
<1> QED BY <1>1, <1>2
        DEF PanelInv, Unplug, Attached, FramesAreCurrent, FramesArrive, WidgetArrives, appVars

LEMMA PaintsStep ==
    ASSUME PanelInv, Paints
    PROVE  PanelInv'
<1>0. /\ Typed /\ Attached /\ FramesAreCurrent /\ FramesArrive /\ WidgetArrives
      /\ Sound(Driver, model)
  BY DEF PanelInv
<1>1. /\ model # NoModel /\ pipe # << >> /\ framesModel = model
      /\ pipe \in Seq(Picture) /\ coraSuspended \in BOOLEAN /\ localSuspended \in BOOLEAN
  BY <1>0, DriverNow DEF Paints, Attached, Sound, DriverState
<1>2. panel' = [panel EXCEPT ![Head(pipe).key] = Head(pipe).img] /\ DOMAIN panel = AllKeys
  BY <1>0 DEF Paints, Typed
<1>3. UNCHANGED <<model, frames, framesModel, verifyKeys, held, widgetWant, want, unsent>>
  BY DEF Paints, frameVars, appVars
<1>4. CASE Len(pipe) = 1 /\ localSuspended
  <2> DEFINE d == [Driver EXCEPT !.pipe = << >>, !.local = FALSE]
             s == Splash \o Replay \o Widgets
             e == RenderAll(d, s)
  <2>1. DriverIs(e) /\ widgetCache' = widgetWant
    BY <1>4 DEF Paints
  <2>2. d \in DriverState /\ d.pipe = << >> /\ ~d.local /\ d.cora = coraSuspended
    <3>1. Driver \in [pipe : Seq(Picture), cora : BOOLEAN, local : BOOLEAN]
      BY <1>0 DEF Sound, DriverState
    <3>2. << >> \in Seq(Picture) /\ Driver.cora = coraSuspended
      BY DriverNow
    <3> HIDE DEF Driver
    <3>3. d \in [pipe : Seq(Picture), cora : BOOLEAN, local : BOOLEAN]
      BY <3>1, <3>2
    <3>4. d.pipe = << >> /\ d.local = FALSE /\ d.cora = Driver.cora
      BY <3>1, <3>2
    <3> QED BY <3>2, <3>3, <3>4 DEF DriverState
  <2>3. /\ s \in Seq(Picture) /\ Len(s) <= Capacity /\ Len(s) > 0
        /\ s[Len(s)] = Local(WidgetKey, WidgetImage(widgetWant)) /\ AllNative(s, model)
        /\ ~held => \A k \in DOMAIN frames : Places(s, k, frames[k])
    BY <1>0, <1>1, RefillFacts
  <2> HIDE DEF d, s
  <2>4. /\ e \in DriverState /\ SoFar(d, s, e, Len(s)) /\ Sound(e, model)
        /\ ~e.local /\ Places(e.pipe, WidgetKey, WidgetImage(widgetWant))
    BY <2>2, <2>3, RefillStep
  <2> HIDE DEF e
  <2>5. /\ Driver' = e /\ pipe' = e.pipe /\ coraSuspended' = e.cora
        /\ client' = "up" => client = "up"
        /\ client' \in {"none", "up", "dropping"}
    BY <1>0, <2>1, <2>4, DriverTaken DEF Typed
  <2>6. Typed'
    BY <1>0, <1>2, <1>3, <2>5 DEF Typed
  <2>7. Attached' /\ FramesAreCurrent'
    BY <1>0, <1>3, <2>5 DEF Attached, FramesAreCurrent
  <2>8. Sound(Driver, model)'
    BY <1>3, <2>4, <2>5
  <2>9. FramesArrive'
    <3> SUFFICES ASSUME ~held', client' = "up", ~coraSuspended', NEW k \in Keys \ unsent'
                 PROVE  Shows(pipe', panel', k, frames'[k])
      BY DEF FramesArrive
    <3>1. k \in DOMAIN frames /\ ~held /\ ~e.cora
      BY <1>0, <1>3, <2>5 DEF FramesAreCurrent
    <3>2. Places(e.pipe, k, frames[k])
      BY <3>1, <2>2, <2>3, <2>4, BurstPlaces
    <3> QED BY <3>2, <1>3, <2>5 DEF Shows
  <2>10. WidgetArrives'
    BY <2>1, <2>4, <2>5 DEF WidgetArrives, Shows
  <2> QED BY <2>6, <2>7, <2>8, <2>9, <2>10 DEF PanelInv
<1>5. CASE ~ (Len(pipe) = 1 /\ localSuspended)
  <2> DEFINE e == [Driver EXCEPT !.pipe = Tail(@)]
  <2>1. DriverIs(e) /\ widgetCache' = widgetCache
    BY <1>5 DEF Paints
  <2>2. Tail(pipe) \in Seq(Picture)
    BY <1>1
  <2>3. /\ e \in DriverState /\ e.pipe = Tail(pipe) /\ e.cora = coraSuspended
        /\ e.local = localSuspended
    BY <1>1, <2>2 DEF Driver, DriverState
  <2> HIDE DEF e
  <2>4. /\ Driver' = e /\ pipe' = Tail(pipe) /\ coraSuspended' = coraSuspended
        /\ localSuspended' = localSuspended
        /\ client' = "up" => client = "up"
        /\ client' \in {"none", "up", "dropping"}
    BY <1>0, <2>1, <2>3, DriverTaken DEF Typed
  <2>5. Typed'
    BY <1>0, <1>2, <1>3, <2>4 DEF Typed
  <2>6. Attached' /\ FramesAreCurrent'
    BY <1>0, <1>3, <2>4 DEF Attached, FramesAreCurrent
  <2>7. Sound(Driver, model)'
    <3>1. /\ Len(Tail(pipe)) = Len(pipe) - 1 /\ Len(pipe) \in Nat /\ Len(pipe) >= 1
          /\ \A j \in 1..Len(Tail(pipe)) : Tail(pipe)[j] = pipe[j + 1]
      BY <1>1
    <3>2. Capacity \in Nat /\ ControlReserve \in Nat
      BY ImagesAssumption
    <3>3. Len(pipe) <= Capacity + ControlReserve /\ \A j \in 1..Len(pipe) : Native(pipe[j], model)
      BY <1>0, DriverNow DEF Sound, Size
    <3>4. Len(Tail(pipe)) <= Capacity + ControlReserve
      BY ONLY <3>1, <3>2, <3>3
    <3>5. \A j \in 1..Len(Tail(pipe)) : j + 1 \in 1..Len(pipe)
      BY ONLY <3>1
    <3>6. \A j \in 1..Len(Tail(pipe)) : Native(Tail(pipe)[j], model)
      BY <3>1, <3>3, <3>5
    <3> QED BY <3>4, <3>6, <2>3, <2>4, <1>3 DEF Sound, Size
  <2>8. FramesArrive'
    <3> SUFFICES ASSUME ~held', client' = "up", ~coraSuspended', ~localSuspended',
                        NEW k \in Keys \ unsent'
                 PROVE  Shows(pipe', panel', k, frames'[k])
      BY DEF FramesArrive
    <3>1. Shows(pipe, panel, k, frames[k]) /\ k \in AllKeys
      BY <1>0, <1>1, <1>3, <2>4, KeySets DEF FramesArrive
    <3>2. Shows(Tail(pipe), panel', k, frames[k])
      BY <3>1, <1>1, <1>2, PaintShows
    <3> QED BY <3>2, <1>3, <2>4
  <2>9. WidgetArrives'
    <3> SUFFICES ASSUME ~localSuspended'
                 PROVE  Shows(pipe', panel', WidgetKey, WidgetImage(widgetCache'))
      BY DEF WidgetArrives
    <3>1. Shows(pipe, panel, WidgetKey, WidgetImage(widgetCache)) /\ WidgetKey \in AllKeys
      BY <1>0, <1>1, <2>4, KeySets DEF WidgetArrives
    <3>2. Shows(Tail(pipe), panel', WidgetKey, WidgetImage(widgetCache))
      BY <3>1, <1>1, <1>2, PaintShows
    <3> QED BY <3>2, <2>1, <2>4
  <2> QED BY <2>5, <2>6, <2>7, <2>8, <2>9 DEF PanelInv
<1> QED BY <1>4, <1>5

(* What a burst onto the running driver does to what the invariant says of the driver. *)
LEMMA BurstStep ==
    ASSUME PanelInv, NEW s \in Seq(Picture), AllNative(s, model),
           NEW e, e \in DriverState, SoFar(Driver, s, e, Len(s)), DriverIs(e), model' = model
    PROVE  /\ Sound(Driver, model)' /\ pipe' = e.pipe /\ Driver \in DriverState
           /\ coraSuspended' = e.cora /\ localSuspended' = e.local
           /\ ~coraSuspended' => ~coraSuspended
           /\ ~localSuspended' => ~localSuspended
           /\ client' = "up" => client = "up"
           /\ client' \in {"none", "up", "dropping"}
<1>1. /\ Driver' = e /\ pipe' = e.pipe /\ coraSuspended' = e.cora /\ localSuspended' = e.local
      /\ client' = "up" => client = "up"
      /\ client' \in {"none", "up", "dropping"}
  BY DriverTaken DEF PanelInv, Typed
<1>2. Sound(Driver, model)
  BY DEF PanelInv
<1>3. Sound(e, model)
  BY <1>2, BurstSound DEF AllNative
<1>4. (coraSuspended => e.cora) /\ (localSuspended => e.local)
  BY DriverNow DEF SoFar, Keeps
<1>5. Driver \in DriverState
  BY <1>2 DEF Sound
<1>6. Sound(Driver, model)'
  BY <1>1, <1>3
<1> QED BY <1>1, <1>4, <1>5, <1>6

LEMMA AppDrawsStep ==
    ASSUME PanelInv, NEW k \in Keys, AppDraws(k)
    PROVE  PanelInv'
<1>0. /\ Typed /\ Attached /\ FramesAreCurrent /\ FramesArrive /\ WidgetArrives
      /\ Sound(Driver, model)
  BY DEF PanelInv
<1>1. /\ want' = [want EXCEPT ![k] = @ + 1]
      /\ unsent' = IF client = "none" THEN {} ELSE unsent \cup {k}
      /\ UNCHANGED <<model, pipe, coraSuspended, localSuspended, panel, frames, framesModel,
                     verifyKeys, held, widgetWant, widgetCache, client>>
  BY DEF AppDraws, driverVars, frameVars, widgetVars
<1>2. want' \in [Keys -> Int] /\ \A j \in Keys : j # k => want'[j] = want[j]
  BY <1>0, <1>1 DEF Typed
<1>3. Typed'
  BY <1>0, <1>1, <1>2 DEF Typed
<1>4. Sound(Driver, model)'
  BY <1>0, <1>1 DEF Driver
<1>5. client = "up" => Keys \ unsent' \subseteq Keys \ unsent /\ k \in unsent'
  BY <1>1
<1>6. FramesAreCurrent'
  BY <1>0, <1>1, <1>2, <1>5 DEF FramesAreCurrent
<1>7. FramesArrive'
  BY <1>0, <1>1, <1>5 DEF FramesArrive
<1> QED BY <1>0, <1>1, <1>3, <1>4, <1>6, <1>7 DEF PanelInv, Attached, WidgetArrives

LEMMA AppSendsStep ==
    ASSUME PanelInv, ~SendsUnplugged, NEW k \in Keys, AppSends(k)
    PROVE  PanelInv'
<1>0. /\ Typed /\ Attached /\ FramesAreCurrent /\ FramesArrive /\ WidgetArrives
      /\ Sound(Driver, model)
  BY DEF PanelInv
<1> DEFINE img == AppImage(want[k], model)
           p == Cora(k, img)
           e == Render(Driver, p)
<1>1. /\ model # NoModel /\ framesModel = model /\ model \in Models
      /\ unsent' = unsent \ {k}
      /\ frames' = [j \in DOMAIN frames \cup {k} |-> IF j = k THEN img ELSE frames[j]]
      /\ UNCHANGED <<model, panel, framesModel, verifyKeys, held, widgetWant, widgetCache, want>>
      /\ ~held => DriverIs(e)
      /\ held => UNCHANGED <<pipe, coraSuspended, localSuspended, client>>
  BY <1>0 DEF AppSends, Attached, Typed, driverVars, widgetVars
<1>2. /\ img \in Image /\ img.on = model /\ p \in Picture
      /\ p.key = k /\ p.img = img
  BY <1>0, <1>1, KeySets, FixedImages DEF Typed, Cora, Picture, AppImage
<1>3. /\ DOMAIN frames' = DOMAIN frames \cup {k} /\ frames'[k] = img
      /\ \A j \in DOMAIN frames : j # k => frames'[j] = frames[j]
  BY <1>1
<1> HIDE DEF p, e, img
<1>4. /\ <<p>> \in Seq(Picture) /\ Len(<<p>>) = 1 /\ <<p>>[1] = p
      /\ e \in DriverState /\ SoFar(Driver, <<p>>, e, 1)
  BY <1>0, <1>2, PictureIsRendered DEF e, Sound
<1>5. AllNative(<<p>>, model)
  BY <1>2, <1>4 DEF AllNative, Native
<1>6. /\ Sound(Driver, model)' /\ Driver \in DriverState
      /\ ~held => pipe' = e.pipe /\ coraSuspended' = e.cora /\ localSuspended' = e.local
      /\ ~coraSuspended' => ~coraSuspended
      /\ ~localSuspended' => ~localSuspended
      /\ client' = "up" => client = "up"
      /\ client' \in {"none", "up", "dropping"}
  <2>1. CASE held
    <3>1. UNCHANGED <<pipe, coraSuspended, localSuspended, client, model>>
      BY <2>1, <1>1
    <3>2. Driver' = Driver
      BY <3>1 DEF Driver
    <3> QED BY <2>1, <3>1, <3>2, <1>0 DEF Typed, Sound
  <2>2. CASE ~held
    BY <2>2, <1>1, <1>4, <1>5, BurstStep
  <2> QED BY <2>1, <2>2
<1>7. Typed'
  <2>1. DOMAIN frames' \subseteq Keys /\ \A j \in DOMAIN frames' : frames'[j] \in Image
                                                             /\ frames'[j].on = model
    BY <1>0, <1>1, <1>2, <1>3 DEF Typed
  <2> QED BY <2>1, <1>0, <1>1, <1>6 DEF Typed
<1>8. Attached'
  BY <1>0, <1>1 DEF Attached
<1>9. FramesAreCurrent'
  <2> SUFFICES ASSUME client' = "up", NEW j \in Keys \ unsent'
               PROVE  j \in DOMAIN frames' /\ frames'[j] = AppImage(want'[j], framesModel')
    BY DEF FramesAreCurrent
  <2>1. CASE j = k
    BY <2>1, <1>1, <1>3 DEF img
  <2>2. CASE j # k
    <3>1. j \in Keys \ unsent
      BY <2>2, <1>1
    <3> QED BY <3>1, <2>2, <1>0, <1>1, <1>3, <1>6 DEF FramesAreCurrent
  <2> QED BY <2>1, <2>2
<1>10. FramesArrive'
  <2> SUFFICES ASSUME ~held', client' = "up", ~coraSuspended', ~localSuspended',
                      NEW j \in Keys \ unsent'
               PROVE  Shows(pipe', panel', j, frames'[j])
    BY DEF FramesArrive
  <2>0. ~held /\ client = "up" /\ ~coraSuspended /\ ~localSuspended /\ ~e.cora /\ ~e.local
        /\ pipe' = e.pipe
    BY <1>1, <1>6
  <2>1. CASE j = k
    <3>1. Places(<<p>>, k, img)
      <4>1. \A i \in 1..Len(<<p>>) : i = 1
        BY <1>4
      <4> QED BY <4>1, <1>2, <1>4 DEF Places
    <3>2. Places(e.pipe, k, img)
      BY <3>1, <2>0, <1>4, <1>6, BurstPlaces
    <3> QED BY <3>2, <2>0, <2>1, <1>3 DEF Shows
  <2>2. CASE j # k
    <3>1. Shows(pipe, panel, j, frames[j]) /\ j \in DOMAIN frames
      BY <2>0, <2>2, <1>0, <1>1 DEF FramesArrive, FramesAreCurrent
    <3>2. Spares(<<p>>, j)
      BY <2>2, <1>2, <1>4 DEF Spares
    <3>3. Shows(e.pipe, panel, j, frames[j])
      BY <3>1, <3>2, <1>4, <1>6, BurstSpares, DriverNow
    <3> QED BY <3>1, <3>3, <2>0, <2>2, <1>1, <1>3
  <2> QED BY <2>1, <2>2
<1>11. WidgetArrives'
  <2> SUFFICES ASSUME ~localSuspended'
               PROVE  Shows(pipe', panel', WidgetKey, WidgetImage(widgetCache'))
    BY DEF WidgetArrives
  <2>1. Shows(pipe, panel, WidgetKey, WidgetImage(widgetCache))
    BY <1>0, <1>1, <1>6 DEF WidgetArrives
  <2>2. Spares(<<p>>, WidgetKey)
    BY <1>2, <1>4, KeySets DEF Spares
  <2>3. Shows(e.pipe, panel, WidgetKey, WidgetImage(widgetCache))
    BY <2>1, <2>2, <1>4, <1>6, BurstSpares, DriverNow
  <2> QED BY <2>1, <2>3, <1>1, <1>6
<1> QED BY <1>6, <1>7, <1>8, <1>9, <1>10, <1>11 DEF PanelInv

LEMMA ClientStep ==
    ASSUME PanelInv, ClientConnects \/ ClientReconnects \/ ClientGone
    PROVE  PanelInv'
<1>0. /\ Typed /\ Attached /\ FramesAreCurrent /\ FramesArrive /\ WidgetArrives
      /\ Sound(Driver, model)
  BY DEF PanelInv
<1>1. /\ UNCHANGED <<model, pipe, localSuspended, panel, frames, framesModel, verifyKeys, held,
                     widgetWant, widgetCache, want>>
      /\ \/ client' = "up" /\ unsent' = Keys /\ coraSuspended' = FALSE
         \/ client' = "none" /\ unsent' = {} /\ coraSuspended' = coraSuspended
  BY DEF ClientConnects, ClientReconnects, ClientGone, driverVars, frameVars, widgetVars
<1>2. Typed'
  BY <1>0, <1>1 DEF Typed
<1>3. Sound(Driver, model)'
  <2>1. Driver \in DriverState /\ Size(Driver) <= Capacity + ControlReserve
        /\ \A j \in 1..Size(Driver) : Native(Driver.pipe[j], model)
    BY <1>0 DEF Sound
  <2>2. coraSuspended' \in BOOLEAN /\ Driver'.pipe = Driver.pipe
        /\ Driver' = [pipe |-> pipe, cora |-> coraSuspended', local |-> localSuspended]
        /\ pipe \in Seq(Picture) /\ localSuspended \in BOOLEAN
    BY <2>1, <1>1, DriverNow DEF Driver, DriverState
  <2>3. Driver' \in DriverState
    BY <2>2 DEF DriverState
  <2> QED BY <2>1, <2>2, <2>3, <1>1 DEF Sound, Size
<1>4. FramesAreCurrent' /\ FramesArrive'
  BY <1>1 DEF FramesAreCurrent, FramesArrive
<1>5. Attached' /\ WidgetArrives'
  BY <1>0, <1>1 DEF Attached, WidgetArrives
<1> QED BY <1>2, <1>3, <1>4, <1>5 DEF PanelInv

LEMMA WidgetChangesStep ==
    ASSUME PanelInv, WidgetChanges
    PROVE  PanelInv'
<1>1. /\ widgetWant' = widgetWant + 1
      /\ UNCHANGED <<model, pipe, coraSuspended, localSuspended, panel, frames, framesModel,
                     verifyKeys, held, widgetCache, client, want, unsent>>
  BY DEF WidgetChanges, driverVars, frameVars, appVars
<1>2. Driver' = Driver
  BY <1>1 DEF Driver
<1> QED BY <1>1, <1>2
        DEF PanelInv, Typed, Attached, FramesAreCurrent, FramesArrive, WidgetArrives

LEMMA WidgetTickStep ==
    ASSUME PanelInv, WidgetTick
    PROVE  PanelInv'
<1>0. /\ Typed /\ Attached /\ FramesAreCurrent /\ FramesArrive /\ WidgetArrives
      /\ Sound(Driver, model)
  BY DEF PanelInv
<1> DEFINE e == RenderAll(Driver, Widgets)
<1>1. /\ widgetCache' = widgetWant /\ DriverIs(e)
      /\ UNCHANGED <<model, panel, frames, framesModel, verifyKeys, held, widgetWant, want, unsent>>
  BY DEF WidgetTick, frameVars, appVars
<1>2. /\ Widgets \in Seq(Picture) /\ Len(Widgets) = 1
      /\ Widgets[1] = Local(WidgetKey, WidgetImage(widgetWant))
      /\ AllNative(Widgets, model)
      /\ \A k \in Keys : Spares(Widgets, k)
  BY <1>0, WidgetsFacts
<1>3. e \in DriverState /\ Rendered(Driver, Widgets, e) /\ SoFar(Driver, Widgets, e, Len(Widgets))
  BY <1>0, <1>2, BurstIsRendered DEF Sound, Rendered
<1> HIDE DEF e
<1>4. /\ Sound(Driver, model)' /\ pipe' = e.pipe /\ Driver \in DriverState
      /\ coraSuspended' = e.cora /\ localSuspended' = e.local
      /\ ~coraSuspended' => ~coraSuspended
      /\ ~localSuspended' => ~localSuspended
      /\ client' = "up" => client = "up"
      /\ client' \in {"none", "up", "dropping"}
  BY <1>1, <1>2, <1>3, BurstStep
<1>5. Typed'
  BY <1>0, <1>1, <1>4 DEF Typed
<1>6. Attached' /\ FramesAreCurrent'
  BY <1>0, <1>1, <1>4 DEF Attached, FramesAreCurrent
<1>7. FramesArrive'
  <2> SUFFICES ASSUME model' # NoModel, ~held', client' = "up", ~coraSuspended', ~localSuspended',
                      NEW j \in Keys \ unsent'
               PROVE  Shows(pipe', panel', j, frames'[j])
    BY DEF FramesArrive
  <2>1. Shows(pipe, panel, j, frames[j]) /\ Spares(Widgets, j)
    BY <1>0, <1>1, <1>2, <1>4 DEF FramesArrive
  <2>2. Shows(e.pipe, panel, j, frames[j])
    BY <2>1, <1>2, <1>3, <1>4, BurstSpares, DriverNow
  <2> QED BY <2>2, <1>1, <1>4
<1>8. WidgetArrives'
  <2> SUFFICES ASSUME ~localSuspended'
               PROVE  Shows(pipe', panel', WidgetKey, WidgetImage(widgetCache'))
    BY DEF WidgetArrives
  <2>1. /\ Widgets[Len(Widgets)].kind = "local" /\ Widgets[Len(Widgets)].key = WidgetKey
        /\ Widgets[Len(Widgets)].img = WidgetImage(widgetWant) /\ Len(Widgets) > 0
    BY <1>2 DEF Local
  <2>2. Places(e.pipe, WidgetKey, WidgetImage(widgetWant))
    BY <2>1, <1>2, <1>3, <1>4, BurstEnds
  <2> QED BY <2>2, <1>1, <1>4 DEF Shows
<1> QED BY <1>4, <1>5, <1>6, <1>7, <1>8 DEF PanelInv

LEMMA VerifyStartStep ==
    ASSUME PanelInv, VerifyStart
    PROVE  PanelInv'
<1>1. /\ held' = TRUE /\ verifyKeys' = {} /\ model # NoModel
      /\ UNCHANGED <<model, pipe, coraSuspended, localSuspended, panel, frames, framesModel,
                     widgetWant, widgetCache, client, want, unsent>>
  BY DEF VerifyStart, driverVars, widgetVars, appVars
<1>2. Driver' = Driver
  BY <1>1 DEF Driver
<1> QED BY <1>1, <1>2
        DEF PanelInv, Typed, Attached, FramesAreCurrent, FramesArrive, WidgetArrives

LEMMA VerifyPaintStep ==
    ASSUME PanelInv, NEW k \in Keys, VerifyPaint(k)
    PROVE  PanelInv'
<1>0. /\ Typed /\ Attached /\ FramesAreCurrent /\ FramesArrive /\ WidgetArrives
      /\ Sound(Driver, model)
  BY DEF PanelInv
<1> DEFINE p == Cora(k, Pattern)
           e == Render(Driver, p)
<1>1. /\ held /\ verifyKeys' = verifyKeys \cup {k} /\ DriverIs(e)
      /\ UNCHANGED <<model, panel, frames, framesModel, held, widgetWant, widgetCache, want, unsent>>
  BY DEF VerifyPaint, widgetVars, appVars
<1>2. p \in Picture /\ p.key = k /\ p.img = Pattern
  BY KeySets, FixedImages DEF Cora, Picture, Pattern
<1> HIDE DEF p, e
<1>3. /\ <<p>> \in Seq(Picture) /\ Len(<<p>>) = 1 /\ <<p>>[1] = p
      /\ e \in DriverState /\ SoFar(Driver, <<p>>, e, 1)
  BY <1>0, <1>2, PictureIsRendered DEF e, Sound
<1>4. AllNative(<<p>>, model)
  BY <1>2, <1>3 DEF AllNative, Native
<1>5. /\ Sound(Driver, model)' /\ pipe' = e.pipe /\ Driver \in DriverState
      /\ ~localSuspended' => ~localSuspended
      /\ client' = "up" => client = "up"
      /\ client' \in {"none", "up", "dropping"}
  BY <1>1, <1>3, <1>4, BurstStep
<1>6. Typed'
  BY <1>0, <1>1, <1>5 DEF Typed
<1>7. Attached' /\ FramesAreCurrent' /\ FramesArrive'
  BY <1>0, <1>1, <1>5 DEF Attached, FramesAreCurrent, FramesArrive
<1>8. WidgetArrives'
  <2> SUFFICES ASSUME model' # NoModel, ~localSuspended'
               PROVE  Shows(pipe', panel', WidgetKey, WidgetImage(widgetCache'))
    BY DEF WidgetArrives
  <2>1. Shows(pipe, panel, WidgetKey, WidgetImage(widgetCache))
    BY <1>0, <1>1, <1>5 DEF WidgetArrives
  <2>2. Spares(<<p>>, WidgetKey)
    BY <1>2, <1>3, KeySets DEF Spares
  <2>3. Shows(e.pipe, panel, WidgetKey, WidgetImage(widgetCache))
    BY <2>1, <2>2, <1>3, <1>5, BurstSpares, DriverNow
  <2> QED BY <2>3, <1>1, <1>5
<1> QED BY <1>5, <1>6, <1>7, <1>8 DEF PanelInv

LEMMA VerifyEndStep ==
    ASSUME PanelInv, VerifyEnd
    PROVE  PanelInv'
<1>0. /\ Typed /\ Attached /\ FramesAreCurrent /\ FramesArrive /\ WidgetArrives
      /\ Sound(Driver, model)
  BY DEF PanelInv
<1> DEFINE s == Release(TRUE)
           e == RenderAll(Driver, s)
<1>1. /\ held /\ held' = FALSE /\ verifyKeys' = {} /\ DriverIs(e)
      /\ UNCHANGED <<model, panel, frames, framesModel, widgetWant, widgetCache, want, unsent>>
  BY DEF VerifyEnd, widgetVars, appVars
<1>2. /\ s \in Seq(Picture) /\ AllNative(s, model) /\ Spares(s, WidgetKey)
      /\ \A k \in DOMAIN frames : Places(s, k, frames[k])
  BY <1>0, <1>1, ReleaseFacts DEF Attached
<1> HIDE DEF s
<1>3. e \in DriverState /\ SoFar(Driver, s, e, Len(s))
  BY <1>0, <1>2, BurstIsRendered DEF Sound, Rendered
<1> HIDE DEF e
<1>4. /\ Sound(Driver, model)' /\ pipe' = e.pipe /\ Driver \in DriverState
      /\ coraSuspended' = e.cora /\ localSuspended' = e.local
      /\ ~localSuspended' => ~localSuspended
      /\ client' = "up" => client = "up"
      /\ client' \in {"none", "up", "dropping"}
  BY <1>1, <1>2, <1>3, BurstStep
<1>5. Typed'
  BY <1>0, <1>1, <1>4 DEF Typed
<1>6. Attached' /\ FramesAreCurrent'
  BY <1>0, <1>1, <1>4 DEF Attached, FramesAreCurrent
<1>7. FramesArrive'
  <2> SUFFICES ASSUME client' = "up", ~coraSuspended', ~localSuspended', NEW j \in Keys \ unsent'
               PROVE  Shows(pipe', panel', j, frames'[j])
    BY DEF FramesArrive
  <2>1. j \in DOMAIN frames
    BY <1>0, <1>1, <1>4 DEF FramesAreCurrent
  <2>2. Places(e.pipe, j, frames[j])
    BY <2>1, <1>2, <1>3, <1>4, BurstPlaces
  <2> QED BY <2>2, <1>1, <1>4 DEF Shows
<1>8. WidgetArrives'
  <2> SUFFICES ASSUME model' # NoModel, ~localSuspended'
               PROVE  Shows(pipe', panel', WidgetKey, WidgetImage(widgetCache'))
    BY DEF WidgetArrives
  <2>1. Shows(pipe, panel, WidgetKey, WidgetImage(widgetCache))
    BY <1>0, <1>1, <1>4 DEF WidgetArrives
  <2>2. Shows(e.pipe, panel, WidgetKey, WidgetImage(widgetCache))
    BY <2>1, <1>2, <1>3, <1>4, BurstSpares, DriverNow
  <2> QED BY <2>2, <1>1, <1>4
<1> QED BY <1>4, <1>5, <1>6, <1>7, <1>8 DEF PanelInv

LEMMA VerifySaveStep ==
    ASSUME PanelInv, VerifySave
    PROVE  PanelInv'
<1>0. /\ Typed /\ Attached /\ FramesAreCurrent /\ FramesArrive /\ WidgetArrives
      /\ Sound(Driver, model)
  BY DEF PanelInv
<1> DEFINE h == Release(FALSE) \o Frames
           s == h \o Widgets
           e == RenderAll(Driver, s)
<1>1. /\ held /\ held' = FALSE /\ verifyKeys' = {} /\ DriverIs(e) /\ widgetCache' = widgetWant
      /\ UNCHANGED <<model, panel, frames, framesModel, widgetWant, want, unsent>>
  BY DEF VerifySave, appVars
<1>2. Release(FALSE) \in Seq(Picture) /\ AllNative(Release(FALSE), model)
  BY <1>0, <1>1, ReleaseFacts DEF Attached
<1>3. /\ Frames \in Seq(Picture) /\ AllNative(Frames, model)
      /\ \A k \in DOMAIN frames : Places(Frames, k, frames[k])
  BY <1>0, <1>1, FramesFacts DEF Attached
<1>4. /\ h \in Seq(Picture) /\ AllNative(h, model)
      /\ \A k \in DOMAIN frames : Places(h, k, frames[k])
  BY <1>2, <1>3, ConcatPictures, NativeBoth, PlacesLast
<1>5. /\ Widgets \in Seq(Picture) /\ Len(Widgets) = 1
      /\ Widgets[1] = Local(WidgetKey, WidgetImage(widgetWant))
      /\ AllNative(Widgets, model)
      /\ \A k \in Keys : Spares(Widgets, k)
  BY <1>0, WidgetsFacts
<1> HIDE DEF h
<1>6. /\ s \in Seq(Picture) /\ AllNative(s, model)
      /\ Len(s) = Len(h) + Len(Widgets) /\ s[Len(h) + 1] = Widgets[1]
  <2>1. 1 \in 1..Len(Widgets)
    BY <1>5
  <2> QED BY <2>1, <1>4, <1>5, ConcatPictures, NativeBoth
<1>7. \A k \in DOMAIN frames : Places(s, k, frames[k])
  <2>1. DOMAIN frames \subseteq Keys
    BY <1>0 DEF Typed
  <2> QED BY <2>1, <1>4, <1>5, PlacesFirst
<1> HIDE DEF s
<1>8. Len(s) > 0 /\ s[Len(s)] = Local(WidgetKey, WidgetImage(widgetWant))
  <2>1. Len(h) \in Nat
    BY <1>4
  <2> QED BY <2>1, <1>5, <1>6
<1>9. e \in DriverState /\ Rendered(Driver, s, e) /\ SoFar(Driver, s, e, Len(s))
  BY <1>0, <1>6, BurstIsRendered DEF Sound, Rendered
<1> HIDE DEF e
<1>10. /\ Sound(Driver, model)' /\ pipe' = e.pipe /\ Driver \in DriverState
       /\ coraSuspended' = e.cora /\ localSuspended' = e.local
       /\ client' = "up" => client = "up"
       /\ client' \in {"none", "up", "dropping"}
  BY <1>1, <1>6, <1>9, BurstStep
<1>11. Typed'
  BY <1>0, <1>1, <1>10 DEF Typed
<1>12. Attached' /\ FramesAreCurrent'
  BY <1>0, <1>1, <1>10 DEF Attached, FramesAreCurrent
<1>13. FramesArrive'
  <2> SUFFICES ASSUME client' = "up", ~coraSuspended', ~localSuspended', NEW j \in Keys \ unsent'
               PROVE  Shows(pipe', panel', j, frames'[j])
    BY DEF FramesArrive
  <2>1. j \in DOMAIN frames
    BY <1>0, <1>1, <1>10 DEF FramesAreCurrent
  <2>2. Places(e.pipe, j, frames[j])
    BY <2>1, <1>6, <1>7, <1>9, <1>10, BurstPlaces
  <2> QED BY <2>2, <1>1, <1>10 DEF Shows
<1>14. WidgetArrives'
  <2> SUFFICES ASSUME ~localSuspended'
               PROVE  Shows(pipe', panel', WidgetKey, WidgetImage(widgetCache'))
    BY DEF WidgetArrives
  <2>1. /\ s[Len(s)].kind = "local" /\ s[Len(s)].key = WidgetKey
        /\ s[Len(s)].img = WidgetImage(widgetWant)
    BY <1>8 DEF Local
  <2>2. Places(e.pipe, WidgetKey, WidgetImage(widgetWant))
    BY <2>1, <1>6, <1>8, <1>9, <1>10, BurstEnds
  <2> QED BY <2>2, <1>1, <1>10 DEF Shows
<1> QED BY <1>10, <1>11, <1>12, <1>13, <1>14 DEF PanelInv

-----------------------------------------------------------------------------
LEMMA PanelInductive ==
    ASSUME ~SendsUnplugged, PanelInv, [Next]_vars
    PROVE  PanelInv'
<1>1. CASE \E m \in Models : Plug(m)
  BY <1>1, PlugStep
<1>2. CASE Unplug
  BY <1>2, UnplugStep
<1>3. CASE Paints
  BY <1>3, PaintsStep
<1>4. CASE \E k \in Keys : AppDraws(k)
  BY <1>4, AppDrawsStep
<1>5. CASE \E k \in Keys : AppSends(k)
  BY <1>5, AppSendsStep
<1>6. CASE \E k \in Keys : VerifyPaint(k)
  BY <1>6, VerifyPaintStep
<1>7. CASE ClientConnects \/ ClientReconnects \/ ClientGone
  BY <1>7, ClientStep
<1>8. CASE WidgetChanges
  BY <1>8, WidgetChangesStep
<1>9. CASE WidgetTick
  BY <1>9, WidgetTickStep
<1>10. CASE VerifyStart
  BY <1>10, VerifyStartStep
<1>11. CASE VerifyEnd
  BY <1>11, VerifyEndStep
<1>12. CASE VerifySave
  BY <1>12, VerifySaveStep
<1>13. CASE UNCHANGED vars
  <2>1. UNCHANGED <<model, pipe, coraSuspended, localSuspended, panel, frames, framesModel,
                    verifyKeys, held, widgetWant, widgetCache, client, want, unsent>>
    BY <1>13 DEF vars, driverVars, frameVars, widgetVars, appVars
  <2>2. Driver' = Driver
    BY <2>1 DEF Driver
  <2> QED BY <2>1, <2>2
          DEF PanelInv, Typed, Attached, FramesAreCurrent, FramesArrive, WidgetArrives
<1> QED BY <1>1, <1>2, <1>3, <1>4, <1>5, <1>6, <1>7, <1>8, <1>9, <1>10, <1>11, <1>12, <1>13
        DEF Next

LEMMA PanelInvSuffices == PanelInv => PanelIsTrue
<1> SUFFICES ASSUME PanelInv PROVE PanelIsTrue
  OBVIOUS
<1>0. /\ Typed /\ Attached /\ FramesAreCurrent /\ FramesArrive /\ WidgetArrives
      /\ Sound(Driver, model)
  BY DEF PanelInv
<1>1. /\ pipe \in Seq(Picture) /\ coraSuspended \in BOOLEAN /\ localSuspended \in BOOLEAN
      /\ Len(pipe) <= Capacity + ControlReserve
      /\ \A j \in 1..Len(pipe) : Native(pipe[j], model)
  BY <1>0, DriverNow DEF Sound, DriverState, Size
<1>2. FramesConsistent
  <2>1. ImagesTypeOK
    BY <1>0, <1>1 DEF ImagesTypeOK, Typed
  <2>2. NoForeignFrames
    BY <1>1 DEF NoForeignFrames, Native
  <2> QED BY <2>1, <2>2 DEF FramesConsistent
<1>3. ASSUME pipe = << >>, NEW k, NEW img, Shows(pipe, panel, k, img) PROVE panel[k] = img
  <2>1. Len(pipe) = 0
    BY <1>3
  <2>2. ~Places(pipe, k, img)
    BY <2>1 DEF Places
  <2> QED BY <2>2, <1>3 DEF Shows
<1>4. WidgetCacheIsTrue
  BY <1>0, <1>3 DEF WidgetCacheIsTrue, Quiet, WidgetArrives
<1>5. PanelShowsApp
  <2> SUFFICES ASSUME Quiet, ~held, client = "up", unsent = {}, NEW k \in Keys
               PROVE  panel[k] = AppImage(want[k], model)
    BY DEF PanelShowsApp
  <2>1. Shows(pipe, panel, k, frames[k]) /\ pipe = << >>
    BY <1>0 DEF Quiet, FramesArrive
  <2>2. frames[k] = AppImage(want[k], model)
    BY <1>0 DEF FramesAreCurrent, Attached, Quiet
  <2> QED BY <2>1, <2>2, <1>3
<1> QED BY <1>2, <1>4, <1>5 DEF PanelIsTrue

(* The dock tells the truth about its panel (main/dock.ts, main/dock-frames.ts): for any number
   of keys, models, sessions, replugs, overloads and wizard sessions, with an app that sends
   images only while a device is attached, the app's frames and the widget's cache are what an
   idle panel shows, and no frame reaches a model it was not made for. *)
THEOREM PanelStaysTrue ==
    ASSUME ~SendsUnplugged
    PROVE  Spec => []PanelIsTrue
<1>1. Init => PanelInv
  BY InitHolds
<1>2. PanelInv /\ [Next]_vars => PanelInv'
  BY PanelInductive
<1>3. PanelInv => PanelIsTrue
  BY PanelInvSuffices
<1> QED BY <1>1, <1>2, <1>3, PTL DEF Spec

(***************************************************************************)
(* Part 3. DockInput, for every unit, key grid, knob and brightness level. *)
(***************************************************************************)

(* Everything a driver may report, or a unit advertise, as a knob. *)
AnyKnob == Knobs \cup UNION {KnobsOf[u] : u \in InUnits}

InTyped ==
    /\ seat \in [unit : InUnits \cup {Nobody}, owner : InUnits \cup {Nobody}, stopped : BOOLEAN]
    /\ hands \in [fingers : SUBSET AnyKey, swallowed : SUBSET AnyKey, clicks : SUBSET AnyKey,
                  asleep : BOOLEAN]
    /\ child \in [open : BOOLEAN, states : SUBSET AnyKey, keys : SUBSET AnyKey,
                  knobs : SUBSET AnyKnob]
    /\ app \in [down : SUBSET AnyKey, knobs : SUBSET AnyKnob]
    /\ lum \in [level : InLevels \cup {Nobody}, saved : [InUnits -> InLevels \cup {Nobody}],
                ignore : [InUnits -> BOOLEAN], resend : BOOLEAN]
    /\ witness \in [lost : SUBSET AnyKey, mixed : SUBSET AnyKey, here : SUBSET AnyKey,
                    own : [InUnits -> InLevels \cup {Nobody}]]

(* The app knows of the grid's keys what the server has on record; without a session nothing. *)
AppFollows ==
    /\ app.down \subseteq child.keys
    /\ app.down = IF child.open THEN child.states ELSE {}

(* The grid is the one of the attached unit; only an attached unit has fingers on it. *)
GridFollows ==
    /\ seat.unit # Nobody => child.keys = GridOf[seat.unit] /\ seat.owner = seat.unit
    /\ seat.unit = Nobody => hands.fingers = {}
    /\ witness.here \subseteq hands.fingers
    /\ hands.swallowed \subseteq hands.fingers

(* A key that is down in the app is down for a reason that will end: a press that standby
   swallowed, whose release is swallowed too, is none. *)
DownHasReason ==
    /\ app.down \subseteq
         ((hands.fingers \cup hands.clicks) \ hands.swallowed) \cup witness.lost \cup witness.mixed
    /\ hands.asleep => hands.clicks = {}

(* A pending click never belongs to a key pressed in this session, but for a click on a key a
   finger holds. *)
ClicksApart == hands.clicks \cap witness.here \subseteq witness.mixed

(* The attached unit's level is the dock's. *)
LevelFollows ==
    /\ lum.saved = witness.own
    /\ seat.unit # Nobody => lum.saved[seat.unit] = lum.level

InInv ==
    /\ InTyped /\ AppFollows /\ GridFollows /\ DownHasReason /\ HeldStaysDown /\ ClicksApart
    /\ LevelFollows

LEMMA GridsKnown ==
    /\ DefaultGrid \subseteq AnyKey /\ Knobs \subseteq AnyKnob
    /\ \A u \in InUnits : GridOf[u] \subseteq AnyKey /\ KnobsOf[u] \subseteq AnyKnob
BY DEF AnyKey, AnyKnob

LEMMA InInitHolds == InInit => InInv
<1> SUFFICES ASSUME InInit PROVE InInv
  OBVIOUS
<1>1. InTyped
  BY GridsKnown, InputAssumption DEF InInit, InTyped, Silent, NothingSeen
<1>2. AppFollows /\ GridFollows
  BY DEF InInit, AppFollows, GridFollows, Silent, NothingSeen
<1>3. DownHasReason /\ HeldStaysDown /\ ClicksApart
  BY DEF InInit, DownHasReason, HeldStaysDown, ClicksApart, Silent, NothingSeen
<1>4. LevelFollows
  BY DEF InInit, LevelFollows, NothingSeen
<1> QED BY <1>1, <1>2, <1>3, <1>4 DEF InInv

LEMMA AttachUnitStep ==
    ASSUME InInv, NEW u \in InUnits, AttachUnit(u)
    PROVE  InInv'
<1> USE DEF AttachUnit, SetChildGeometry, Saved, SeededLevel
<1>0. /\ InTyped /\ AppFollows /\ GridFollows /\ DownHasReason /\ HeldStaysDown
      /\ ClicksApart /\ LevelFollows
  BY DEF InInv
<1>1. InTyped'
  BY <1>0, GridsKnown, InputAssumption DEF InTyped
<1>2. AppFollows'
  BY <1>0 DEF AppFollows
<1>3. GridFollows'
  BY <1>0 DEF GridFollows
<1>4. DownHasReason'
  BY <1>0 DEF DownHasReason
<1>5. HeldStaysDown'
  BY <1>0 DEF HeldStaysDown, InTyped, GridFollows
<1>6. ClicksApart'
  BY <1>0 DEF ClicksApart
<1>7. LevelFollows'
  BY <1>0, GridsKnown, InputAssumption DEF LevelFollows, InTyped
<1> QED BY <1>1, <1>2, <1>3, <1>4, <1>5, <1>6, <1>7 DEF InInv

LEMMA DetachUnitStep ==
    ASSUME InInv, DetachUnit
    PROVE  InInv'
<1> USE DEF DetachUnit, SetChildGeometry
<1>0. /\ InTyped /\ AppFollows /\ GridFollows /\ DownHasReason /\ HeldStaysDown
      /\ ClicksApart /\ LevelFollows
  BY DEF InInv
<1>1. InTyped'
  BY <1>0, GridsKnown, InputAssumption DEF InTyped
<1>2. AppFollows'
  BY <1>0 DEF AppFollows
<1>3. GridFollows'
  BY <1>0 DEF GridFollows
<1>4. DownHasReason'
  BY <1>0 DEF DownHasReason
<1>5. HeldStaysDown'
  BY <1>0 DEF HeldStaysDown
<1>6. ClicksApart'
  BY <1>0 DEF ClicksApart
<1>7. LevelFollows'
  BY <1>0 DEF LevelFollows
<1> QED BY <1>1, <1>2, <1>3, <1>4, <1>5, <1>6, <1>7 DEF InInv

LEMMA StopInputStep ==
    ASSUME InInv, StopInput
    PROVE  InInv'
<1> USE DEF StopInput, Silent
<1>0. /\ InTyped /\ AppFollows /\ GridFollows /\ DownHasReason /\ HeldStaysDown
      /\ ClicksApart /\ LevelFollows
  BY DEF InInv
<1>1. InTyped'
  BY <1>0 DEF InTyped
<1>2. AppFollows'
  BY <1>0 DEF AppFollows
<1>3. GridFollows'
  BY <1>0 DEF GridFollows
<1>4. DownHasReason'
  BY <1>0 DEF DownHasReason
<1>5. HeldStaysDown'
  BY <1>0 DEF HeldStaysDown
<1>6. ClicksApart'
  BY <1>0 DEF ClicksApart
<1>7. LevelFollows'
  BY <1>0 DEF LevelFollows
<1> QED BY <1>1, <1>2, <1>3, <1>4, <1>5, <1>6, <1>7 DEF InInv

LEMMA FingerDownStep ==
    ASSUME InInv, NEW k \in AnyKey, FingerDown(k)
    PROVE  InInv'
<1> USE DEF FingerDown, SendKeyEvent, KeyStatesAfter
<1>0. /\ InTyped /\ AppFollows /\ GridFollows /\ DownHasReason /\ HeldStaysDown
      /\ ClicksApart /\ LevelFollows
  BY DEF InInv
<1>1. InTyped'
  <2>1. hands' \in [fingers : SUBSET AnyKey, swallowed : SUBSET AnyKey, clicks : SUBSET AnyKey,
                    asleep : BOOLEAN]
    BY <1>0 DEF InTyped
  <2>2. child' \in [open : BOOLEAN, states : SUBSET AnyKey, keys : SUBSET AnyKey,
                    knobs : SUBSET AnyKnob]
    BY <1>0 DEF InTyped
  <2>3. app' \in [down : SUBSET AnyKey, knobs : SUBSET AnyKnob]
    BY <1>0 DEF InTyped
  <2>4. witness' \in [lost : SUBSET AnyKey, mixed : SUBSET AnyKey, here : SUBSET AnyKey,
                      own : [InUnits -> InLevels \cup {Nobody}]]
    <3>1. CASE hands.asleep
      BY <3>1, <1>0 DEF InTyped
    <3>2. CASE ~hands.asleep /\ child.open
      BY <3>2, <1>0 DEF InTyped
    <3>3. CASE ~hands.asleep /\ ~child.open
      BY <3>3, <1>0 DEF InTyped
    <3> QED BY <3>1, <3>2, <3>3
  <2> QED BY <2>1, <2>2, <2>3, <2>4, <1>0 DEF InTyped
<1>2. AppFollows'
  <2>1. CASE hands.asleep
    BY <2>1, <1>0 DEF InTyped, AppFollows
  <2>2. CASE ~hands.asleep
    <3>1. /\ child'.open = child.open /\ child'.keys = child.keys
          /\ child'.states = KeyStatesAfter(k, TRUE)
      BY <2>2, <1>0 DEF InTyped
    <3>2. CASE k \in child.keys /\ child.open
      <4>1. app'.down = child.states \cup {k} /\ child'.states = child.states \cup {k}
        BY <2>2, <3>1, <3>2, <1>0 DEF InTyped
      <4> QED BY <3>1, <3>2, <4>1, <1>0 DEF AppFollows
    <3>3. CASE ~ (k \in child.keys /\ child.open)
      <4>1. app' = app /\ child'.states = child.states
        BY <2>2, <3>1, <3>3
      <4> QED BY <3>1, <4>1, <1>0 DEF AppFollows
    <3> QED BY <3>2, <3>3
  <2> QED BY <2>1, <2>2
<1>3. GridFollows'
  BY <1>0 DEF GridFollows, InTyped
<1>4. DownHasReason'
  BY <1>0 DEF DownHasReason, InTyped, AppFollows
<1>5. HeldStaysDown'
  BY <1>0 DEF HeldStaysDown, InTyped, AppFollows, GridFollows
<1>6. ClicksApart'
  BY <1>0 DEF ClicksApart
<1>7. LevelFollows'
  BY <1>0 DEF LevelFollows
<1> QED BY <1>1, <1>2, <1>3, <1>4, <1>5, <1>6, <1>7 DEF InInv

LEMMA FingerUpStep ==
    ASSUME InInv, NEW k \in AnyKey, FingerUp(k)
    PROVE  InInv'
<1> USE DEF FingerUp, SendKeyEvent, KeyStatesAfter
<1>0. /\ InTyped /\ AppFollows /\ GridFollows /\ DownHasReason /\ HeldStaysDown
      /\ ClicksApart /\ LevelFollows
  BY DEF InInv
<1>1. InTyped'
  <2>1. hands' \in [fingers : SUBSET AnyKey, swallowed : SUBSET AnyKey, clicks : SUBSET AnyKey,
                    asleep : BOOLEAN]
    BY <1>0 DEF InTyped
  <2>2. child' \in [open : BOOLEAN, states : SUBSET AnyKey, keys : SUBSET AnyKey,
                    knobs : SUBSET AnyKnob]
    BY <1>0 DEF InTyped
  <2>3. app' \in [down : SUBSET AnyKey, knobs : SUBSET AnyKnob]
    BY <1>0 DEF InTyped
  <2>4. witness' \in [lost : SUBSET AnyKey, mixed : SUBSET AnyKey, here : SUBSET AnyKey,
                      own : [InUnits -> InLevels \cup {Nobody}]]
    BY <1>0 DEF InTyped
  <2> QED BY <2>1, <2>2, <2>3, <2>4, <1>0 DEF InTyped
<1>2. AppFollows'
  <2>1. CASE k \in hands.swallowed
    BY <2>1, <1>0 DEF AppFollows
  <2>2. CASE k \notin hands.swallowed
    <3>1. /\ child'.open = child.open /\ child'.keys = child.keys
          /\ child'.states = KeyStatesAfter(k, FALSE)
      BY <2>2, <1>0 DEF InTyped
    <3>2. CASE k \in child.keys /\ child.open
      <4>1. app'.down = child.states \ {k} /\ child'.states = child.states \ {k}
        BY <2>2, <3>1, <3>2, <1>0 DEF InTyped
      <4> QED BY <3>1, <3>2, <4>1, <1>0 DEF AppFollows
    <3>3. CASE ~ (k \in child.keys /\ child.open)
      <4>1. app' = app /\ child'.states = child.states
        BY <2>2, <3>1, <3>3
      <4> QED BY <3>1, <4>1, <1>0 DEF AppFollows
    <3> QED BY <3>2, <3>3
  <2> QED BY <2>1, <2>2
<1>3. GridFollows'
  BY <1>0 DEF GridFollows, InTyped
<1>4. DownHasReason'
  <2>1. /\ hands'.fingers = hands.fingers \ {k} /\ hands'.clicks = hands.clicks \ {k}
        /\ hands'.swallowed = hands.swallowed \ {k} /\ hands'.asleep = hands.asleep
        /\ witness'.lost = witness.lost /\ witness'.mixed = witness.mixed
    BY <1>0 DEF InTyped
  <2>2. CASE k \in hands.swallowed
    <3>1. app' = app
      BY <2>2
    <3> QED BY <2>1, <2>2, <3>1, <1>0 DEF DownHasReason
  <2>3. CASE k \notin hands.swallowed
    <3>1. app'.down \subseteq app.down \ {k}
      BY <2>3, <1>0 DEF InTyped, AppFollows
    <3> QED BY <2>1, <3>1, <1>0 DEF DownHasReason
  <2> QED BY <2>2, <2>3
<1>5. HeldStaysDown'
  BY <1>0 DEF HeldStaysDown, InTyped, AppFollows
<1>6. ClicksApart'
  BY <1>0 DEF ClicksApart
<1>7. LevelFollows'
  BY <1>0 DEF LevelFollows
<1> QED BY <1>1, <1>2, <1>3, <1>4, <1>5, <1>6, <1>7 DEF InInv

LEMMA ClickStep ==
    ASSUME InInv, NEW k \in AnyKey, Click(k)
    PROVE  InInv'
<1> USE DEF Click, SendKeyEvent, KeyStatesAfter
<1>0. /\ InTyped /\ AppFollows /\ GridFollows /\ DownHasReason /\ HeldStaysDown
      /\ ClicksApart /\ LevelFollows
  BY DEF InInv
<1>1. InTyped'
  BY <1>0 DEF InTyped
<1>2. AppFollows'
  BY <1>0 DEF AppFollows
<1>3. GridFollows'
  BY <1>0 DEF GridFollows
<1>4. DownHasReason'
  <2>1. /\ hands'.fingers = hands.fingers /\ hands'.clicks = hands.clicks \cup {k}
        /\ hands'.swallowed = hands.swallowed /\ hands'.asleep = FALSE
    BY <1>0 DEF InTyped
  <2>2. app'.down \subseteq app.down \cup {k}
    BY <1>0 DEF InTyped, AppFollows
  <2>3. CASE k \in hands.fingers
    <3>1. witness'.lost = witness.lost /\ witness'.mixed = witness.mixed \cup {k}
      BY <2>3, <1>0 DEF InTyped
    <3> QED BY <2>1, <2>2, <3>1, <1>0 DEF DownHasReason
  <2>4. CASE k \notin hands.fingers
    <3>1. /\ witness'.lost = witness.lost \ {k} /\ witness'.mixed = witness.mixed
          /\ k \notin hands.swallowed
      BY <2>4, <1>0 DEF InTyped, GridFollows
    <3> QED BY <2>1, <2>2, <3>1, <1>0 DEF DownHasReason
  <2> QED BY <2>3, <2>4
<1>5. HeldStaysDown'
  BY <1>0 DEF HeldStaysDown, InTyped, AppFollows
<1>6. ClicksApart'
  BY <1>0 DEF ClicksApart, InTyped, GridFollows
<1>7. LevelFollows'
  BY <1>0 DEF LevelFollows
<1> QED BY <1>1, <1>2, <1>3, <1>4, <1>5, <1>6, <1>7 DEF InInv

LEMMA ClickTimerStep ==
    ASSUME InInv, NEW k \in AnyKey, ClickTimer(k)
    PROVE  InInv'
<1> USE DEF ClickTimer, SendKeyEvent, KeyStatesAfter
<1>0. /\ InTyped /\ AppFollows /\ GridFollows /\ DownHasReason /\ HeldStaysDown
      /\ ClicksApart /\ LevelFollows
  BY DEF InInv
<1>1. InTyped'
  BY <1>0 DEF InTyped
<1>2. AppFollows'
  BY <1>0 DEF AppFollows
<1>3. GridFollows'
  BY <1>0 DEF GridFollows
<1>4. DownHasReason'
  BY <1>0 DEF DownHasReason, InTyped, AppFollows
<1>5. HeldStaysDown'
  BY <1>0 DEF HeldStaysDown, InTyped, AppFollows, ClicksApart
<1>6. ClicksApart'
  BY <1>0 DEF ClicksApart
<1>7. LevelFollows'
  BY <1>0 DEF LevelFollows
<1> QED BY <1>1, <1>2, <1>3, <1>4, <1>5, <1>6, <1>7 DEF InInv

LEMMA DialPressStep ==
    ASSUME InInv, NEW d \in Knobs, DialPress(d)
    PROVE  InInv'
<1> USE DEF DialPress
<1>0. /\ InTyped /\ AppFollows /\ GridFollows /\ DownHasReason /\ HeldStaysDown
      /\ ClicksApart /\ LevelFollows
  BY DEF InInv
<1>1. InTyped'
  BY <1>0 DEF InTyped
<1>2. AppFollows'
  BY <1>0 DEF AppFollows
<1>3. GridFollows'
  BY <1>0 DEF GridFollows
<1>4. DownHasReason'
  BY <1>0 DEF DownHasReason
<1>5. HeldStaysDown'
  BY <1>0 DEF HeldStaysDown
<1>6. ClicksApart'
  BY <1>0 DEF ClicksApart
<1>7. LevelFollows'
  BY <1>0 DEF LevelFollows
<1> QED BY <1>1, <1>2, <1>3, <1>4, <1>5, <1>6, <1>7 DEF InInv

LEMMA FallsAsleepStep ==
    ASSUME InInv, FallsAsleep
    PROVE  InInv'
<1> USE DEF FallsAsleep
<1>0. /\ InTyped /\ AppFollows /\ GridFollows /\ DownHasReason /\ HeldStaysDown
      /\ ClicksApart /\ LevelFollows
  BY DEF InInv
<1>1. InTyped'
  BY <1>0 DEF InTyped
<1>2. AppFollows'
  BY <1>0 DEF AppFollows
<1>3. GridFollows'
  BY <1>0 DEF GridFollows
<1>4. DownHasReason'
  BY <1>0 DEF DownHasReason
<1>5. HeldStaysDown'
  BY <1>0 DEF HeldStaysDown
<1>6. ClicksApart'
  BY <1>0 DEF ClicksApart
<1>7. LevelFollows'
  BY <1>0 DEF LevelFollows
<1> QED BY <1>1, <1>2, <1>3, <1>4, <1>5, <1>6, <1>7 DEF InInv

LEMMA AppJoinsStep ==
    ASSUME InInv, AppJoins
    PROVE  InInv'
<1> USE DEF AppJoins, Silent, Saved
<1>0. /\ InTyped /\ AppFollows /\ GridFollows /\ DownHasReason /\ HeldStaysDown
      /\ ClicksApart /\ LevelFollows
  BY DEF InInv
<1>1. InTyped'
  BY <1>0 DEF InTyped
<1>2. AppFollows'
  BY <1>0 DEF AppFollows
<1>3. GridFollows'
  BY <1>0 DEF GridFollows
<1>4. DownHasReason'
  BY <1>0 DEF DownHasReason
<1>5. HeldStaysDown'
  BY <1>0 DEF HeldStaysDown
<1>6. ClicksApart'
  BY <1>0 DEF ClicksApart
<1>7. LevelFollows'
  BY <1>0 DEF LevelFollows, InTyped
<1> QED BY <1>1, <1>2, <1>3, <1>4, <1>5, <1>6, <1>7 DEF InInv

LEMMA AppQuitsStep ==
    ASSUME InInv, AppQuits
    PROVE  InInv'
<1> USE DEF AppQuits, Silent
<1>0. /\ InTyped /\ AppFollows /\ GridFollows /\ DownHasReason /\ HeldStaysDown
      /\ ClicksApart /\ LevelFollows
  BY DEF InInv
<1>1. InTyped'
  BY <1>0 DEF InTyped
<1>2. AppFollows'
  BY <1>0 DEF AppFollows
<1>3. GridFollows'
  BY <1>0 DEF GridFollows
<1>4. DownHasReason'
  BY <1>0 DEF DownHasReason
<1>5. HeldStaysDown'
  BY <1>0 DEF HeldStaysDown
<1>6. ClicksApart'
  BY <1>0 DEF ClicksApart
<1>7. LevelFollows'
  BY <1>0 DEF LevelFollows
<1> QED BY <1>1, <1>2, <1>3, <1>4, <1>5, <1>6, <1>7 DEF InInv

LEMMA AppBrightnessStep ==
    ASSUME InInv, NEW l \in InLevels, AppBrightness(l)
    PROVE  InInv'
<1> USE DEF AppBrightness, Requested, Saved
<1>0. /\ InTyped /\ AppFollows /\ GridFollows /\ DownHasReason /\ HeldStaysDown
      /\ ClicksApart /\ LevelFollows
  BY DEF InInv
<1>1. InTyped'
  BY <1>0 DEF InTyped
<1>2. AppFollows'
  BY <1>0 DEF AppFollows
<1>3. GridFollows'
  BY <1>0 DEF GridFollows
<1>4. DownHasReason'
  BY <1>0 DEF DownHasReason
<1>5. HeldStaysDown'
  BY <1>0 DEF HeldStaysDown
<1>6. ClicksApart'
  BY <1>0 DEF ClicksApart
<1>7. LevelFollows'
  BY <1>0 DEF LevelFollows, InTyped
<1> QED BY <1>1, <1>2, <1>3, <1>4, <1>5, <1>6, <1>7 DEF InInv

LEMMA UserBrightnessStep ==
    ASSUME InInv, NEW l \in InLevels, UserBrightness(l)
    PROVE  InInv'
<1> USE DEF UserBrightness, Requested, Saved
<1>0. /\ InTyped /\ AppFollows /\ GridFollows /\ DownHasReason /\ HeldStaysDown
      /\ ClicksApart /\ LevelFollows
  BY DEF InInv
<1>1. InTyped'
  BY <1>0 DEF InTyped
<1>2. AppFollows'
  BY <1>0 DEF AppFollows
<1>3. GridFollows'
  BY <1>0 DEF GridFollows
<1>4. DownHasReason'
  BY <1>0 DEF DownHasReason
<1>5. HeldStaysDown'
  BY <1>0 DEF HeldStaysDown
<1>6. ClicksApart'
  BY <1>0 DEF ClicksApart
<1>7. LevelFollows'
  BY <1>0 DEF LevelFollows, InTyped
<1> QED BY <1>1, <1>2, <1>3, <1>4, <1>5, <1>6, <1>7 DEF InInv

LEMMA UserIgnoresAppStep ==
    ASSUME InInv, UserIgnoresApp
    PROVE  InInv'
<1> USE DEF UserIgnoresApp, Saved
<1>0. /\ InTyped /\ AppFollows /\ GridFollows /\ DownHasReason /\ HeldStaysDown
      /\ ClicksApart /\ LevelFollows
  BY DEF InInv
<1> DEFINE toggled == [lum EXCEPT !.ignore[seat.unit] = ~@]
<1>t. /\ seat.unit \in InUnits /\ seat.unit # Nobody
      /\ toggled \in [level : InLevels \cup {Nobody}, saved : [InUnits -> InLevels \cup {Nobody}],
                      ignore : [InUnits -> BOOLEAN], resend : BOOLEAN]
      /\ toggled.saved = lum.saved /\ toggled.level = lum.level
  BY <1>0 DEF InTyped
<1>l. /\ UNCHANGED <<seat, child, app, witness>>
      /\ hands' = hands \/ hands' = [hands EXCEPT !.asleep = FALSE]
      /\ lum' = toggled \/ lum' = [toggled EXCEPT !.saved[seat.unit] = toggled.level]
  BY <1>t
<1> HIDE DEF toggled, UserIgnoresApp
<1>1. InTyped'
  <2>1. lum' \in [level : InLevels \cup {Nobody}, saved : [InUnits -> InLevels \cup {Nobody}],
                  ignore : [InUnits -> BOOLEAN], resend : BOOLEAN]
    BY <1>t, <1>l
  <2>2. hands' \in [fingers : SUBSET AnyKey, swallowed : SUBSET AnyKey, clicks : SUBSET AnyKey,
                    asleep : BOOLEAN]
    BY <1>0, <1>l DEF InTyped
  <2> QED BY <2>1, <2>2, <1>0, <1>l DEF InTyped
<1>2. AppFollows'
  BY <1>0, <1>l DEF AppFollows
<1>3. GridFollows'
  BY <1>0, <1>l DEF GridFollows, InTyped
<1>4. DownHasReason'
  BY <1>0, <1>l DEF DownHasReason, InTyped
<1>5. HeldStaysDown'
  BY <1>0, <1>l DEF HeldStaysDown
<1>6. ClicksApart'
  BY <1>0, <1>l DEF ClicksApart, InTyped
<1>7. LevelFollows'
  <2>1. lum'.saved = lum.saved /\ lum'.level = lum.level
    <3>1. lum.saved[seat.unit] = lum.level
      BY <1>0, <1>t DEF LevelFollows
    <3>2. CASE lum' = toggled
      BY <3>2, <1>t
    <3>3. CASE lum' = [toggled EXCEPT !.saved[seat.unit] = toggled.level]
      BY <3>1, <3>3, <1>t
    <3> QED BY <3>2, <3>3, <1>l
  <2> QED BY <2>1, <1>0, <1>l DEF LevelFollows
<1> QED BY <1>1, <1>2, <1>3, <1>4, <1>5, <1>6, <1>7 DEF InInv

LEMMA ResendTimerStep ==
    ASSUME InInv, ResendTimer
    PROVE  InInv'
<1> USE DEF ResendTimer, Saved
<1>0. /\ InTyped /\ AppFollows /\ GridFollows /\ DownHasReason /\ HeldStaysDown
      /\ ClicksApart /\ LevelFollows
  BY DEF InInv
<1>1. InTyped'
  BY <1>0 DEF InTyped
<1>2. AppFollows'
  BY <1>0 DEF AppFollows
<1>3. GridFollows'
  BY <1>0 DEF GridFollows
<1>4. DownHasReason'
  BY <1>0 DEF DownHasReason
<1>5. HeldStaysDown'
  BY <1>0 DEF HeldStaysDown
<1>6. ClicksApart'
  BY <1>0 DEF ClicksApart
<1>7. LevelFollows'
  BY <1>0 DEF LevelFollows, InTyped, GridFollows
<1> QED BY <1>1, <1>2, <1>3, <1>4, <1>5, <1>6, <1>7 DEF InInv

(* What the app sees of a dock's keys is what fingers and clicks do (main/dock.ts,
   cora/child-server.ts), and settings.json keeps each unit's own level: for every set of
   units, grids, knobs and levels, and any number of presses, sessions and replugs. *)
THEOREM InputStaysFaithful == InSpec => []InputIsFaithful
<1>1. InInit => InInv
  BY InInitHolds
<1>2. InInv /\ [InNext]_inVars => InInv'
  <2> SUFFICES ASSUME InInv, [InNext]_inVars PROVE InInv'
    OBVIOUS
  <2>1. CASE UNCHANGED inVars
    BY <2>1 DEF inVars, InInv, InTyped, AppFollows, GridFollows, DownHasReason, HeldStaysDown,
                ClicksApart, LevelFollows
  <2>2. CASE \E u \in InUnits : AttachUnit(u)
    BY <2>2, AttachUnitStep
  <2>3. CASE DetachUnit \/ StopInput \/ FallsAsleep
    BY <2>3, DetachUnitStep, StopInputStep, FallsAsleepStep
  <2>4. CASE UserIgnoresApp \/ ResendTimer
    BY <2>4, UserIgnoresAppStep, ResendTimerStep
  <2>5. CASE AppJoins \/ AppQuits
    BY <2>5, AppJoinsStep, AppQuitsStep
  <2>6. CASE \E k \in AnyKey : FingerDown(k) \/ FingerUp(k) \/ Click(k) \/ ClickTimer(k)
    BY <2>6, FingerDownStep, FingerUpStep, ClickStep, ClickTimerStep
  <2>7. CASE \E d \in Knobs : DialPress(d)
    BY <2>7, DialPressStep
  <2>8. CASE \E l \in InLevels : AppBrightness(l) \/ UserBrightness(l)
    BY <2>8, AppBrightnessStep, UserBrightnessStep
  <2> QED BY <2>1, <2>2, <2>3, <2>4, <2>5, <2>6, <2>7, <2>8 DEF InNext
<1>3. InInv => InputIsFaithful
  <2> SUFFICES ASSUME InInv PROVE InputIsFaithful
    OBVIOUS
  <2>1. NoKeyStuck
    BY DEF InInv, DownHasReason, NoKeyStuck
  <2>2. EachKeepsItsLevel
    BY DEF InInv, InTyped, LevelFollows, EachKeepsItsLevel
  <2> QED BY <2>1, <2>2 DEF InInv, InputIsFaithful
<1> QED BY <1>1, <1>2, <1>3, PTL DEF InSpec
=============================================================================
