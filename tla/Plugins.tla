------------------------------ MODULE Plugins ------------------------------
(***************************************************************************)
(* The plugin host and its worker (plugin/plugin-host.ts,                  *)
(* plugin/plugin-fetch-host.ts, plugin/plugin-worker.ts): one worker runs  *)
(* a poll loop per configured plugin key, the host keeps the values, runs  *)
(* the plugins' HTTP requests and replaces a worker that hangs or crashes. *)
(*                                                                         *)
(* Host and worker are two threads joined by two FIFO message queues.      *)
(* Messages of a replaced worker may still arrive: every message carries   *)
(* the worker it comes from.                                               *)
(***************************************************************************)
EXTENDS Integers, Sequences, FiniteSets

CONSTANTS
    PluginKeys,         \* (file, arg) pairs that may be configured
    FetchMaxConcurrent, \* FETCH_MAX_CONCURRENT
    MaxMissedPongs, MaxConsecutiveKills,
    MaxWorkers, MaxGens, MaxTaps, MaxFetches, MaxInbox, MaxOutbox   \* bounds of the instance

VARIABLES
    host,      \* the fields of PluginHost and of its PluginFetchProxy
    thread,    \* the current worker: `running' map, poll loops, pending fetch ids
    toWorker,  \* messages to the current worker
    toHost,    \* messages to the host, each with its worker
    taps       \* forced refreshes so far

pluginVars == <<host, thread, toWorker, toHost, taps>>

NoEntry == [gen |-> 0, status |-> "none", forcing |-> FALSE, owed |-> 0]
NoThread == [running |-> [k \in PluginKeys |-> 0], loops |-> {}, fetchSeq |-> 0,
             gensLoaded |-> 0, hung |-> FALSE]
Msg(type, key, n) == [type |-> type, key |-> key, n |-> n]

-----------------------------------------------------------------------------
(* The host.  `c' is the host with what it posted: [h, post, fresh]; fresh: a new worker. *)

Call(h) == [h |-> h, post |-> <<>>, fresh |-> FALSE]
Entries(h) == {k \in PluginKeys : h.entries[k].gen # 0}
ActiveEntries(h) == {k \in Entries(h) : h.entries[k].status # "disabled"}
Config(h) == [k \in PluginKeys |-> IF k \in ActiveEntries(h) THEN h.entries[k].gen ELSE 0]

SettleForced(e) == [e EXCEPT !.forcing = FALSE, !.owed = 0]

(* Everything is aborted and forgotten; the flights end on their own. *)
TeardownWorker(h) ==
    [h EXCEPT !.worker = 0, !.awaitingPong = FALSE, !.requests = {},
              !.entries = [k \in PluginKeys |-> SettleForced(h.entries[k])]]

StopHost(h) == [TeardownWorker(h) EXCEPT !.hbTimer = FALSE]

EnsureWorker(c) ==
    IF c.h.worker # 0 \/ c.h.disposed THEN c
    ELSE [c EXCEPT !.fresh = TRUE, !.h.worker = c.h.spawned + 1, !.h.spawned = @ + 1,
                   !.h.awaitingPong = FALSE, !.h.missedPongs = 0, !.h.configSent = <<>>,
                   !.h.hbTimer = TRUE]

SyncConfig(c) ==
    LET up == EnsureWorker(c)
        config == Config(c.h)
    IN  IF ActiveEntries(c.h) = {}
        THEN [c EXCEPT !.h = [StopHost(c.h) EXCEPT !.configSent = <<>>]]
        ELSE IF <<config>> = up.h.configSent THEN up
        ELSE [up EXCEPT !.h.configSent = <<config>>,
                        !.post = Append(@, Msg("configure", 0, config))]

(* A new key, or a changed interval of a known one. *)
RequestKey(c, k) ==
    LET e == c.h.entries[k]
        h == IF e.gen = 0
             THEN [c.h EXCEPT !.entries[k] = [gen |-> c.h.genSeq + 1, status |-> "pending",
                                              forcing |-> FALSE, owed |-> 0],
                              !.genSeq = @ + 1, !.killCount = 0]
             ELSE [c.h EXCEPT !.entries[k].status = IF @ = "disabled" THEN "pending" ELSE @,
                              !.killCount = 0]
    IN  SyncConfig([c EXCEPT !.h = h])

OnWorkerDead(h) ==
    LET torn == [TeardownWorker(h) EXCEPT !.killCount = @ + 1]
    IN  IF torn.killCount >= MaxConsecutiveKills
        THEN Call(StopHost([torn EXCEPT
                 !.entries = [k \in PluginKeys |->
                     IF k \in Entries(h) THEN [torn.entries[k] EXCEPT !.status = "disabled"]
                     ELSE NoEntry]]))
        ELSE SyncConfig(Call(torn))

HbTick(h, stale) ==
    LET missed == IF h.awaitingPong THEN h.missedPongs + 1 ELSE 0
        pinged == [h EXCEPT !.missedPongs = missed, !.awaitingPong = TRUE]
        reaped == [pinged EXCEPT !.entries = [k \in PluginKeys |->
                      IF k \in stale THEN NoEntry ELSE pinged.entries[k]]]
        c == [Call(reaped) EXCEPT !.post = <<Msg("ping", 0, 0)>>]
    IN  IF h.awaitingPong /\ missed >= MaxMissedPongs
        THEN OnWorkerDead([h EXCEPT !.missedPongs = missed])
        ELSE IF stale = {} THEN c ELSE SyncConfig(c)

(* Only a current, enabled entry may issue requests, and only so many at once. *)
Refused(h, m) ==
    \/ h.entries[m.key].gen # m.n.gen \/ h.entries[m.key].status = "disabled"
    \/ \E r \in h.requests : r.id = m.n.id
    \/ Cardinality(h.requests) >= FetchMaxConcurrent

ReportTo(e, m) ==
    LET got == [e EXCEPT !.status = IF m.type = "value" THEN "ok" ELSE "err"]
    IN  IF e.gen = 0 THEN e ELSE IF m.n THEN SettleForced(got) ELSE got

(* post() reaches the new worker when there is one, and nobody when there is none. *)
Become_(c) ==
    /\ host' = c.h
    /\ thread' = IF c.fresh \/ c.h.worker = 0 THEN NoThread ELSE thread
    /\ toWorker' = IF c.h.worker = 0 THEN <<>>
                   ELSE IF c.fresh THEN c.post ELSE toWorker \o c.post

-----------------------------------------------------------------------------

PluginsInit ==
    /\ host = [entries |-> [k \in PluginKeys |-> NoEntry], worker |-> 0, spawned |-> 0,
               hbTimer |-> FALSE, awaitingPong |-> FALSE, missedPongs |-> 0, killCount |-> 0,
               genSeq |-> 0, configSent |-> <<>>, disposed |-> FALSE,
               requests |-> {}, flights |-> {}]
    /\ thread = NoThread /\ toWorker = <<>> /\ toHost = <<>> /\ taps = 0

(* The widget scheduler asks for a key's value. *)
Request(k) ==
    /\ ~host.disposed
    /\ host.genSeq < MaxGens /\ host.spawned < MaxWorkers
    /\ Become_(RequestKey(Call(host), k))
    /\ UNCHANGED <<toHost, taps>>

ForceRefresh(k) ==
    LET e == host.entries[k] IN
    /\ taps < MaxTaps /\ e.gen # 0 /\ e.status # "disabled" /\ host.worker # 0
    /\ host' = [host EXCEPT !.entries[k].forcing = TRUE, !.entries[k].owed = @ + 1]
    /\ toWorker' = IF e.forcing THEN toWorker ELSE Append(toWorker, Msg("runNow", k, 0))
    /\ taps' = taps + 1
    /\ UNCHANGED <<thread, toHost>>

Heartbeat ==
    /\ host.hbTimer
    /\ host.spawned < MaxWorkers /\ Len(toWorker) <= MaxInbox
    /\ \E stale \in SUBSET Entries(host) : Become_(HbTick(host, stale))
    /\ UNCHANGED <<toHost, taps>>

DisposeHost ==
    /\ ~host.disposed
    /\ Become_(Call(StopHost([host EXCEPT !.disposed = TRUE])))
    /\ UNCHANGED <<toHost, taps>>

(* Mutant: a flight forgets whatever request has its id. *)
FlightEndsById ==
    \E f \in host.flights :
        LET owned == f \in host.requests IN
        /\ host' = [host EXCEPT !.flights = @ \ {f}, !.requests = {r \in @ : r.id # f.id}]
        /\ toWorker' = IF owned /\ f.w = host.worker
                       THEN Append(toWorker, Msg("fetchResult", f.key, f.id)) ELSE toWorker
        /\ UNCHANGED <<thread, toHost, taps>>

(* A flight ends (answer, deadline, abort): only the request it belongs to is answered. *)
FlightEnds ==
    \E f \in host.flights :
        LET owned == f \in host.requests IN
        /\ host' = [host EXCEPT !.flights = @ \ {f}, !.requests = @ \ {f}]
        /\ toWorker' = IF owned /\ f.w = host.worker
                       THEN Append(toWorker, Msg("fetchResult", f.key, f.id)) ELSE toWorker
        /\ UNCHANGED <<thread, toHost, taps>>

(* The message listener: a replaced worker's late messages are ignored. *)
HostReceives ==
    /\ toHost # <<>> /\ toHost' = Tail(toHost) /\ UNCHANGED taps
    /\ LET m == Head(toHost)
           late == m.w # host.worker
           flight == [id |-> m.n.id, w |-> m.w, key |-> m.key]
       IN  \/ late /\ UNCHANGED <<host, thread, toWorker>>
           \/ ~late /\ m.type = "pong"
              /\ host' = [host EXCEPT !.awaitingPong = FALSE, !.killCount = 0]
              /\ UNCHANGED <<thread, toWorker>>
           \/ ~late /\ m.type \in {"value", "error"}
              /\ host' = [host EXCEPT !.entries[m.key] = ReportTo(@, m)]
              /\ UNCHANGED <<thread, toWorker>>
           \/ ~late /\ m.type = "fetch" /\ Refused(host, m)
              /\ toWorker' = Append(toWorker, Msg("fetchResult", m.key, m.n.id))
              /\ UNCHANGED <<host, thread>>
           \/ ~late /\ m.type = "fetch" /\ ~Refused(host, m)
              /\ host' = [host EXCEPT !.requests = @ \cup {flight}, !.flights = @ \cup {flight}]
              /\ UNCHANGED <<thread, toWorker>>
           \/ ~late /\ m.type = "crash" /\ host.spawned < MaxWorkers
              /\ Become_(OnWorkerDead(host))

-----------------------------------------------------------------------------
(* The worker thread.  A poll loop is [key, gen, phase, runNow, forced, cancelled, id]. *)

Alive == host.worker # 0 /\ ~thread.hung
Post(type, key, n) ==
    toHost' = Append(toHost, [type |-> type, key |-> key, n |-> n, w |-> host.worker])
RoomToPost == Len(toHost) < MaxOutbox
LoopOf(t, k) == {l \in t.loops : l.key = k /\ l.gen = t.running[k]}
Swap(t, old, new) == [t EXCEPT !.loops = (@ \ {old}) \cup {new}]

HandleConfigure(t, config) ==
    LET goes(l) == t.running[l.key] = l.gen /\ config[l.key] # l.gen
        starts == {k \in PluginKeys : config[k] # 0 /\ config[k] # t.running[k]}
    IN  [t EXCEPT
           !.running = config,
           !.loops = {[l EXCEPT !.cancelled = @ \/ goes(l)] : l \in t.loops}
                     \cup {[key |-> k, gen |-> config[k], phase |-> "load", runNow |-> FALSE,
                            forced |-> FALSE, cancelled |-> FALSE, id |-> 0] : k \in starts}]

(* A runNow ends the sleep of its loop: the next poll starts, and takes the flag. *)
HandleRunNow(t, k) ==
    [t EXCEPT !.loops = {IF l \in LoopOf(t, k) THEN
                            IF l.phase = "sleep" THEN [l EXCEPT !.phase = "poll", !.forced = TRUE]
                            ELSE [l EXCEPT !.runNow = TRUE]
                         ELSE l : l \in t.loops}]

WorkerReceives ==
    /\ Alive /\ toWorker # <<>> /\ toWorker' = Tail(toWorker) /\ UNCHANGED <<host, taps>>
    /\ LET m == Head(toWorker) IN
        \/ m.type = "configure" /\ thread' = HandleConfigure(thread, m.n) /\ UNCHANGED toHost
        \/ m.type = "ping" /\ RoomToPost /\ Post("pong", 0, 0) /\ UNCHANGED thread
        \/ /\ m.type = "runNow" /\ LoopOf(thread, m.key) # {}
           /\ thread' = HandleRunNow(thread, m.key) /\ UNCHANGED toHost
        \/ /\ m.type = "runNow" /\ LoopOf(thread, m.key) = {} /\ RoomToPost
           /\ Post("error", m.key, TRUE) /\ UNCHANGED thread
        \/ /\ m.type = "fetchResult"
           /\ thread' = [thread EXCEPT !.loops =
                            {IF l.id = m.n THEN [l EXCEPT !.id = 0, !.phase = "poll"] ELSE l
                                : l \in thread.loops}]
           /\ UNCHANGED toHost

LoopStep(l, next) == thread' = Swap(thread, l, next) /\ UNCHANGED <<host, toWorker, taps>>

(* The loop ends: it never reports again. *)
LoopEnds(l) ==
    /\ thread' = [thread EXCEPT !.loops = @ \ {l}]
    /\ UNCHANGED <<host, toWorker, toHost, taps>>

PollStarts(l) == [l EXCEPT !.phase = "poll", !.forced = l.runNow, !.runNow = FALSE]

(* A load that works starts the first poll; a failed one is reported and forgotten by key. *)
Load ==
    Alive /\ \E l \in thread.loops : l.phase = "load" /\
        \/ l.cancelled /\ LoopEnds(l)
        \/ ~l.cancelled /\ LoopStep(l, PollStarts(l)) /\ UNCHANGED toHost
        \/ /\ RoomToPost /\ Post("error", l.key, l.runNow)
           /\ thread' = [thread EXCEPT !.loops = @ \ {l}, !.running[l.key] = 0]
           /\ UNCHANGED <<host, toWorker, taps>>

(* plugin.fetch(ctx): it may use ctx.fetch, and then returns, throws, or finds itself cancelled. *)
Poll ==
    Alive /\ \E l \in thread.loops : l.phase = "poll" /\
        \/ l.cancelled /\ LoopEnds(l)
        \/ /\ ~l.cancelled /\ thread.fetchSeq < MaxFetches /\ RoomToPost
           /\ thread' = [Swap(thread, l, [l EXCEPT !.phase = "fetch", !.id = thread.fetchSeq + 1])
                            EXCEPT !.fetchSeq = @ + 1]
           /\ Post("fetch", l.key, [id |-> thread.fetchSeq + 1, gen |-> l.gen])
           /\ UNCHANGED <<host, toWorker, taps>>
        \/ /\ ~l.cancelled /\ RoomToPost
           /\ \E type \in {"value", "error"} : Post(type, l.key, l.forced)
           /\ LoopStep(l, IF l.runNow THEN PollStarts(l)
                          ELSE [l EXCEPT !.phase = "sleep", !.forced = FALSE])

SleepEnds ==
    Alive /\ \E l \in thread.loops : l.phase = "sleep" /\
        \/ l.cancelled /\ LoopEnds(l)
        \/ ~l.cancelled /\ LoopStep(l, PollStarts(l)) /\ UNCHANGED toHost

(* A plugin that never yields, or takes the whole worker down. *)
Hang ==
    Alive /\ thread' = [thread EXCEPT !.hung = TRUE]
    /\ UNCHANGED <<host, toWorker, toHost, taps>>

Crash ==
    /\ Alive /\ RoomToPost
    /\ Post("crash", 0, 0) /\ thread' = [thread EXCEPT !.hung = TRUE]
    /\ UNCHANGED <<host, toWorker, taps>>

PluginsNext ==
    \/ \E k \in PluginKeys : Request(k) \/ ForceRefresh(k)
    \/ Heartbeat \/ DisposeHost \/ FlightEnds \/ HostReceives
    \/ WorkerReceives \/ Load \/ Poll \/ SleepEnds \/ Hang \/ Crash

PluginsSpec == PluginsInit /\ [][PluginsNext]_pluginVars

-----------------------------------------------------------------------------
(* Properties *)

InTransit(queue, type, key) == \E i \in DOMAIN queue : queue[i].type = type /\ queue[i].key = key

(* A plugin that waits in ctx.fetch is answered: its request is on its way, in flight, or its  *)
(* result is.  A respawned worker counts its ids from 1 again, and the flights of the old one  *)
(* still end: they must not take the new worker's request with them.                           *)
FetchesAreAnswered ==
    \A l \in thread.loops : l.phase = "fetch" =>
        \/ \E i \in DOMAIN toHost : /\ toHost[i].type = "fetch" /\ toHost[i].w = host.worker
                                    /\ toHost[i].n.id = l.id
        \/ \E r \in host.requests : r.id = l.id /\ r.w = host.worker /\ r \in host.flights
        \/ \E i \in DOMAIN toWorker : toWorker[i].type = "fetchResult" /\ toWorker[i].n = l.id

(* A forced refresh is never forgotten: while callbacks wait, the runNow, the poll it forces or *)
(* its report is under way in the worker that took it.                                          *)
TapsAreAnswered ==
    \A k \in PluginKeys :
        LET e == host.entries[k] IN
        /\ e.owed > 0 => e.forcing
        /\ e.forcing =>
             \/ InTransit(toWorker, "runNow", k)
             \/ \E l \in thread.loops : l.key = k /\ (l.runNow \/ l.forced)
             \/ \E i \in DOMAIN toHost : /\ toHost[i].type \in {"value", "error"}
                                         /\ toHost[i].w = host.worker
                                         /\ toHost[i].key = k /\ toHost[i].n = TRUE

(* The worker runs what the host has configured, also after a respawn: there is a worker exactly *)
(* while an entry is enabled, and the last configuration it was or will be given is the current. *)
ConfigReachesWorker ==
    LET sent == SelectSeq(toWorker, LAMBDA m : m.type = "configure")
    IN  /\ host.worker # 0 <=> ActiveEntries(host) # {} /\ ~host.disposed
        /\ host.hbTimer <=> host.worker # 0
        /\ host.worker # 0 /\ sent # <<>> => sent[Len(sent)].n = Config(host)
        /\ host.worker # 0 /\ sent = <<>> =>
             \A k \in PluginKeys : Config(host)[k] # 0 =>
                thread.running[k] \in {0, Config(host)[k]}

(* The host serves its plugins across crashes, hangs and respawns: fetches and forced refreshes *)
(* end, and the worker runs the configuration in force.                                         *)
PluginsAreServed == FetchesAreAnswered /\ TapsAreAnswered /\ ConfigReachesWorker

(* A key has one poll loop that is not cancelled, the one `running' knows, which a later         *)
(* configuration can therefore stop ("poll it until its config is removed").                     *)
LoopsCanBeStopped ==
    \A l \in thread.loops : ~l.cancelled => thread.running[l.key] = l.gen
=============================================================================
