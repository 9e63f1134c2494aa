----------------------------- MODULE ScanWorker -----------------------------
(***************************************************************************)
(* The discovery worker behind every USB sweep: HidScanWorkerHost          *)
(* (worker/hid-scan-worker-host.ts) and its thread                         *)
(* (worker/hid-scan-worker.ts).  One promise per request kind is shared by *)
(* its callers; a worker that errors is replaced and may go on answering   *)
(* what it had already been sent until its deferred terminate.             *)
(*                                                                         *)
(* `unplugs' counts the disconnects that asked for a re-init of the native *)
(* stack; native.epoch is the count the stack, cached for the process,     *)
(* knows of, native.lost that a worker failed on a request to re-init it.  *)
(***************************************************************************)
EXTENDS Integers, Sequences

CONSTANTS
  MaxScanWorkers,   \* bound: workers spawned
  MaxScanCalls,     \* bound: requests posted
  MaxUnplugs        \* bound: disconnects

ScanKinds == {"scan", "inventory"}

VARIABLES
  scanHost,    \* HidScanWorkerHost: current worker, slots, resetPending, disposed
  scanThreads, \* each worker: requests it holds, answers on their way, alive
  native,      \* the native stack's cached enumeration
  unplugs,     \* disconnects so far
  answered     \* the answers callers got

scanVars == <<scanHost, scanThreads, native, unplugs, answered>>

NoCall == 0

ScanInit ==
  /\ scanHost = [current |-> 0, open |-> [k \in ScanKinds |-> NoCall], reset |-> FALSE,
                 disposed |-> FALSE, calls |-> 0]
  /\ scanThreads = <<>>
  /\ native = [epoch |-> 0, lost |-> FALSE]
  /\ unplugs = 0
  /\ answered = {}

NewThread == [inbox |-> <<>>, outbox |-> <<>>, alive |-> TRUE]

\* scan / inventory with an open slot share its promise: no step.  Otherwise a
\* worker is ensured, the slot opened and the request posted.
ScanRequest(k) ==
  /\ ~scanHost.disposed /\ scanHost.open[k] = NoCall
  /\ scanHost.calls < MaxScanCalls
  /\ scanHost.current # 0 \/ Len(scanThreads) < MaxScanWorkers
  /\ LET threads == IF scanHost.current # 0 THEN scanThreads ELSE Append(scanThreads, NewThread)
         w == IF scanHost.current # 0 THEN scanHost.current ELSE Len(threads)
         call == [kind |-> k, id |-> scanHost.calls + 1,
                  reset |-> k = "scan" /\ scanHost.reset, since |-> unplugs]
     IN  /\ scanThreads' = [threads EXCEPT ![w].inbox = Append(@, call)]
         /\ scanHost' = [scanHost EXCEPT !.current = w, !.open[k] = call.id, !.calls = @ + 1,
                                         !.reset = IF k = "scan" THEN FALSE ELSE @]
  /\ UNCHANGED <<native, unplugs, answered>>

\* a dock went away
RequestReset ==
  /\ unplugs < MaxUnplugs
  /\ unplugs' = unplugs + 1
  /\ scanHost' = [scanHost EXCEPT !.reset = TRUE]
  /\ UNCHANGED <<scanThreads, native, answered>>

\* dispose: callers are rejected now, the worker is left alone
DisposeScan ==
  /\ ~scanHost.disposed
  /\ scanHost' = [scanHost EXCEPT !.disposed = TRUE, !.open = [k \in ScanKinds |-> NoCall]]
  /\ UNCHANGED <<scanThreads, native, unplugs, answered>>

\* the worker takes its next request; a reset drops what the native stack cached
WorkerScans(w) ==
  LET t == scanThreads[w]
      call == Head(t.inbox)
  IN  /\ t.alive /\ t.inbox # <<>>
      /\ native' = IF call.reset THEN [epoch |-> unplugs, lost |-> FALSE] ELSE native
      /\ scanThreads' = [scanThreads EXCEPT
           ![w] = [t EXCEPT !.inbox = Tail(@),
                            !.outbox = Append(@, [kind |-> call.kind, id |-> call.id,
                              fresh |-> native'.lost \/ native'.epoch >= call.since])]]
      /\ UNCHANGED <<scanHost, unplugs, answered>>

\* the worker fails on a request: an error event follows what it posted
WorkerThrows(w) ==
  LET t == scanThreads[w]
  IN  /\ t.alive /\ t.inbox # <<>>
      /\ native' = [native EXCEPT !.lost = @ \/ Head(t.inbox).reset]
      /\ scanThreads' = [scanThreads EXCEPT
           ![w] = [t EXCEPT !.inbox = Tail(@), !.outbox = Append(@, [kind |-> "error"])]]
      /\ UNCHANGED <<scanHost, unplugs, answered>>

\* a request to re-init the stack that a retired worker still holds
HoldsReset(w) == \E i \in DOMAIN scanThreads[w].inbox : scanThreads[w].inbox[i].reset

\* terminateDeferred of a replaced worker
ScanTerminate(w) ==
  /\ scanThreads[w].alive /\ scanHost.current # w
  /\ scanThreads' = [scanThreads EXCEPT ![w] = [@ EXCEPT !.alive = FALSE, !.inbox = <<>>, !.outbox = <<>>]]
  /\ native' = [native EXCEPT !.lost = @ \/ HoldsReset(w)]
  /\ UNCHANGED <<scanHost, unplugs, answered>>

\* Mutant: no identity guard
HeardFromAny(w) == TRUE

\* the identity guard: only the current worker's events count
Heard(w) == scanHost.current = w

\* onMessage or the error event
ScanEvent(w) ==
  LET t == scanThreads[w]
      ev == Head(t.outbox)
  IN  /\ t.outbox # <<>>
      /\ scanThreads' = [scanThreads EXCEPT ![w].outbox = Tail(@)]
      /\ IF ~Heard(w) THEN UNCHANGED <<scanHost, native, answered>>
         ELSE IF ev.kind = "error" THEN
           /\ scanHost' = [scanHost EXCEPT !.current = 0, !.open = [k \in ScanKinds |-> NoCall]]
           /\ native' = [native EXCEPT !.lost = @ \/ HoldsReset(w)]
           /\ UNCHANGED answered
         ELSE
           /\ scanHost' = [scanHost EXCEPT !.open[ev.kind] = NoCall]
           /\ answered' = IF scanHost.disposed THEN answered
                ELSE answered \cup {[kind |-> ev.kind, asked |-> scanHost.open[ev.kind],
                                     got |-> ev.id, fresh |-> ev.fresh]}
           /\ UNCHANGED native
      /\ UNCHANGED unplugs

ScanNext ==
  \/ \E k \in ScanKinds : ScanRequest(k)
  \/ RequestReset
  \/ DisposeScan
  \/ \E w \in DOMAIN scanThreads : WorkerScans(w) \/ WorkerThrows(w) \/ ScanTerminate(w) \/ ScanEvent(w)

ScanSpec == ScanInit /\ [][ScanNext]_scanVars

-----------------------------------------------------------------------------
\* A sweep's answer is the one of its own request, across replaced workers, and
\* shows the bus as of after every disconnect known when it was posted, unless the
\* worker that was asked to re-init the native stack failed.
ScansAreOwnAndFresh ==
  \A a \in answered : a.asked = a.got /\ (a.kind = "scan" => a.fresh)
=============================================================================
