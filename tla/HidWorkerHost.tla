---------------------------- MODULE HidWorkerHost ----------------------------
(***************************************************************************)
(* One USB driver as the main thread sees it (class WorkerHidDriver of     *)
(* worker/hid-worker-host.ts) together with the worker threads it spawns   *)
(* (worker/hid-worker.ts) and the CORA session whose frames it renders.    *)
(*                                                                         *)
(* The driver spawns a worker on open(), talks to it through two FIFO      *)
(* message ports, gives up on an open or a close that takes too long, and  *)
(* terminates workers only by timer.  A worker that hangs in a native call *)
(* takes no further step; a driver may outlive several workers.  The work  *)
(* queue is HidWorkQueue; this module adds the suspension protocol that    *)
(* starts when the queue rejects a message.                                *)
(***************************************************************************)
EXTENDS HidWorkQueue

CONSTANTS
    Workers,       \* the threads this driver may spawn: 1..n, spawned in order
    NoWorker,      \* worker = null, closing = null
    WorkMessages,  \* what the dock may submit: records [kind, key, bytes, local, patch]
    MaxOpens,      \* bound: calls of open()
    MaxPosts,      \* bound: ids the queue hands out
    PostMayFail    \* may postMessage throw?

ASSUME HostAssumption ==
    /\ Workers \subseteq Nat
    /\ NoWorker \notin Workers
    /\ MaxOpens \in Nat
    /\ MaxPosts \in Nat
    /\ PostMayFail \in BOOLEAN
    /\ \A m \in WorkMessages :
         /\ m.kind \in {"image", "touch", "control"}
         /\ m.bytes \in 0..PostedBytes
         /\ m.local \in BOOLEAN /\ m.patch \in BOOLEAN
         /\ m.local => m.kind = "image"    \* only sendSplashImage() is local

VARIABLES
    \* the driver object
    worker,          \* this.worker
    openReq,         \* the open() call whose promise is pending (its timer runs), 0 if none
    closing,         \* the worker of the close in flight (its timer runs)
    orphans,         \* workers whose close timed out
    terminating,     \* w -> why a terminate() timer runs for it, "no" if none does
    coraSuspended, localSuspended, needStripBase,
    \* the worker threads
    thread,          \* w -> life cycle of the thread
    port,            \* w -> messages a detached worker has yet to take (the current
                     \*      worker's are in toWorker)
    job,             \* w -> the message the worker is handling, Idle if none
    handle,          \* w -> does it hold the native HID handle?
    answers,         \* w -> messages it posted, not yet received by the driver
    \* callers and the CORA session
    client,          \* the CORA child's TCP client
    opens,           \* n -> outcome of the nth open() call
    openedOk,        \* history: the open() calls whose native open succeeded
    closeOf,         \* history: w -> outcome of the close() that was meant for it
    stripLost        \* history: a strip frame was refused and no full one handed to the
                     \*          queue since (a post that throws is not a refusal)

hostVars == <<worker, openReq, closing, orphans, terminating>>
flagVars == <<coraSuspended, localSuspended, needStripBase>>
threadVars == <<thread, port, job, handle, answers>>
ledgerVars == <<client, opens, openedOk, closeOf, stripLost>>
vars == <<queueVars, toWorker, hostVars, flagVars, threadVars, ledgerVars>>

Idle == [id |-> 0, msg |-> [kind |-> "idle"]]
OpenMsg(n) == [id |-> 0, msg |-> [kind |-> "open", call |-> n]]
CloseMsg == [id |-> 0, msg |-> [kind |-> "close"]]

Init ==
    /\ InitQueue
    /\ worker = NoWorker /\ openReq = 0 /\ closing = NoWorker /\ orphans = {}
    /\ terminating = [w \in Workers |-> "no"]
    /\ coraSuspended = FALSE /\ localSuspended = FALSE /\ needStripBase = FALSE
    /\ thread = [w \in Workers |-> "unborn"]
    /\ port = [w \in Workers |-> << >>]
    /\ job = [w \in Workers |-> Idle]
    /\ handle = [w \in Workers |-> FALSE]
    /\ answers = [w \in Workers |-> << >>]
    /\ client = "none" /\ opens = << >> /\ openedOk = {} /\ stripLost = FALSE
    /\ closeOf = [w \in Workers |-> "none"]

-----------------------------------------------------------------------------
(* Pieces of the driver's methods. *)

ResetGeneration ==
    /\ Reset
    /\ coraSuspended' = FALSE /\ localSuspended' = FALSE /\ needStripBase' = FALSE
    /\ stripLost' = FALSE

(* settleOpen(): settle the pending open, if there is one. *)
SettleOpen(outcome) ==
    /\ opens' = IF openReq = 0 THEN opens ELSE [opens EXCEPT ![openReq] = outcome]
    /\ openReq' = 0

(* detachWorker(): forget the worker; what it has not taken stays in its port. *)
DetachWorker ==
    /\ worker' = NoWorker
    /\ port' = [port EXCEPT ![worker] = toWorker]
    /\ toWorker' = << >>
    /\ ResetGeneration

(* cleanupWorker(): detach, and terminate it by timer. *)
CleanupWorker(why) ==
    /\ DetachWorker
    /\ terminating' = [terminating EXCEPT ![worker] = why]

(* finishClose(): resolve the close in flight, if there is one. *)
FinishClose ==
    /\ closeOf' = IF closing = NoWorker THEN closeOf ELSE [closeOf EXCEPT ![closing] = "resolved"]
    /\ closing' = NoWorker

-----------------------------------------------------------------------------
(* Calls of the driver. *)

(* The callers' discipline: open() is called on a driver that is not open. *)
LastOpen == IF opens = << >> THEN "none" ELSE opens[Len(opens)]
NotOpen == worker = NoWorker \/ LastOpen = "failed"

OpenIgnoringClose ==
    /\ openReq = 0 /\ NotOpen /\ Len(opens) < MaxOpens
    /\ worker' \in IF worker = NoWorker
                   THEN {w \in Workers : thread[w] = "unborn" /\ \A v \in Workers :
                                           v < w => thread[v] # "unborn"}
                   ELSE {worker}
    /\ thread' = [thread EXCEPT ![worker'] = IF @ = "unborn" THEN "loading" ELSE @]
    /\ ResetGeneration
    /\ opens' = Append(opens, "pending")
    /\ openReq' = Len(opens) + 1
    /\ toWorker' = Append(toWorker, OpenMsg(Len(opens) + 1))
    /\ UNCHANGED <<closing, orphans, terminating, port, job, handle, answers, client, openedOk,
                   closeOf>>

(* open(): refused while an open or a close is in flight.  A failed open keeps its
   worker, which the next open reuses; otherwise a worker is spawned. *)
Open ==
    /\ openReq = 0 /\ closing = NoWorker /\ NotOpen /\ Len(opens) < MaxOpens
    /\ worker' \in IF worker = NoWorker
                   THEN {w \in Workers : thread[w] = "unborn" /\ \A v \in Workers :
                                           v < w => thread[v] # "unborn"}
                   ELSE {worker}
    /\ thread' = [thread EXCEPT ![worker'] = IF @ = "unborn" THEN "loading" ELSE @]
    /\ ResetGeneration
    /\ opens' = Append(opens, "pending")
    /\ openReq' = Len(opens) + 1
    /\ toWorker' = Append(toWorker, OpenMsg(Len(opens) + 1))
    /\ UNCHANGED <<closing, orphans, terminating, port, job, handle, answers, client, openedOk,
                   closeOf>>

(* The open timer: reject, forget the worker and terminate it. *)
OpenTimeout ==
    /\ openReq # 0
    /\ SettleOpen("failed")
    /\ CleanupWorker("openFailed")
    /\ UNCHANGED <<closing, orphans, thread, job, handle, answers, client, openedOk, closeOf>>

(* close(): with a worker and no close in flight yet (later callers share its promise). *)
Close ==
    /\ worker # NoWorker /\ closing = NoWorker
    /\ SettleOpen("failed")
    /\ ResetGeneration
    /\ closing' = worker
    /\ closeOf' = [closeOf EXCEPT ![worker] = "pending"]
    /\ toWorker' = Append(toWorker, CloseMsg)
    /\ UNCHANGED <<worker, orphans, terminating, threadVars, client, openedOk>>

CloseTimeoutForgetting ==
    /\ closing # NoWorker
    /\ DetachWorker
    /\ closing' = NoWorker
    /\ closeOf' = [closeOf EXCEPT ![closing] = "rejected"]
    /\ UNCHANGED <<orphans, openReq, terminating, thread, job, handle, answers, client, opens,
                   openedOk>>

CloseTimeoutWhileRunning ==
    /\ closing # NoWorker /\ thread[closing] = "running"
    /\ DetachWorker
    /\ orphans' = orphans \cup {closing}
    /\ closing' = NoWorker
    /\ closeOf' = [closeOf EXCEPT ![closing] = "rejected"]
    /\ UNCHANGED <<openReq, terminating, thread, job, handle, answers, client, opens, openedOk>>

(* onCloseTimeout(): detach without terminating; the worker becomes an orphan. *)
CloseTimeout ==
    /\ closing # NoWorker
    /\ DetachWorker
    /\ orphans' = orphans \cup {closing}
    /\ closing' = NoWorker
    /\ closeOf' = [closeOf EXCEPT ![closing] = "rejected"]
    /\ UNCHANGED <<openReq, terminating, thread, job, handle, answers, client, opens, openedOk>>

(* The timer of terminateDeferred(). *)
Terminate(w) ==
    /\ terminating[w] # "no"
    /\ thread[w] # "terminated"
    /\ thread' = [thread EXCEPT ![w] = "terminated"]
    /\ UNCHANGED <<queueVars, toWorker, hostVars, flagVars, port, job, handle, answers, ledgerVars>>

-----------------------------------------------------------------------------
(* submit() and what calls it. *)

Attached == worker # NoWorker /\ LastOpen = "ok"

IsSuspended(m) ==
    m.kind # "control" /\ (IF m.local THEN localSuspended ELSE coraSuspended)

(* renderTouchImage(): a patch needs the full frame it lands on. *)
AwaitsBase(m) == needStripBase /\ m.kind = "touch" /\ m.patch

(* onOverload(): suspend; the first CORA or control overload drops the CORA client
   (Dock wires 'overload' to child.dropClient(), which only acts on a live client). *)
OnOverload(local) ==
    /\ localSuspended' = TRUE
    /\ coraSuspended' = (coraSuspended \/ ~local)
    /\ client' = IF ~local /\ ~coraSuspended /\ client = "up" THEN "dropping" ELSE client

(* renderCoraImage(), sendSplashImage(), renderTouchImage() and the control methods,
   for a message that reaches the work queue.  A full strip frame ends the wait for one
   before it is known to be admitted. *)
Submit(m) ==
    /\ Attached /\ closing = NoWorker
    /\ nextId <= MaxPosts
    /\ ~AwaitsBase(m) /\ ~IsSuspended(m)
    /\ needStripBase' = (needStripBase /\ m.kind # "touch")
    /\ \/ /\ SubmitPosted(m) \/ SubmitWaiting(m) \/ (PostMayFail /\ SubmitFailed(m))
          /\ stripLost' = (stripLost /\ ~(m.kind = "touch" /\ ~m.patch))
          /\ UNCHANGED <<coraSuspended, localSuspended, client>>
       \/ /\ SubmitRejected(m)
          /\ OnOverload(m.local)
          /\ stripLost' = (stripLost \/ m.kind = "touch")
    /\ UNCHANGED <<hostVars, threadVars, opens, openedOk, closeOf>>

(* The same calls for a message that is dropped before the queue.  (With no worker or
   during a close nothing changes at all.) *)
SubmitDropped(m) ==
    /\ Attached /\ closing = NoWorker
    /\ AwaitsBase(m) \/ IsSuspended(m)
    /\ needStripBase' = (needStripBase /\ (m.kind # "touch" \/ m.patch))
    /\ stripLost' = (stripLost \/ m.kind = "touch")
    /\ UNCHANGED <<queueVars, toWorker, hostVars, coraSuspended, localSuspended, threadVars, client,
                   opens, openedOk, closeOf>>

-----------------------------------------------------------------------------
(* The CORA session: the child server's client comes and goes. *)

ResumeImagesWithoutBase ==
    coraSuspended' = FALSE /\ UNCHANGED needStripBase

(* resumeImages(): lift the CORA suspension; strip patches wait for a full frame. *)
ResumeImages ==
    IF coraSuspended
    THEN coraSuspended' = FALSE /\ needStripBase' = TRUE
    ELSE UNCHANGED <<coraSuspended, needStripBase>>

(* 'clientConnected', at first or by taking over: Dock.onElgatoAttached().  With no open
   driver attached there is no suspension to lift. *)
ClientConnects ==
    /\ client \in {"none", "dropping"}
    /\ client' = "up"
    /\ ResumeImages
    /\ UNCHANGED <<queueVars, toWorker, hostVars, localSuspended, threadVars, opens, openedOk,
                   closeOf, stripLost>>

(* 'clientDisconnected': the close event of a dropped client, or the app went away. *)
ClientGone ==
    /\ client # "none"
    /\ client' = "none"
    /\ UNCHANGED <<queueVars, toWorker, hostVars, flagVars, threadVars, opens, openedOk, closeOf,
                   stripLost>>

-----------------------------------------------------------------------------
(* onWorkerMessage(): one message from a worker. *)

Receives(w, type) ==
    /\ answers[w] # << >>
    /\ Head(answers[w]).type = type
    /\ answers' = [answers EXCEPT ![w] = Tail(@)]

OnOpened(w) ==
    /\ Receives(w, "opened") /\ w = worker
    /\ SettleOpen(IF Head(answers[w]).ok THEN "ok" ELSE "failed")
    /\ UNCHANGED <<queueVars, toWorker, worker, closing, orphans, terminating, flagVars, thread, port,
                   job, handle, client, openedOk, closeOf, stripLost>>

OnWorkDoneKeepingSuspension(w) ==
    /\ Receives(w, "workDone") /\ w = worker
    /\ Complete(Head(answers[w]).ids)
    /\ localSuspended' =
         (localSuspended /\ ~(waiting = << >> /\ waiting' = << >> /\ DOMAIN posted' = {}))
    /\ UNCHANGED <<hostVars, coraSuspended, needStripBase, thread, port, job, handle, ledgerVars>>

(* 'workDone': return the credits; once the queue is empty the local producers resume
   ('imagesDrained'; what the dock then repaints are further Submit steps). *)
OnWorkDone(w) ==
    /\ Receives(w, "workDone") /\ w = worker
    /\ IF PostMayFail THEN Complete(Head(answers[w]).ids)
       ELSE \E n \in 0..Len(waiting) : CompleteWith(Head(answers[w]).ids, n, {})
    /\ localSuspended' =
         (localSuspended /\ ~( /\ Released(Head(answers[w]).ids) # {}
                               /\ waiting' = << >> /\ DOMAIN posted' = {}
                               /\ closing = NoWorker ))
    /\ UNCHANGED <<hostVars, coraSuspended, needStripBase, thread, port, job, handle, ledgerVars>>

(* 'disconnect': the device is gone.  The grace delay lets a native call finish. *)
OnDisconnect(w) ==
    /\ Receives(w, "disconnect") /\ w = worker
    /\ CleanupWorker("unplugged")
    /\ FinishClose
    /\ UNCHANGED <<openReq, orphans, thread, job, handle, client, opens, openedOk>>

(* 'closed': the worker has released its handle. *)
OnClosed(w) ==
    /\ Receives(w, "closed") /\ w = worker
    /\ CleanupWorker("closed")
    /\ FinishClose
    /\ UNCHANGED <<openReq, orphans, thread, job, handle, client, opens, openedOk>>

(* The worker's 'error' event (its script failed to load): an open in flight fails;
   otherwise it is only reported. *)
OnWorkerError(w) ==
    /\ Receives(w, "scriptError") /\ w = worker
    /\ IF openReq # 0
       THEN SettleOpen("failed") /\ CleanupWorker("openFailed")
       ELSE UNCHANGED <<queueVars, toWorker, worker, openReq, opens, terminating, flagVars, port,
                        stripLost>>
    /\ UNCHANGED <<closing, orphans, thread, job, handle, client, openedOk, closeOf>>

(* onOrphanMessage(): a detached worker is ignored, except that the late 'closed' of a
   timed-out close makes it safe to terminate. *)
OnOrphanMessage(w) ==
    /\ w # worker /\ answers[w] # << >>
    /\ answers' = [answers EXCEPT ![w] = Tail(@)]
    /\ IF Head(answers[w]).type = "closed" /\ w \in orphans
       THEN /\ orphans' = orphans \ {w}
            /\ terminating' = [terminating EXCEPT ![w] = "closed"]
       ELSE UNCHANGED <<orphans, terminating>>
    /\ UNCHANGED <<queueVars, toWorker, worker, openReq, closing, flagVars, thread, port, job, handle,
                   ledgerVars>>

DriverReceives(w) ==
    \/ OnOpened(w) \/ OnWorkDone(w) \/ OnDisconnect(w) \/ OnClosed(w) \/ OnWorkerError(w)
    \/ OnOrphanMessage(w)

-----------------------------------------------------------------------------
(* The worker threads.  Messages are handled one at a time, in order (the promise
   chain "queue" of hid-worker.ts). *)

Inbox(w) == IF w = worker THEN toWorker ELSE port[w]

Post(w, answer) == answers' = [answers EXCEPT ![w] = Append(@, answer)]

ThreadStep == UNCHANGED <<queueVars, hostVars, flagVars, client, opens, closeOf, stripLost>>

WorkerLoads(w) ==
    /\ thread[w] = "loading"
    /\ thread' = [thread EXCEPT ![w] = "running"]
    /\ ThreadStep /\ UNCHANGED <<toWorker, port, job, handle, answers, openedOk>>

WorkerFailsToLoad(w) ==
    /\ thread[w] = "loading"
    /\ thread' = [thread EXCEPT ![w] = "broken"]
    /\ Post(w, [type |-> "scriptError"])
    /\ ThreadStep /\ UNCHANGED <<toWorker, port, job, handle, openedOk>>

WorkerTakes(w) ==
    /\ thread[w] = "running" /\ job[w] = Idle /\ Inbox(w) # << >>
    /\ job' = [job EXCEPT ![w] = Head(Inbox(w))]
    /\ IF w = worker THEN toWorker' = Tail(toWorker) /\ UNCHANGED port
                     ELSE port' = [port EXCEPT ![w] = Tail(@)] /\ UNCHANGED toWorker
    /\ ThreadStep /\ UNCHANGED <<thread, handle, answers, openedOk>>

(* handleOpen(): the native open succeeds or fails. *)
WorkerOpened(w, ok) ==
    /\ thread[w] = "running" /\ job[w].msg.kind = "open"
    /\ job' = [job EXCEPT ![w] = Idle]
    /\ handle' = [handle EXCEPT ![w] = ok]
    /\ openedOk' = IF ok THEN openedOk \cup {job[w].msg.call} ELSE openedOk
    /\ Post(w, [type |-> "opened", ok |-> ok])
    /\ ThreadStep /\ UNCHANGED <<thread, toWorker, port>>

(* The 'close' case of handle(): release the handle, then answer. *)
WorkerClosed(w) ==
    /\ thread[w] = "running" /\ job[w].msg.kind = "close"
    /\ job' = [job EXCEPT ![w] = Idle]
    /\ handle' = [handle EXCEPT ![w] = FALSE]
    /\ Post(w, [type |-> "closed"])
    /\ ThreadStep /\ UNCHANGED <<thread, toWorker, port, openedOk>>

WorkerWorkedSilently(w) ==
    /\ thread[w] = "running" /\ job[w].msg.kind \in {"image", "touch", "control"}
    /\ job' = [job EXCEPT ![w] = Idle]
    /\ IF handle[w] THEN Post(w, [type |-> "workDone", ids |-> {job[w].id}]) ELSE UNCHANGED answers
    /\ ThreadStep /\ UNCHANGED <<thread, toWorker, port, handle, openedOk>>

(* Any other message: done, skipped (no device) or failed, its credit is returned. *)
WorkerWorked(w) ==
    /\ thread[w] = "running" /\ job[w].msg.kind \in {"image", "touch", "control"}
    /\ job' = [job EXCEPT ![w] = Idle]
    /\ Post(w, [type |-> "workDone", ids |-> {job[w].id}])
    /\ ThreadStep /\ UNCHANGED <<thread, toWorker, port, handle, openedOk>>

(* The read loop, a timer that runs between messages and while a batch of images awaits
   its writes: a negative read releases the handle and reports the disconnect. *)
WorkerUnplugged(w) ==
    /\ thread[w] = "running" /\ job[w].msg.kind \notin {"open", "close"} /\ handle[w]
    /\ handle' = [handle EXCEPT ![w] = FALSE]
    /\ Post(w, [type |-> "disconnect"])
    /\ ThreadStep /\ UNCHANGED <<thread, toWorker, port, job, openedOk>>

WorkerSteps(w) ==
    \/ WorkerLoads(w) \/ WorkerTakes(w)
    \/ \E ok \in BOOLEAN : WorkerOpened(w, ok)
    \/ WorkerClosed(w) \/ WorkerWorked(w)

-----------------------------------------------------------------------------
Next ==
    \/ Open \/ OpenTimeout \/ Close \/ CloseTimeout
    \/ \E m \in WorkMessages : Submit(m) \/ SubmitDropped(m)
    \/ ClientConnects \/ ClientGone
    \/ \E w \in Workers :
         \/ Terminate(w)
         \/ DriverReceives(w)
         \/ WorkerSteps(w) \/ WorkerFailsToLoad(w) \/ WorkerUnplugged(w)

(* The main thread's event loop runs its timers and delivers messages whatever the
   workers do. *)
MainFairness ==
    /\ WF_vars(OpenTimeout) /\ WF_vars(CloseTimeout)
    /\ \A w \in Workers : WF_vars(DriverReceives(w)) /\ WF_vars(Terminate(w))

Spec == Init /\ [][Next]_vars /\ MainFairness

(* No native call hangs for ever, and the app reconnects after a drop.  Not part of the
   specification: only the properties that need it assume it. *)
WorkersRun ==
    /\ \A w \in Workers : WF_vars(WorkerSteps(w))
    /\ WF_vars(ClientConnects)

-----------------------------------------------------------------------------
HostTypeOK ==
    /\ worker \in Workers \cup {NoWorker} /\ closing \in Workers \cup {NoWorker}
    /\ openReq \in 0..Len(opens) /\ orphans \subseteq Workers
    /\ terminating \in [Workers -> {"no", "closed", "openFailed", "unplugged"}]
    /\ coraSuspended \in BOOLEAN /\ localSuspended \in BOOLEAN /\ needStripBase \in BOOLEAN
    /\ thread \in [Workers -> {"unborn", "loading", "running", "broken", "terminated"}]
    /\ DOMAIN port = Workers /\ DOMAIN job = Workers /\ DOMAIN answers = Workers
    /\ handle \in [Workers -> BOOLEAN]
    /\ client \in {"none", "up", "dropping"}
    /\ opens \in Seq({"pending", "ok", "failed"}) /\ openedOk \subseteq DOMAIN opens
    /\ closeOf \in [Workers -> {"none", "pending", "resolved", "rejected"}]
    /\ stripLost \in BOOLEAN

(* An open() call resolves only if its own native open succeeded: the answer to an open
   that was given up (closed or timed out) is never taken for the answer to a later one,
   although 'opened' does not say which call it answers. *)
OpenAnswersItsCall == \A n \in DOMAIN opens : opens[n] = "ok" => n \in openedOk

(* A close() that resolves has released the native handle, also when the device is
   unplugged while the close is in flight. *)
CloseReleasesHandle == \A w \in Workers : closeOf[w] = "resolved" => ~handle[w]

(* No thread is abandoned: one the driver has let go of will be terminated, or still
   owes the 'closed' that gets it terminated. *)
NoWorkerAbandoned ==
    \A w \in Workers :
      thread[w] \in {"loading", "running"} /\ w # worker =>
        \/ terminating[w] # "no"
        \/ /\ w \in orphans
           /\ \/ CloseMsg \in {port[w][i] : i \in DOMAIN port[w]}
              \/ job[w].msg.kind = "close"
              \/ [type |-> "closed"] \in {answers[w][i] : i \in DOMAIN answers[w]}

(* A worker terminated after it said 'closed', early or late, is idle: it holds no
   handle, handles nothing and has nothing left to take, so terminate() cannot hit a
   native call. *)
GracefulTerminateIsIdle ==
    \A w \in Workers :
      terminating[w] = "closed" => job[w] = Idle /\ Inbox(w) = << >> /\ ~handle[w]

(* Whatever way the driver lets go of a worker, its handle is released and its thread ends
   without being cut off inside a native call. *)
LetGoIsClean == CloseReleasesHandle /\ NoWorkerAbandoned /\ GracefulTerminateIsIdle

(* No credit is lost: what the queue counts as posted is on its way to the current
   worker, in its hands, or acknowledged in a message on its way back.  It holds across
   failed opens, closes and unplugs, whose late acknowledgements belong to nobody. *)
PostedIsInFlight ==
    \A id \in DOMAIN posted :
      /\ worker # NoWorker
      /\ \/ id \in {toWorker[i].id : i \in DOMAIN toWorker}
         \/ job[worker] # Idle /\ job[worker].id = id
         \/ \E i \in DOMAIN answers[worker] :
              answers[worker][i].type = "workDone" /\ id \in answers[worker][i].ids

(* Types, and a message or an acknowledgement behind every credit. *)
CreditsInFlight == HostTypeOK /\ PostedIsInFlight

(* After a strip frame was refused (over budget, or dropped while suspended), patches are
   refused until the queue is handed a full frame again: an overload never leaves a patch
   on a strip that missed an update.  (A full frame whose postMessage throws counts as
   handed over, as in the code: the patches after it land on the strip as it was.) *)
StripPatchHasBase == stripLost => coraSuspended \/ needStripBase

(* Every open() settles, although its worker may hang for ever. *)
OpenSettles == \A n \in 1..MaxOpens : (openReq = n) ~> (openReq # n)

(* Every close() settles, although its worker may hang for ever. *)
CloseSettles == \A w \in Workers : (closing = w) ~> (closing # w)

(* No caller of the driver waits for ever. *)
CallsSettle == OpenSettles /\ CloseSettles

(* A pause of the local producers ends, if the workers run. *)
LocalImagesResume == WorkersRun => (localSuspended ~> ~localSuspended)

(* A worker answers the call it was opened for, and is let go with nothing left in it. *)
WorkersKeepTheirPlace == OpenAnswersItsCall /\ LetGoIsClean
=============================================================================
