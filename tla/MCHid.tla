------------------------------- MODULE MCHid -------------------------------
(* TLC instance of both ends of the USB worker's port: the main thread's queue with its
   abstract worker, and the worker thread's batching.  The two share no state, so one
   exploration serves both: part says which end a behaviour moves, the other rests. *)
EXTENDS HidWorkQueueSystem, HidWorkerBatch

VARIABLE part

hidVars == <<vars, batchVars, part>>

HidInit == Init /\ BatchInit /\ part \in {"queue", "thread"}

HidNext ==
    \/ part = "queue" /\ Next /\ UNCHANGED <<batchVars, part>>
    \/ part = "thread" /\ BatchNext /\ UNCHANGED <<vars, part>>

HidSpec == HidInit /\ [][HidNext]_hidVars /\ Fairness /\ BatchFairness

CONSTANTS k1, k2

(* Both ends of the port keep their books: the queue's budgets, credits and order, and the
   thread's batch window, which always closes. *)
PortConsistent == WorkReachesWorker /\ WindowConsistent
=============================================================================
