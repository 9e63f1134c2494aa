---------------------------- MODULE HidWorkQueue ----------------------------
(***************************************************************************)
(* The host-side admission queue of one USB worker (class HidWorkQueue of  *)
(* worker/hid-work-queue-host.ts).  It bounds what is posted to the worker *)
(* but not yet acknowledged and what waits on the main thread.             *)
(*                                                                         *)
(* This module holds the queue's state and its operations as actions; who  *)
(* calls them is the business of the modules that extend it                *)
(* (HidWorkQueueSystem, HidWorkerHost).  Every operation is one atomic     *)
(* step: the class is synchronous code on the main thread.                 *)
(*                                                                         *)
(* A message is a record [seq, kind, key, bytes]: seq identifies the       *)
(* submission, key is the coalesce key (NoKey when there is none), bytes   *)
(* the payload size.  The statistics counters are left out.                *)
(***************************************************************************)
EXTENDS Integers, Sequences, FiniteSets

CONSTANTS
    PostedCount,     \* WorkBudgets: posted, not yet acknowledged messages
    PostedBytes,     \*              and their payload bytes
    PendingCount,    \*              messages waiting on the main thread
    PendingBytes,    \*              and their payload bytes
    ControlReserve,  \*              waiting slots only control messages may use
    NoKey            \* the coalesce key of a message that has none

ASSUME BudgetsAssumption ==
    /\ PostedCount \in Nat \ {0}
    /\ PostedBytes \in Nat
    /\ PendingCount \in Nat
    /\ PendingBytes \in Nat
    /\ ControlReserve \in Nat

VARIABLES
    nextId,        \* the id the next post uses; never reused, not even by Reset
    posted,        \* id -> bytes of every message posted and not acknowledged
    postedBytes,   \* running total of posted
    waiting,       \* messages waiting for posting capacity, oldest first
    waitingBytes,  \* running total of waiting
    toWorker       \* what send() has handed to the worker's message port

queueVars == <<nextId, posted, postedBytes, waiting, waitingBytes>>

-----------------------------------------------------------------------------
(***************************************************************************)
(* The payload bytes of a family of messages, f being id -> bytes: the     *)
(* number of byte tokens <<id, b>>.  Written as a cardinality rather than  *)
(* as a recursive sum so that the proofs can reason about it.              *)
(***************************************************************************)
ByteTokens(f) == UNION { {i} \X (1..f[i]) : i \in DOMAIN f }
Weight(f) == Cardinality(ByteTokens(f))

(* The one-entry map id -> bytes, and two maps with no id in common as one. *)
Entry(id, bytes) == [i \in {id} |-> bytes]
Merge(f, g) == [i \in DOMAIN f \cup DOMAIN g |-> IF i \in DOMAIN f THEN f[i] ELSE g[i]]

WaitingWeight == Weight([i \in DOMAIN waiting |-> waiting[i].bytes])

InitQueue ==
    /\ nextId = 1
    /\ posted = << >>
    /\ postedBytes = 0
    /\ waiting = << >>
    /\ waitingBytes = 0
    /\ toWorker = << >>

(* Nothing posted and nothing waiting. *)
IsEmpty == DOMAIN posted = {} /\ waiting = << >>

FitsBesideOffByOne(n, b, bytes) == n <= PostedCount /\ b + bytes <= PostedBytes
FitsBesideStrict(n, b, bytes) == n < PostedCount /\ b + bytes < PostedBytes

(* Would one more message of this size fit, given n posted messages of b bytes in all? *)
FitsBeside(n, b, bytes) == n < PostedCount /\ b + bytes <= PostedBytes

FitsPosted(bytes) == FitsBeside(Cardinality(DOMAIN posted), postedBytes, bytes)

Sent(m, id) == [id |-> id, msg |-> m]

SupersededIndexNoBarrier(key) ==
    LET match == {i \in DOMAIN waiting : waiting[i].key = key}
    IN  IF key = NoKey \/ match = {} THEN 0
        ELSE CHOOSE i \in match : \A j \in match : j <= i

(***************************************************************************)
(* The index of the waiting message that a new image with this key         *)
(* replaces, 0 if none: the last one with the key, provided that only      *)
(* complete images stand behind it (a touch frame or a control message is  *)
(* a barrier).                                                             *)
(***************************************************************************)
SupersededIndex(key) ==
    LET run == {i \in DOMAIN waiting :
                  \A j \in i..Len(waiting) : waiting[j].kind = "image"}
        match == {i \in run : waiting[i].key = key}
    IN  IF key = NoKey \/ match = {} THEN 0
        ELSE CHOOSE i \in match : \A j \in match : j <= i

(* The waiting list, and its bytes, without the superseded message. *)
Without(i) ==
    IF i = 0 THEN waiting
    ELSE SubSeq(waiting, 1, i - 1) \o SubSeq(waiting, i + 1, Len(waiting))

FreedBytes(i) == IF i = 0 THEN 0 ELSE waiting[i].bytes

CountLimitNoReserve(m) == PendingCount
CountLimit(m) == PendingCount + (IF m.kind = "control" THEN ControlReserve ELSE 0)

-----------------------------------------------------------------------------
(* submit(): nothing waits ahead and the message fits, so it is posted now. *)
CanPostNow(m) == waiting = << >> /\ FitsPosted(m.bytes)

SubmitPosted(m) ==
    /\ m.bytes <= PostedBytes
    /\ CanPostNow(m)
    /\ nextId' = nextId + 1
    /\ posted' = Merge(posted, Entry(nextId, m.bytes))
    /\ postedBytes' = postedBytes + m.bytes
    /\ toWorker' = Append(toWorker, Sent(m, nextId))
    /\ UNCHANGED <<waiting, waitingBytes>>

(* submit(): as SubmitPosted, but postMessage throws: the credit is given back,
   the id is used up. *)
SubmitFailed(m) ==
    /\ m.bytes <= PostedBytes
    /\ CanPostNow(m)
    /\ nextId' = nextId + 1
    /\ UNCHANGED <<posted, postedBytes, waiting, waitingBytes, toWorker>>

(* Is there room on the main thread, once a superseded message is gone? *)
FitsWaiting(m) ==
    LET i == SupersededIndex(m.key)
    IN  /\ Len(Without(i)) < CountLimit(m)
        /\ waitingBytes - FreedBytes(i) + m.bytes <= PendingBytes

(* submit(): the message waits, at the back, in place of the one it supersedes
   (admissions 'queued' and 'coalesced'). *)
SubmitWaiting(m) ==
    /\ m.bytes <= PostedBytes
    /\ ~CanPostNow(m)
    /\ FitsWaiting(m)
    /\ LET i == SupersededIndex(m.key)
       IN  /\ waiting' = Append(Without(i), m)
           /\ waitingBytes' = waitingBytes - FreedBytes(i) + m.bytes
    /\ UNCHANGED <<nextId, posted, postedBytes, toWorker>>

(* submit(): over budget.  The queue does not change. *)
IsRejected(m) ==
    \/ m.bytes > PostedBytes
    \/ ~CanPostNow(m) /\ ~FitsWaiting(m)

SubmitRejected(m) == IsRejected(m) /\ UNCHANGED <<queueVars, toWorker>>

-----------------------------------------------------------------------------
(***************************************************************************)
(* drain(): post from the front while the head fits.  kept is posted after *)
(* the acknowledged ids are gone.  n is how many leave the waiting list    *)
(* and bad which of them postMessage throws for: those use an id up, get   *)
(* their credit back and are gone.                                         *)
(***************************************************************************)
DrainedPosts(n, bad) ==
    [id \in {nextId + i - 1 : i \in (1..n) \ bad} |-> waiting[id - nextId + 1].bytes]

HeadFits(kept, keptBytes, i, bad) ==
    FitsBeside(Cardinality(DOMAIN kept) + Cardinality((1..(i - 1)) \ bad),
               keptBytes + Weight(DrainedPosts(i - 1, bad)),
               waiting[i].bytes)

Drain(kept, keptBytes, n, bad) ==
    /\ \A i \in 1..n : HeadFits(kept, keptBytes, i, bad)
    /\ n < Len(waiting) => ~HeadFits(kept, keptBytes, n + 1, bad)
    /\ posted' = Merge(kept, DrainedPosts(n, bad))
    /\ postedBytes' = keptBytes + Weight(DrainedPosts(n, bad))
    /\ nextId' = nextId + n
    /\ waiting' = SubSeq(waiting, n + 1, Len(waiting))
    /\ waitingBytes' = waitingBytes - Weight([i \in 1..n |-> waiting[i].bytes])
    /\ toWorker' = toWorker \o
         [k \in 1..(n - Cardinality(bad)) |->
            LET i == CHOOSE j \in (1..n) \ bad :
                       Cardinality((1..j) \ bad) = k
            IN  Sent(waiting[i], nextId + i - 1)]

(* complete(): release the credits of the ids that are still posted (an unknown
   id, of an older generation or acknowledged before, is ignored), then drain. *)
Released(ids) == ids \cap DOMAIN posted

CompleteDoubleCredit(ids, n, bad) ==
    LET kept  == [id \in DOMAIN posted \ ids |-> posted[id]]
    IN  Drain(kept, postedBytes, n, bad)

CompleteWith(ids, n, bad) ==
    LET kept  == [id \in DOMAIN posted \ ids |-> posted[id]]
        freed == [id \in Released(ids) |-> posted[id]]
    IN  Drain(kept, postedBytes - Weight(freed), n, bad)

Complete(ids) ==
    \E n \in 0..Len(waiting) : \E bad \in SUBSET (1..n) : CompleteWith(ids, n, bad)

(* reset(): forget everything, never replay; nextId goes on. *)
Reset ==
    /\ posted' = << >>
    /\ postedBytes' = 0
    /\ waiting' = << >>
    /\ waitingBytes' = 0
    /\ UNCHANGED nextId
=============================================================================
