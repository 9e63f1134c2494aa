------------------------- MODULE HidWorkQueueSystem -------------------------
(***************************************************************************)
(* HidWorkQueue between its callers and a USB worker.  Any caller submits  *)
(* any message at any time; postMessage may throw; the worker finishes     *)
(* what it was sent in order and its workDone messages reach complete()    *)
(* late, again, or after a reset (the same worker thread survives a failed *)
(* open, so acknowledgements of an older generation do arrive).            *)
(***************************************************************************)
EXTENDS HidWorkQueue

CONSTANTS
    Keys,        \* coalesce keys of complete images
    Sizes,       \* payload sizes in bytes
    MaxSubmits,  \* bound: submissions in a behaviour
    MaxResets    \* bound: generation changes in a behaviour

ASSUME CallersAssumption ==
    /\ NoKey \notin Keys
    /\ Sizes \subseteq Nat
    /\ MaxSubmits \in Nat
    /\ MaxResets \in Nat

VARIABLES
    finished,  \* what the worker has finished: workDone may be delivered from now on
    gen,       \* generations begun (resets so far)
    seq,       \* submissions so far
    admitted,  \* history: the messages this generation admitted
    sent,      \* history: what send() took in this generation, in order
    lost       \* history: seqs of admitted messages whose postMessage threw

envVars == <<finished, gen, seq>>
history == <<admitted, sent, lost>>
vars == <<queueVars, toWorker, envVars, history>>

(***************************************************************************)
(* What callers submit: complete images with a coalesce key, touch-strip   *)
(* frames, and control messages of no payload.                             *)
(***************************************************************************)
Works ==
    [kind : {"image"}, key : Keys, bytes : Sizes]
      \cup [kind : {"touch"}, key : {NoKey}, bytes : Sizes]
      \cup [kind : {"control"}, key : {NoKey}, bytes : {0}]

Message(w) == [seq |-> seq + 1, gen |-> gen, kind |-> w.kind, key |-> w.key,
               bytes |-> w.bytes]

Init ==
    /\ InitQueue
    /\ finished = {}
    /\ gen = 0
    /\ seq = 0
    /\ admitted = {}
    /\ sent = << >>
    /\ lost = {}

Submitting == seq < MaxSubmits /\ seq' = seq + 1 /\ UNCHANGED <<finished, gen>>

SubmitAndPost(w) ==
    /\ Submitting
    /\ SubmitPosted(Message(w))
    /\ admitted' = admitted \cup {Message(w)}
    /\ sent' = Append(sent, Message(w))
    /\ UNCHANGED lost

SubmitAndFail(w) ==
    /\ Submitting
    /\ SubmitFailed(Message(w))
    /\ UNCHANGED history

SubmitAndWait(w) ==
    /\ Submitting
    /\ SubmitWaiting(Message(w))
    /\ admitted' = admitted \cup {Message(w)}
    /\ UNCHANGED <<sent, lost>>

SubmitAndReject(w) ==
    /\ Submitting
    /\ SubmitRejected(Message(w))
    /\ UNCHANGED history

(* The worker works off the next message of its port and acknowledges it. *)
WorkerFinishes ==
    /\ toWorker # << >>
    /\ finished' = finished \cup {[gen |-> Head(toWorker).msg.gen, id |-> Head(toWorker).id]}
    /\ toWorker' = Tail(toWorker)
    /\ UNCHANGED <<queueVars, gen, seq, history>>

(* The batches of finished ids a workDone message may carry: a run of consecutive ones. *)
Batches ==
    LET done == {f.id : f \in finished}
    IN  {{i \in done : r[1] <= i /\ i <= r[2]} : r \in {p \in done \X done : p[1] <= p[2]}}

(* A batch of acknowledgements, an old or a repeated one perhaps, reaches complete(). *)
Acknowledge(ids) ==
    /\ Complete(ids)
    /\ LET left == Len(waiting) - Len(waiting')
           good == Len(toWorker') - Len(toWorker)
           new  == [k \in 1..good |-> toWorker'[Len(toWorker) + k].msg]
       IN  /\ sent' = sent \o new
           /\ lost' = lost \cup ({waiting[i].seq : i \in 1..left}
                                   \ {new[k].seq : k \in 1..good})
    /\ UNCHANGED <<envVars, admitted>>

ChangeGeneration ==
    /\ gen < MaxResets
    /\ gen' = gen + 1
    /\ Reset
    /\ admitted' = {}
    /\ sent' = << >>
    /\ lost' = {}
    /\ UNCHANGED <<toWorker, finished, seq>>

AcknowledgeSome == \E ids \in Batches : Acknowledge(ids)

Next ==
    \/ \E w \in Works :
         SubmitAndPost(w) \/ SubmitAndFail(w) \/ SubmitAndWait(w) \/ SubmitAndReject(w)
    \/ WorkerFinishes
    \/ AcknowledgeSome
    \/ ChangeGeneration

(***************************************************************************)
(* The worker acknowledges every id it was given (hid-worker.ts posts      *)
(* workDone in a finally block) and the port delivers what is posted.      *)
(***************************************************************************)
AcknowledgeCredits == \E ids \in Batches : Released(ids) # {} /\ Acknowledge(ids)

Fairness == WF_vars(WorkerFinishes) /\ WF_vars(AcknowledgeCredits)

Spec == Init /\ [][Next]_vars /\ Fairness

-----------------------------------------------------------------------------
Messages == [seq : 1..MaxSubmits, gen : 0..MaxResets, kind : {"image", "touch", "control"},
             key : Keys \cup {NoKey}, bytes : Sizes \cup {0}]

TypeOK ==
    /\ nextId \in Nat \ {0}
    /\ DOMAIN posted \in SUBSET (1..(nextId - 1))
    /\ \A id \in DOMAIN posted : posted[id] \in Nat
    /\ postedBytes \in Nat
    /\ waiting \in Seq(Messages)
    /\ waitingBytes \in Int
    /\ \A i \in DOMAIN toWorker : toWorker[i].id \in 1..(nextId - 1) /\ toWorker[i].msg \in Messages
    /\ finished \subseteq [gen : 0..gen, id : 1..(nextId - 1)]
    /\ gen \in 0..MaxResets
    /\ seq \in 0..MaxSubmits
    /\ admitted \subseteq Messages
    /\ sent \in Seq(Messages)
    /\ lost \subseteq 1..seq

(* The worker never has more unacknowledged messages or bytes than its budget: submit
   and drain both go through fitsPosted, also after failed posts and stale ids. *)
PostedWithinBudget ==
    /\ Cardinality(DOMAIN posted) <= PostedCount
    /\ Weight(posted) <= PostedBytes

(* The main thread never holds more than its own budget, and the control reserve is
   usable by control messages alone. *)
WaitingWithinBudget ==
    /\ Len(waiting) <= PendingCount + ControlReserve
    /\ Cardinality({i \in DOMAIN waiting : waiting[i].kind # "control"}) <= PendingCount
    /\ WaitingWeight <= PendingBytes

(* The running totals that submit, complete, drain and post keep incrementally agree
   with what is really posted and waiting, failed posts and stale ids included. *)
BytesAccountedFor ==
    /\ postedBytes = Weight(posted)
    /\ waitingBytes = WaitingWeight

(* The queue's books: types, the waiting budget and the running totals together. *)
AccountsKept == TypeOK /\ WaitingWithinBudget /\ BytesAccountedFor

(* Something waits only while an acknowledgement is outstanding: drain() runs only from
   complete(), so a message left waiting with nothing posted would wait for ever. *)
NoStall == waiting # << >> => DOMAIN posted # {}

(* Messages reach the worker in the order they were submitted, and nothing that waits
   has been overtaken: submit posts directly only when nothing waits. *)
SubmissionOrder ==
    LET line == sent \o waiting
    IN  \A i, j \in DOMAIN line : i < j => line[i].seq < line[j].seq

(* Coalescing loses no effect: an admitted message that was neither sent, nor still
   waits, nor failed to post, was a complete image, and a later image with its key took
   its place with no touch frame or control message submitted in between. *)
CoalescingIsInvisible ==
    LET line == {sent[i] : i \in DOMAIN sent} \cup {waiting[i] : i \in DOMAIN waiting}
        gone == {m \in admitted : m \notin line /\ m.seq \notin lost}
    IN  \A m \in gone :
          /\ m.kind = "image"
          /\ \E c \in admitted \ gone :
               /\ c.kind = "image" /\ c.key = m.key /\ m.seq < c.seq
               /\ ~ \E b \in admitted : b.kind # "image" /\ m.seq < b.seq /\ b.seq < c.seq

(* A credit is held exactly while the worker owes its acknowledgement: each posted id
   is one this generation gave to the worker, and each message of this generation in
   the worker's port holds a credit, so an acknowledgement of an older generation
   frees nothing. *)
CreditsMatchWorker ==
    /\ \A i \in DOMAIN toWorker :
         toWorker[i].msg.gen = gen => toWorker[i].id \in DOMAIN posted
    /\ \A id \in DOMAIN posted :
         \/ \E i \in DOMAIN toWorker : toWorker[i].id = id /\ toWorker[i].msg.gen = gen
         \/ [gen |-> gen, id |-> id] \in finished

(* The app's work reaches the worker: in order, with no effect lost and no credit lost or
   counted twice. *)
WorkReachesWorker ==
    AccountsKept /\ SubmissionOrder /\ CoalescingIsInvisible /\ CreditsMatchWorker

(* A backlog of frames never costs a control message its place: submit rejects a
   control message only when the whole reserve is taken by other control messages. *)
FramesNeverCostControl ==
    [][\A w \in Works : (w.kind = "control" /\ SubmitAndReject(w)) =>
          Cardinality({i \in DOMAIN waiting : waiting[i].kind = "control"}) >= ControlReserve]_vars

(* Every message that waits eventually leaves the main thread (posted, superseded,
   lost to a failing postMessage, or forgotten by a reset). *)
EverythingWaitingLeaves ==
    \A n \in 1..MaxSubmits :
       (\E i \in DOMAIN waiting : waiting[i].seq = n)
          ~> ~(\E i \in DOMAIN waiting : waiting[i].seq = n)
=============================================================================
