--------------------------- MODULE HidWorkerBatch ---------------------------
(***************************************************************************)
(* The scheduling inside a USB worker thread (worker/hid-worker.ts).  A    *)
(* message that arrives becomes a link of a promise chain, except that     *)
(* pictures for a model with image batching are collected first, for 16 ms *)
(* or until BatchCap of them are there, and make one link together.        *)
(*                                                                         *)
(* Links run one after the other.  An open and a close wait for I/O, and   *)
(* messages, the window's timer and the read loop run meanwhile.  Other    *)
(* links run between two events of the thread; a batch of pictures runs in *)
(* steps all the same, because it may end after any of its uploads         *)
(* (MiraboxDriver.sendImage, batch and endImageBatch are a part of it).    *)
(*                                                                         *)
(* Messages are numbered as they arrive.  What has arrived and is not      *)
(* answered is kept in one line; an entry's link is 0 while the entry is   *)
(* in pendingImages, and then names the link of the chain that runs it.    *)
(***************************************************************************)
EXTENDS Integers, Sequences

CONSTANTS
    BatchCap,    \* pictures in a full batch (15)
    MaxMessages  \* bound: messages in a behaviour

ASSUME BatchAssumption == BatchCap \in Nat \ {0} /\ MaxMessages \in Nat

VARIABLES
    arrived,    \* messages arrived so far
    line,       \* the unanswered ones, in order: pendingImages at the end, the chain before
    timer,      \* batchTimer is set
    awaiting,   \* the link that runs is an open or a close that awaits I/O
    model,      \* currentModel: none, or a model with or without image batching
    driver,     \* driver: none, an object without an open device, or with one
    answered,   \* numbers answered by workDone, 'opened' or 'closed', in order
    batch,      \* the link that runs is a batch: none, running, or its run is over
    handled,    \* messages of the link that runs whose handler has run
    pendingStp, \* the driver owes an STP to what it uploaded in this batch
    effects,    \* messages whose handler acted on the device, in order
    latched,    \* lengths of effects at which an STP reached the panel
    lostStps    \* ... and at which hid_write of the STP failed, which is logged

batchVars == <<arrived, line, timer, awaiting, model, driver, answered,
               batch, handled, pendingStp, effects, latched, lostStps>>
chainVars == <<line, timer>>
runVars == <<batch, handled, pendingStp>>
panelVars == <<effects, latched, lostStps>>
deviceVars == <<model, driver, panelVars>>

MessageTypes == {"image", "control", "setOverrides", "open", "close"}

\* "batched" is a picture that was collected
Types == MessageTypes \cup {"batched"}

Entries == [n : 1..MaxMessages, type : Types, link : 0..MaxMessages]

BatchInit ==
    /\ arrived = 0 /\ line = << >> /\ timer = FALSE /\ awaiting = FALSE
    /\ model = "none" /\ driver = "none"
    /\ batch = "none" /\ handled = 0 /\ pendingStp = FALSE
    /\ answered = << >> /\ effects = << >> /\ latched = {} /\ lostStps = {}

-----------------------------------------------------------------------------
LineEntry(type, link) == [n |-> arrived + 1, type |-> type, link |-> link]

(* enqueueImageBatch(): what is in pendingImages becomes the link `link` of the chain. *)
Enqueued(s, link) ==
    [i \in DOMAIN s |-> [n |-> s[i].n, type |-> s[i].type,
                         link |-> IF s[i].link = 0 THEN link ELSE s[i].link]]

Pending == {i \in DOMAIN line : line[i].link = 0}

(* No event of the thread runs while a batch does. *)
Arrives ==
    /\ batch = "none" /\ arrived < MaxMessages /\ arrived' = arrived + 1
    /\ UNCHANGED <<awaiting, runVars, deviceVars, answered>>

(* A picture for a batching model: collected; the timer starts with the first one and is
   not restarted, and a full batch does not wait for it. *)
OnImage ==
    LET collected == Append(line, LineEntry("batched", 0))
        full == \A i \in Len(collected) - BatchCap + 1 .. Len(collected) :
                  i \in DOMAIN collected /\ collected[i].link = 0 IN
    /\ Arrives
    /\ model = "batching"
    /\ line' = IF full THEN Enqueued(collected, arrived + 1) ELSE collected
    /\ timer' = ~full

(* Any other message: what was collected goes before it. *)
OnMessageOvertaking(type) ==
    /\ Arrives
    /\ type = "image" => model # "batching"
    /\ line' = SelectSeq(line, LAMBDA e : e.link # 0) \o << LineEntry(type, arrived + 1) >>
                 \o SelectSeq(line, LAMBDA e : e.link = 0)
    /\ UNCHANGED timer

OnMessage(type) ==
    /\ Arrives
    /\ type = "image" => model # "batching"
    /\ line' = Append(Enqueued(line, arrived), LineEntry(type, arrived + 1))
    /\ timer' = FALSE

TimerFires ==
    /\ timer /\ batch = "none" /\ timer' = FALSE
    /\ line' = Enqueued(line, arrived)
    /\ UNCHANGED <<arrived, awaiting, runVars, deviceVars, answered>>

-----------------------------------------------------------------------------
(* The first k entries of the line are the link whose turn it is. *)
IsLink(k) ==
    /\ k \in DOMAIN line /\ line[1].link # 0
    /\ \A i \in 1..k : line[i].link = line[1].link
    /\ k < Len(line) => line[k + 1].link # line[1].link

NumbersOf(k) == [i \in 1..k |-> line[i].n]

(* The link is over: workDone names its ids, or 'opened' or 'closed' was posted. *)
Answer(k) ==
    /\ answered' = answered \o NumbersOf(k)
    /\ line' = SubSeq(line, k + 1, Len(line))
    /\ UNCHANGED <<arrived, timer>>

Turn(k, type) == IsLink(k) /\ line[1].type = type /\ ~awaiting /\ batch = "none"

(* The i-th message of the line acts on the device. *)
Acts(i) == driver = "open" /\ effects' = Append(effects, line[i])

(* The driver writes an STP after what it has done so far. *)
Latch(at) ==
    \/ latched' = latched \cup {at} /\ UNCHANGED lostStps
    \/ lostStps' = lostStps \cup {at} /\ UNCHANGED latched

(* handleImage() and handleSplashImage() alone: sendImage() uploads the picture and writes
   its STP (other families show a picture at the end of its upload), or does nothing:
   no device, or the transform or the upload throws. *)
RunImage(k) ==
    /\ Turn(k, "image")
    /\ \/ Acts(1) /\ Latch(Len(effects) + 1)
       \/ UNCHANGED panelVars
    /\ Answer(k) /\ UNCHANGED <<awaiting, model, driver, runVars>>

(* handleImageBatch() without a driver, or with one that cannot batch: a close or a reopen
   came between the window and the link.  A plain model's driver may be able to. *)
SkipBatchUnanswered(k) ==
    /\ Turn(k, "batched") /\ (driver = "none" \/ model = "plain")
    /\ line' = SubSeq(line, k + 1, Len(line))
    /\ UNCHANGED <<arrived, timer, answered, awaiting, deviceVars, runVars>>

SkipBatch(k) ==
    /\ Turn(k, "batched") /\ (driver = "none" \/ model = "plain")
    /\ Answer(k) /\ UNCHANGED <<awaiting, deviceVars, runVars>>

(* MiraboxDriver.batch() sets imageBatch and runs the uploads ... *)
BatchStarts(k) ==
    /\ Turn(k, "batched") /\ driver # "none" /\ batch' = "running"
    /\ UNCHANGED <<arrived, chainVars, awaiting, deviceVars, answered, handled, pendingStp>>

(* ... one after the other.  sendImage() remembers the STP that is owed once the picture is
   uploaded; it does nothing without a device, and catches what an upload throws. *)
BatchUploads(k) ==
    /\ IsLink(k) /\ batch = "running" /\ handled < k /\ handled' = handled + 1
    /\ \/ Acts(handled + 1) /\ pendingStp' = TRUE
       \/ UNCHANGED <<effects, pendingStp>>
    /\ UNCHANGED <<arrived, chainVars, awaiting, model, driver, answered, batch,
                   latched, lostStps>>

(* endImageBatch(), in a finally: after the last picture, or when the transform of the next
   one throws. *)
BatchEndsWhenDone(k) ==
    /\ IsLink(k) /\ batch = "running" /\ batch' = "over" /\ pendingStp' = FALSE
    /\ IF pendingStp /\ handled = k THEN Latch(Len(effects)) ELSE UNCHANGED <<latched, lostStps>>
    /\ UNCHANGED <<arrived, chainVars, awaiting, model, driver, answered, handled, effects>>

BatchEnds(k) ==
    /\ IsLink(k) /\ batch = "running" /\ batch' = "over" /\ pendingStp' = FALSE
    /\ IF pendingStp THEN Latch(Len(effects)) ELSE UNCHANGED <<latched, lostStps>>
    /\ UNCHANGED <<arrived, chainVars, awaiting, model, driver, answered, handled, effects>>

(* imageSent for each picture, unless one threw, and workDone for all. *)
BatchAnswers(k) ==
    /\ IsLink(k) /\ batch = "over" /\ batch' = "none" /\ handled' = 0
    /\ Answer(k) /\ UNCHANGED <<awaiting, deviceVars, pendingStp>>

(* Brightness, sleep, clear key, the touch strip: done, or thrown out of. *)
RunControl(k) ==
    /\ Turn(k, "control")
    /\ Acts(1) \/ UNCHANGED effects
    /\ Answer(k) /\ UNCHANGED <<awaiting, model, driver, runVars, latched, lostStps>>

(* applyLiveOverrides(): the tuning may switch batching on or off. *)
RunSetOverrides(k, b) ==
    /\ Turn(k, "setOverrides")
    /\ model' = IF model = "none" THEN model ELSE b
    /\ Answer(k) /\ UNCHANGED <<awaiting, driver, runVars, panelVars>>

(* handleOpen() of a model that is not in the registry. *)
OpenUnknownModel(k) ==
    Turn(k, "open") /\ Answer(k) /\ UNCHANGED <<awaiting, runVars, deviceVars>>

(* handleOpen() up to the native open: driver and model are set before it is known to
   succeed. *)
OpenStarts(k, b) ==
    /\ Turn(k, "open") /\ awaiting' = TRUE
    /\ driver' = "dead" /\ model' = b
    /\ UNCHANGED <<arrived, chainVars, runVars, panelVars, answered>>

(* The native open, which initialises the panel or fails. *)
OpenEnds(k, ok) ==
    /\ IsLink(k) /\ awaiting /\ awaiting' = FALSE
    /\ line[1].type = "open"
    /\ driver' = IF ok THEN "open" ELSE driver
    /\ effects' = IF ok THEN Append(effects, line[1]) ELSE effects
    /\ Answer(k) /\ UNCHANGED <<model, runVars, latched, lostStps>>

(* 'close': the disconnect sequence is written before anything is awaited. *)
CloseStarts(k) ==
    /\ Turn(k, "close") /\ awaiting' = TRUE /\ handled' = 1
    /\ driver' = "none" /\ model' = "none"
    /\ effects' = IF driver = "open" THEN Append(effects, line[1]) ELSE effects
    /\ UNCHANGED <<arrived, chainVars, answered, batch, pendingStp, latched, lostStps>>

CloseEnds(k) ==
    /\ IsLink(k) /\ awaiting /\ awaiting' = FALSE /\ handled' = 0
    /\ line[1].type = "close"
    /\ Answer(k) /\ UNCHANGED <<deviceVars, batch, pendingStp>>

(* The read loop finds the device gone. *)
Disconnect ==
    /\ driver = "open" /\ batch = "none" /\ driver' = "dead"
    /\ UNCHANGED <<arrived, chainVars, awaiting, model, runVars, panelVars, answered>>

-----------------------------------------------------------------------------
RunLink(k) ==
    \/ RunImage(k) \/ RunControl(k)
    \/ SkipBatch(k) \/ BatchStarts(k) \/ BatchUploads(k) \/ BatchEnds(k) \/ BatchAnswers(k)
    \/ \E b \in {"plain", "batching"} : RunSetOverrides(k, b) \/ OpenStarts(k, b)
    \/ OpenUnknownModel(k)
    \/ \E ok \in BOOLEAN : OpenEnds(k, ok)
    \/ CloseStarts(k) \/ CloseEnds(k)

Step == \E k \in DOMAIN line : RunLink(k)

BatchNext ==
    \/ OnImage \/ (\E t \in MessageTypes : OnMessage(t)) \/ TimerFires
    \/ Step
    \/ Disconnect

(* Timers fire, and the native calls of an open or a close return. *)
BatchFairness == WF_batchVars(TimerFires) /\ WF_batchVars(Step)

BatchSpec == BatchInit /\ [][BatchNext]_batchVars /\ BatchFairness

-----------------------------------------------------------------------------
BatchTypeOK ==
    /\ arrived \in 0..MaxMessages /\ timer \in BOOLEAN /\ awaiting \in BOOLEAN
    /\ line \in Seq(Entries) /\ effects \in Seq(Entries)
    /\ model \in {"none", "plain", "batching"} /\ driver \in {"none", "dead", "open"}
    /\ driver = "none" <=> model = "none"
    /\ answered \in Seq(1..MaxMessages)
    /\ batch \in {"none", "running", "over"} /\ pendingStp \in BOOLEAN
    /\ handled \in 0..MaxMessages
    /\ latched \cup lostStps \subseteq 0..Len(effects)

(* Collected pictures always have a timer that will send them off and never fill a batch:
   whatever close, reopen or retuning happened since they were collected, they are the end
   of the line, so nothing newer is before them. *)
WindowArmed ==
    /\ timer <=> Pending # {}
    /\ \A i \in Pending : /\ line[i].type = "batched"
                          /\ i .. Len(line) \subseteq Pending
                          /\ Len(line) < i + BatchCap - 1

(* Types, and a window that always closes. *)
WindowConsistent == BatchTypeOK /\ WindowArmed

(* Messages take effect in the order they arrived: a clear, a brightness or a close is
   never overtaken by a picture collected before or after it. *)
EffectsInOrder == \A i, j \in DOMAIN effects : i < j => effects[i].n < effects[j].n

IsPicture(e) == e.type \in {"image", "batched"}

(* The STP that shows the i-th effect was written with nothing but pictures in between. *)
Committed(i) ==
    \E at \in latched \cup lostStps : i <= at /\ \A m \in i..at : IsPicture(effects[m])

(* "Final STP precedes completion notifications" and "control commands first commit
   preceding images" (docs/image-flow.md:173, docs/mirabox-293s-slow-image-render.md:94):
   a picture that was uploaded has its STP before its credit returns and before a control
   message, a close or an open acts, wherever its batch broke off. *)
PicturesCommitFirst ==
    \A i \in DOMAIN effects :
      IsPicture(effects[i]) /\ (\E j \in DOMAIN answered : answered[j] = effects[i].n)
        => Committed(i)

Backlog == [i \in DOMAIN line |-> line[i].n]

Contract == INSTANCE WorkerContract
              WITH Numbers <- 1..MaxMessages, backlog <- Backlog, answered <- answered

(* The thread keeps its contract with the main thread, fairness included: batching,
   failing batches, closes and failed opens lose, repeat or reorder no answer. *)
ImplementsContract == Contract!Spec
=============================================================================
