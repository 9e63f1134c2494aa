------------------------- MODULE HidWorkerHostProofs -------------------------
(***************************************************************************)
(* Proofs about HidWorkerHost, for every set of workers, every budget and  *)
(* every set of messages: no credit is lost, a worker answers the call it  *)
(* was opened for and is let go of cleanly, and no patch is drawn on a     *)
(* strip that missed an update.                                            *)
(*                                                                         *)
(* A worker is seen as a pipe of three stages: what it has yet to take,    *)
(* the message in its hands, and what it posted and the driver has yet to  *)
(* receive.  Detaching a worker moves its messages between two variables   *)
(* and leaves its pipe as it is.                                           *)
(***************************************************************************)
EXTENDS HidWorkerHost, HidWorkQueueLemmas

-----------------------------------------------------------------------------
(* The messages and the answers of a pipe. *)

Posts == [id : Nat \ {0}, msg : WorkMessages]
OpenMsgs == [id : {0}, msg : [kind : {"open"}, call : Nat \ {0}]]
PortMsgs == Posts \cup OpenMsgs \cup {CloseMsg}

Opened(ok) == [type |-> "opened", ok |-> ok]
OpenedAnswers == {Opened(TRUE), Opened(FALSE)}
Closed == [type |-> "closed"]
Gone == [type |-> "disconnect"]
ScriptError == [type |-> "scriptError"]
Acks == [type : {"workDone"}, ids : SUBSET Nat]
Answers == Acks \cup OpenedAnswers \cup {Closed, Gone, ScriptError}

(* A member of S is in s, is in it once, can only be its last element. *)
Has(s, S) == \E i \in 1..Len(s) : s[i] \in S
Once(s, S) == \A i, j \in 1..Len(s) : s[i] \in S /\ s[j] \in S => i = j
AtEnd(s, S) == \A i \in 1..Len(s) : s[i] \in S => i = Len(s)

(* The pipe of one worker: q is what it has yet to take, j the message in its hands, a what
   it posted and the driver has not received, h whether it holds the device's handle. *)
PipeTyped(q, j, a, h) ==
    /\ q \in Seq(PortMsgs) /\ j \in PortMsgs \cup {Idle}
    /\ a \in Seq(Answers) /\ h \in BOOLEAN

(* Open messages a pipe has yet to answer: of call n, of any call. *)
OpenOf(n, q, j) == Has(q, {OpenMsg(n)}) \/ j = OpenMsg(n)
Opening(q, j) == Has(q, OpenMsgs) \/ j \in OpenMsgs

(* The pipe has a device, or the news that it was lost. *)
Live(a, h) == h \/ Has(a, {Gone})

(* The pipe was told to close and its answer has not been received. *)
Owes(q, j, a) == Has(q, {CloseMsg}) \/ j = CloseMsg \/ Has(a, {Closed})

(* Message id is on its way, in the worker's hands, or acknowledged. *)
Carries(id, q, j, a) ==
    \/ Has(q, {m \in PortMsgs : m.id = id})
    \/ j # Idle /\ j.id = id
    \/ Has(a, {e \in Acks : id \in e.ids})

(* A worker with nothing to do and no device. *)
AtRest(q, j, h) == q = << >> /\ j = Idle /\ ~h

(* At most one open is under way in a pipe, from the message to its answer; a worker with a
   device, or that has reported its loss, has none; a failed open left it without one. *)
OneOpen(q, j, a, h) ==
    /\ Once(q, OpenMsgs) /\ Once(a, OpenedAnswers)
    /\ j \in OpenMsgs => ~Has(q, OpenMsgs)
    /\ Opening(q, j) => ~Has(a, OpenedAnswers) /\ ~Live(a, h)
    /\ Has(a, {Gone}) \/ Has(a, {Opened(FALSE)}) => ~h
    /\ Has(a, {Gone}) => ~Has(a, {Opened(FALSE)})

(* A close is the last message of a pipe; once it is answered the worker is empty and
   holds nothing. *)
CloseEnds(q, j, a, h) ==
    /\ AtEnd(q, {CloseMsg})
    /\ j = CloseMsg => q = << >>
    /\ Has(a, {Closed}) => AtRest(q, j, h)

PipeOK(q, j, a, h) == PipeTyped(q, j, a, h) /\ OneOpen(q, j, a, h) /\ CloseEnds(q, j, a, h)

-----------------------------------------------------------------------------
(* The inductive invariant. *)

(* What each worker has yet to take, wherever it is kept. *)
inbox == [w \in Workers |-> Inbox(w)]

PipesOK == \A w \in Workers : PipeOK(inbox[w], job[w], answers[w], handle[w])

(* The queue's messages and ids. *)
QueueTyped ==
    /\ waiting \in Seq(WorkMessages) /\ nextId \in Nat \ {0}
    /\ DOMAIN posted \subseteq Nat \ {0}

(* The driver forgets its queue with its worker and when it closes; the call that is
   pending is the last one. *)
DriverTidy ==
    /\ worker = NoWorker => toWorker = << >>
    /\ worker = NoWorker \/ closing # NoWorker => waiting = << >> /\ DOMAIN posted = {}
    /\ closing # NoWorker => closing = worker /\ openReq = 0
    /\ openReq \in {0, Len(opens)}

(* A thread that was never spawned has done nothing, and nothing waits for it. *)
UnbornIdle ==
    \A w \in Workers : thread[w] = "unborn" =>
      /\ w # worker /\ w \notin orphans /\ terminating[w] = "no" /\ closeOf[w] = "none"
      /\ AtRest(inbox[w], job[w], handle[w]) /\ answers[w] = << >>

(* Open messages belong to calls that were made. *)
CallsKnown ==
    \A w \in Workers : \A n \in Nat : OpenOf(n, inbox[w], job[w]) => n \in DOMAIN opens

(* The open that is under way in the driver's worker is the pending call's; with no call
   pending and the last one failed, the worker has no device. *)
OpenIsOurs ==
    worker # NoWorker /\ closing = NoWorker =>
      /\ ~Owes(inbox[worker], job[worker], answers[worker])
      /\ \A n \in Nat : OpenOf(n, inbox[worker], job[worker]) => n = openReq
      /\ Has(answers[worker], OpenedAnswers) => openReq # 0
      /\ Has(answers[worker], {Opened(TRUE)}) => openReq \in openedOk
      /\ openReq = 0 /\ LastOpen # "ok" => ~Live(answers[worker], handle[worker])

(* A worker that was told to close, and has not been let go for it, still owes its answer. *)
CloseOwed ==
    \A w \in Workers :
      /\ w = closing \/ w \in orphans => Owes(inbox[w], job[w], answers[w])
      /\ w \in orphans => w # worker

(* A spawned worker is the driver's, an orphan, or about to be terminated. *)
LetGo ==
    \A w \in Workers :
      /\ thread[w] # "unborn" /\ w # worker => terminating[w] # "no" \/ w \in orphans
      /\ terminating[w] # "no" => w # worker
      /\ terminating[w] = "closed" => AtRest(inbox[w], job[w], handle[w])

(* A worker whose close has resolved has no device and will not open one. *)
ClosedForGood ==
    \A w \in Workers : closeOf[w] = "resolved" =>
      w # worker /\ ~handle[w] /\ ~Opening(inbox[w], job[w])

(* Every posted message is in the pipe of the driver's worker. *)
CreditsKept == \A id \in DOMAIN posted : Carries(id, inbox[worker], job[worker], answers[worker])

HostInv ==
    /\ HostTypeOK /\ QueueTyped /\ PipesOK /\ DriverTidy /\ UnbornIdle /\ CallsKnown
    /\ OpenIsOurs /\ OpenAnswersItsCall /\ CloseOwed /\ LetGo /\ ClosedForGood
    /\ CreditsKept /\ StripPatchHasBase

-----------------------------------------------------------------------------
(* Sequences. *)

LEMMA HasAppended ==
  ASSUME NEW T, NEW s \in Seq(T), NEW t \in Seq(T), NEW S
  PROVE  /\ s \o t \in Seq(T)
         /\ Has(s \o t, S) <=> Has(s, S) \/ Has(t, S)
         /\ Once(s, S) /\ ~Has(t, S) => Once(s \o t, S)
         /\ AtEnd(t, S) /\ ~Has(s, S) => AtEnd(s \o t, S)
<1>1. /\ s \o t \in Seq(T) /\ Len(s \o t) = Len(s) + Len(t)
      /\ \A i \in 1 .. Len(s) + Len(t) :
           (s \o t)[i] = IF i <= Len(s) THEN s[i] ELSE t[i - Len(s)]
  BY ConcatProperties
<1>2. Len(s) \in Nat /\ Len(t) \in Nat  OBVIOUS
<1>3. \A i \in 1..Len(s) : i \in 1..Len(s \o t) /\ (s \o t)[i] = s[i]  BY <1>1, <1>2
<1>4. \A i \in 1..Len(t) : Len(s) + i \in 1..Len(s \o t) /\ (s \o t)[Len(s) + i] = t[i]
  BY <1>1, <1>2
<1>5. \A i \in 1..Len(s \o t) :
        \/ i \in 1..Len(s) /\ (s \o t)[i] = s[i]
        \/ i - Len(s) \in 1..Len(t) /\ (s \o t)[i] = t[i - Len(s)]
  BY <1>1, <1>2
<1>6. Has(s \o t, S) <=> Has(s, S) \/ Has(t, S)  BY <1>3, <1>4, <1>5 DEF Has
<1>7. Once(s, S) /\ ~Has(t, S) => Once(s \o t, S)  BY <1>5 DEF Has, Once
<1>8. AtEnd(t, S) /\ ~Has(s, S) => AtEnd(s \o t, S)
  <2> SUFFICES ASSUME AtEnd(t, S), ~Has(s, S), NEW i \in 1..Len(s \o t), (s \o t)[i] \in S
               PROVE  i = Len(s \o t)
    BY DEF AtEnd
  <2>1. i - Len(s) \in 1..Len(t) /\ t[i - Len(s)] \in S  BY <1>5 DEF Has
  <2> QED BY <2>1, <1>1, <1>2 DEF AtEnd
<1> QED BY <1>1, <1>6, <1>7, <1>8

LEMMA HasOne ==
  ASSUME NEW T, NEW s \in Seq(T), NEW e \in T, NEW S
  PROVE  /\ Append(s, e) \in Seq(T)
         /\ Has(Append(s, e), S) <=> Has(s, S) \/ e \in S
         /\ Once(s, S) /\ e \notin S => Once(Append(s, e), S)
         /\ ~Has(s, S) => Once(Append(s, e), S) /\ AtEnd(Append(s, e), S)
<1>1. /\ Append(s, e) \in Seq(T) /\ Len(Append(s, e)) = Len(s) + 1 /\ Len(s) \in Nat
      /\ \A i \in 1..Len(s) : Append(s, e)[i] = s[i]
      /\ Append(s, e)[Len(s) + 1] = e
  OBVIOUS
<1> DEFINE u == Append(s, e)
<1>2. \A i \in 1..Len(u) : i \in 1..Len(s) \/ i = Len(s) + 1  BY <1>1
<1>3. \A i \in 1..Len(s) : i \in 1..Len(u)  BY <1>1
<1>4. Len(s) + 1 \in 1..Len(u)  BY <1>1
<1>5. u \in Seq(T) /\ Len(u) = Len(s) + 1 /\ \A i \in 1..Len(s) : u[i] = s[i]  BY <1>1
<1>6. u[Len(s) + 1] = e  BY <1>1
<1> HIDE DEF u
<1>7. Has(u, S) <=> Has(s, S) \/ e \in S  BY <1>2, <1>3, <1>4, <1>5, <1>6 DEF Has
<1>8. Once(s, S) /\ e \notin S => Once(u, S)  BY <1>2, <1>5, <1>6 DEF Once
<1>9. ~Has(s, S) => Once(u, S) /\ AtEnd(u, S)  BY <1>2, <1>5, <1>6 DEF Has, Once, AtEnd
<1> QED BY <1>5, <1>7, <1>8, <1>9 DEF u

LEMMA HasTail ==
  ASSUME NEW T, NEW s \in Seq(T), s # << >>, NEW S
  PROVE  /\ Head(s) \in T /\ Tail(s) \in Seq(T)
         /\ Has(s, S) <=> Head(s) \in S \/ Has(Tail(s), S)
         /\ Once(s, S) => Once(Tail(s), S) /\ (Head(s) \in S => ~Has(Tail(s), S))
         /\ AtEnd(s, S) => AtEnd(Tail(s), S) /\ (Head(s) \in S => Tail(s) = << >>)
<1> DEFINE t == Tail(s)
<1>1. /\ Head(s) \in T /\ Head(s) = s[1] /\ t \in Seq(T) /\ Len(s) \in Nat \ {0}
      /\ Len(t) = Len(s) - 1 /\ \A i \in 1..Len(t) : t[i] = s[i + 1]
  OBVIOUS
<1> HIDE DEF t
<1>2. \A i \in 1..Len(t) : i + 1 \in 1..Len(s) /\ i + 1 # 1  BY <1>1
<1>3. \A i \in 1..Len(s) : i = 1 \/ (i - 1 \in 1..Len(t) /\ (i - 1) + 1 = i)  BY <1>1
<1>4. 1 \in 1..Len(s)  BY <1>1
<1>5. Has(s, S) <=> Head(s) \in S \/ Has(t, S)
  <2>1. Has(s, S) => Head(s) \in S \/ Has(t, S)
    <3> SUFFICES ASSUME NEW i \in 1..Len(s), s[i] \in S  PROVE Head(s) \in S \/ Has(t, S)
      BY DEF Has
    <3>1. CASE i = 1  BY <3>1, <1>1
    <3>2. CASE i - 1 \in 1..Len(t) /\ (i - 1) + 1 = i
      <4>1. t[i - 1] = s[i]  BY <3>2, <1>1
      <4> QED BY <4>1, <3>2 DEF Has
    <3> QED BY <3>1, <3>2, <1>3
  <2>2. Head(s) \in S => Has(s, S)  BY <1>1, <1>4 DEF Has
  <2>3. Has(t, S) => Has(s, S)  BY <1>1, <1>2 DEF Has
  <2> QED BY <2>1, <2>2, <2>3
<1>6. Once(s, S) => Once(t, S)
  <2> SUFFICES ASSUME Once(s, S), NEW i \in 1..Len(t), NEW j \in 1..Len(t), t[i] \in S, t[j] \in S
               PROVE  i = j
    BY DEF Once
  <2>1. i + 1 = j + 1  BY <1>1, <1>2 DEF Once
  <2> QED BY <2>1, <1>1
<1>7. Once(s, S) /\ Head(s) \in S => ~Has(t, S)
  BY <1>1, <1>2, <1>4 DEF Once, Has
<1>8. AtEnd(s, S) => AtEnd(t, S)
  <2> SUFFICES ASSUME AtEnd(s, S), NEW i \in 1..Len(t), t[i] \in S  PROVE i = Len(t)
    BY DEF AtEnd
  <2>1. i + 1 = Len(s)  BY <1>1, <1>2 DEF AtEnd
  <2> QED BY <2>1, <1>1
<1>9. AtEnd(s, S) /\ Head(s) \in S => t = << >>
  <2> SUFFICES ASSUME AtEnd(s, S), Head(s) \in S  PROVE t = << >>
    OBVIOUS
  <2>1. 1 = Len(s)  BY <1>1, <1>4 DEF AtEnd
  <2>2. Len(t) = 0  BY <2>1, <1>1
  <2> QED BY <2>2, <1>1
<1> QED BY <1>1, <1>5, <1>6, <1>7, <1>8, <1>9 DEF t

LEMMA HasNothing == \A S : ~Has(<< >>, S) /\ Once(<< >>, S) /\ AtEnd(<< >>, S)
  BY DEF Has, Once, AtEnd

(* Has is monotonic. *)
LEMMA HasSubset ==
  ASSUME NEW s, NEW S, NEW R, S \subseteq R, Has(s, S)
  PROVE  Has(s, R)
  BY DEF Has

-----------------------------------------------------------------------------
(* Messages and answers are told apart by their kinds and types. *)

LEMMA Kinds ==
  ASSUME NEW m \in PortMsgs \cup {Idle}
  PROVE  /\ m.msg.kind = "open" <=> m \in OpenMsgs
         /\ m.msg.kind = "close" <=> m = CloseMsg
         /\ m.msg.kind \in {"image", "touch", "control"} <=> m \in Posts
         /\ m \in OpenMsgs => /\ m.msg.call \in Nat \ {0} /\ m = OpenMsg(m.msg.call)
                              /\ m # CloseMsg /\ m # Idle /\ m.id = 0 /\ m \notin Posts
         /\ m = CloseMsg => m # Idle /\ m.id = 0 /\ m \notin Posts
         /\ m = Idle => m.id = 0 /\ m \notin Posts
         /\ m \in Posts => m.id \in Nat \ {0} /\ m.msg \in WorkMessages
<1>1. \A x \in WorkMessages : x.kind \in {"image", "touch", "control"}  BY HostAssumption
<1>2. CASE m \in Posts
  <2>1. m.id \in Nat \ {0} /\ m.msg \in WorkMessages  BY <1>2 DEF Posts
  <2>2. m.msg.kind \in {"image", "touch", "control"}  BY <2>1, <1>1
  <2>3. m \notin OpenMsgs /\ m # CloseMsg /\ m # Idle  BY <2>1 DEF OpenMsgs, CloseMsg, Idle
  <2> QED BY <1>2, <2>1, <2>2, <2>3
<1>3. CASE m \in OpenMsgs
  <2>1. m.id = 0 /\ m.msg.kind = "open" /\ m.msg.call \in Nat \ {0}  BY <1>3 DEF OpenMsgs
  <2>2. m = OpenMsg(m.msg.call)  BY <1>3 DEF OpenMsgs, OpenMsg
  <2>3. m \notin Posts /\ m # CloseMsg /\ m # Idle  BY <2>1 DEF Posts, CloseMsg, Idle
  <2> QED BY <1>3, <2>1, <2>2, <2>3
<1>4. CASE m = CloseMsg
  <2>1. m.id = 0 /\ m.msg.kind = "close"  BY <1>4 DEF CloseMsg
  <2>2. m \notin Posts /\ m \notin OpenMsgs /\ m # Idle  BY <2>1 DEF Posts, OpenMsgs, Idle
  <2> QED BY <1>4, <2>1, <2>2
<1>5. CASE m = Idle
  <2>1. m.id = 0 /\ m.msg.kind = "idle"  BY <1>5 DEF Idle
  <2>2. m \notin Posts /\ m \notin OpenMsgs /\ m # CloseMsg  BY <2>1 DEF Posts, OpenMsgs, CloseMsg
  <2> QED BY <1>5, <2>1, <2>2
<1> QED BY <1>2, <1>3, <1>4, <1>5 DEF PortMsgs

LEMMA OpenMsgType ==
  ASSUME NEW n \in Nat \ {0}
  PROVE  /\ OpenMsg(n) \in OpenMsgs /\ OpenMsg(n) \in PortMsgs
         /\ \A k \in Nat : OpenMsg(n) = OpenMsg(k) => n = k
<1>1. OpenMsg(n) \in OpenMsgs  BY DEF OpenMsg, OpenMsgs
<1>2. ASSUME NEW k \in Nat, OpenMsg(n) = OpenMsg(k)  PROVE n = k
  <2>1. OpenMsg(n).msg.call = n /\ OpenMsg(k).msg.call = k  BY DEF OpenMsg
  <2> QED BY <2>1, <1>2
<1> QED BY <1>1, <1>2 DEF PortMsgs

LEMMA AnswerTypes ==
  ASSUME NEW a \in Answers
  PROVE  /\ a.type = "opened" <=> a \in OpenedAnswers
         /\ a \in OpenedAnswers => a.ok \in BOOLEAN /\ a = Opened(a.ok)
         /\ a.type = "closed" <=> a = Closed
         /\ a.type = "disconnect" <=> a = Gone
         /\ a.type = "scriptError" <=> a = ScriptError
         /\ a.type = "workDone" <=> a \in Acks
<1>1. CASE a \in Acks
  <2>1. a.type = "workDone"  BY <1>1 DEF Acks
  <2> QED BY <1>1, <2>1 DEF OpenedAnswers, Opened, Closed, Gone, ScriptError
<1>2. CASE a \in OpenedAnswers
  <2>1. a.type = "opened" /\ a.ok \in BOOLEAN /\ a = Opened(a.ok)
    <3>1. CASE a = Opened(TRUE)
      <4>1. Opened(TRUE).type = "opened" /\ Opened(TRUE).ok = TRUE  BY DEF Opened
      <4> QED BY <4>1, <3>1
    <3>2. CASE a = Opened(FALSE)
      <4>1. Opened(FALSE).type = "opened" /\ Opened(FALSE).ok = FALSE  BY DEF Opened
      <4> QED BY <4>1, <3>2
    <3> QED BY <3>1, <3>2, <1>2 DEF OpenedAnswers
  <2> QED BY <1>2, <2>1 DEF Acks, Closed, Gone, ScriptError
<1>3. CASE a \in {Closed, Gone, ScriptError}
  BY <1>3 DEF Acks, OpenedAnswers, Opened, Closed, Gone, ScriptError
<1> QED BY <1>1, <1>2, <1>3 DEF Answers

LEMMA AnswersApart ==
  /\ Opened(TRUE) # Opened(FALSE) /\ Closed \notin OpenedAnswers /\ Gone \notin OpenedAnswers
  /\ ScriptError \notin OpenedAnswers /\ Closed # Gone /\ ScriptError # Gone
  /\ ScriptError # Closed
  /\ \A a \in Acks : a \notin OpenedAnswers /\ a # Closed /\ a # Gone
  /\ \A ok \in BOOLEAN : Opened(ok) \in OpenedAnswers /\ Opened(ok) # Closed /\ Opened(ok) # Gone
                         /\ Opened(ok) \notin Acks /\ (Opened(ok) = Opened(FALSE) => ~ok)
                         /\ (Opened(ok) = Opened(TRUE) => ok)
<1>1. Opened(TRUE) # Opened(FALSE)
  <2>1. Opened(TRUE).ok = TRUE /\ Opened(FALSE).ok = FALSE  BY DEF Opened
  <2> QED BY <2>1
<1>2. \A ok \in BOOLEAN : Opened(ok).type = "opened"  BY DEF Opened
<1>3. Closed.type = "closed" /\ Gone.type = "disconnect" /\ ScriptError.type = "scriptError"
  BY DEF Closed, Gone, ScriptError
<1>4. \A a \in Acks : a.type = "workDone"  BY DEF Acks
<1>5. \A a \in OpenedAnswers : a.type = "opened"  BY <1>2 DEF OpenedAnswers
<1>6. \A ok \in BOOLEAN : Opened(ok) \in OpenedAnswers
  <2> SUFFICES ASSUME NEW ok \in BOOLEAN  PROVE Opened(ok) \in OpenedAnswers  OBVIOUS
  <2>1. CASE ok = TRUE  BY <2>1 DEF OpenedAnswers
  <2>2. CASE ok = FALSE  BY <2>2 DEF OpenedAnswers
  <2> QED BY <2>1, <2>2
<1>7. \A ok \in BOOLEAN : (Opened(ok) = Opened(FALSE) => ~ok) /\ (Opened(ok) = Opened(TRUE) => ok)
  <2> SUFFICES ASSUME NEW ok \in BOOLEAN
               PROVE (Opened(ok) = Opened(FALSE) => ~ok) /\ (Opened(ok) = Opened(TRUE) => ok)
    OBVIOUS
  <2>1. CASE ok = TRUE  BY <2>1, <1>1
  <2>2. CASE ok = FALSE  BY <2>2, <1>1
  <2> QED BY <2>1, <2>2
<1> QED BY <1>1, <1>2, <1>3, <1>4, <1>5, <1>6, <1>7

-----------------------------------------------------------------------------
(* What the steps of a worker and of its driver do to a pipe. *)

LEMMA PipeTakes ==
  ASSUME NEW q, NEW a, NEW h, PipeOK(q, Idle, a, h), q # << >>
  PROVE  PipeOK(Tail(q), Head(q), a, h)
<1>0. PipeTyped(q, Idle, a, h) /\ OneOpen(q, Idle, a, h) /\ CloseEnds(q, Idle, a, h)
  BY DEF PipeOK
<1>1. q \in Seq(PortMsgs)  BY <1>0 DEF PipeTyped
<1>2. /\ Head(q) \in PortMsgs /\ Tail(q) \in Seq(PortMsgs)
      /\ Has(q, OpenMsgs) <=> Head(q) \in OpenMsgs \/ Has(Tail(q), OpenMsgs)
      /\ Once(q, OpenMsgs) => Once(Tail(q), OpenMsgs)
                              /\ (Head(q) \in OpenMsgs => ~Has(Tail(q), OpenMsgs))
  BY <1>1, HasTail
<1>3. AtEnd(q, {CloseMsg}) => /\ AtEnd(Tail(q), {CloseMsg})
                              /\ (Head(q) = CloseMsg => Tail(q) = << >>)
  BY <1>1, HasTail
<1> DEFINE t == Tail(q)
           m == Head(q)
<1> HIDE DEF t, m
<1>4. PipeTyped(t, m, a, h)  BY <1>0, <1>2 DEF PipeTyped, t, m
<1>5. OneOpen(t, m, a, h)  BY <1>0, <1>2 DEF OneOpen, Opening, t, m
<1>6. CloseEnds(t, m, a, h)  BY <1>0, <1>3 DEF CloseEnds, AtRest, t, m
<1> QED BY <1>4, <1>5, <1>6 DEF PipeOK, t, m

(* An answer that is none of those the pipe keeps count of. *)
LEMMA PipeAnswers ==
  ASSUME NEW q, NEW j, NEW a, NEW h, PipeOK(q, j, a, h),
         NEW k \in PortMsgs \cup {Idle}, k = j \/ (k = Idle /\ j # CloseMsg),
         NEW e \in Acks \cup {ScriptError}
  PROVE  PipeOK(q, k, Append(a, e), h)
<1>0. PipeTyped(q, j, a, h) /\ OneOpen(q, j, a, h) /\ CloseEnds(q, j, a, h)
  BY DEF PipeOK
<1>1. a \in Seq(Answers) /\ e \in Answers  BY <1>0 DEF PipeTyped, Answers
<1>2. e \notin OpenedAnswers /\ e # Closed /\ e # Gone /\ e # Opened(FALSE)
  BY AnswersApart DEF OpenedAnswers
<1> DEFINE b == Append(a, e)
<1>3. /\ b \in Seq(Answers) /\ (Has(b, OpenedAnswers) <=> Has(a, OpenedAnswers))
      /\ Once(a, OpenedAnswers) => Once(b, OpenedAnswers)
  BY <1>1, <1>2, HasOne
<1>4. Has(b, {Gone}) <=> Has(a, {Gone})  BY <1>1, <1>2, HasOne
<1>5. Has(b, {Closed}) <=> Has(a, {Closed})  BY <1>1, <1>2, HasOne
<1> DEFINE F == {Opened(FALSE)}
<1>a. e \notin F  BY <1>2
<1>6. Has(b, F) <=> Has(a, F)
  <2> HIDE DEF F
  <2> QED BY <1>1, <1>a, HasOne
<1>7. (k \in OpenMsgs => j \in OpenMsgs) /\ (k = CloseMsg => j = CloseMsg) /\ (j = Idle => k = Idle)
  BY Kinds
<1> HIDE DEF b
<1>8. PipeTyped(q, k, b, h)  BY <1>0, <1>3 DEF PipeTyped
<1>9. OneOpen(q, k, b, h)  BY <1>0, <1>3, <1>4, <1>6, <1>7 DEF OneOpen, Opening, Live
<1>10. CloseEnds(q, k, b, h)  BY <1>0, <1>5, <1>7 DEF CloseEnds, AtRest
<1> QED BY <1>8, <1>9, <1>10 DEF PipeOK, b

(* The native open has succeeded or failed. *)
LEMMA PipeOpens ==
  ASSUME NEW q, NEW j, NEW a, NEW h, PipeOK(q, j, a, h), j \in OpenMsgs, NEW ok \in BOOLEAN
  PROVE  PipeOK(q, Idle, Append(a, Opened(ok)), ok)
<1>0. PipeTyped(q, j, a, h) /\ OneOpen(q, j, a, h) /\ CloseEnds(q, j, a, h)
  BY DEF PipeOK
<1>1. Opened(ok) \in OpenedAnswers /\ Opened(ok) # Closed /\ Opened(ok) # Gone
      /\ (Opened(ok) = Opened(FALSE) => ~ok)
  BY AnswersApart
<1>2. a \in Seq(Answers) /\ Opened(ok) \in Answers  BY <1>0, <1>1 DEF PipeTyped, Answers
<1> DEFINE b == Append(a, Opened(ok))
<1>3. b \in Seq(Answers) /\ (~Has(a, OpenedAnswers) => Once(b, OpenedAnswers))
  BY <1>2, HasOne
<1>4. Has(b, {Gone}) <=> Has(a, {Gone})  BY <1>1, <1>2, HasOne
<1>5. Has(b, {Closed}) <=> Has(a, {Closed})  BY <1>1, <1>2, HasOne
<1> DEFINE F == {Opened(FALSE)}
<1>a. (Opened(ok) \in F => ~ok) /\ F \subseteq OpenedAnswers  BY <1>1 DEF OpenedAnswers
<1>6. Has(b, F) => Has(a, F) \/ ~ok
  <2> HIDE DEF F
  <2> QED BY <1>2, <1>a, HasOne
<1>7. Has(a, F) => Has(a, OpenedAnswers)
  <2> HIDE DEF F
  <2> QED BY <1>a, HasSubset
<1>8. Idle \notin OpenMsgs /\ Idle # CloseMsg /\ j # Idle  BY Kinds
<1> HIDE DEF b
<1>9. /\ ~Has(a, OpenedAnswers) /\ ~Has(a, {Gone}) /\ ~Has(q, OpenMsgs) /\ ~Has(a, {Closed})
  BY <1>0, <1>8 DEF OneOpen, CloseEnds, Opening, Live, AtRest
<1>10. PipeTyped(q, Idle, b, ok)  BY <1>0, <1>3 DEF PipeTyped
<1>11. OneOpen(q, Idle, b, ok)
  BY <1>0, <1>3, <1>4, <1>6, <1>7, <1>8, <1>9 DEF OneOpen, Opening, Live
<1>12. CloseEnds(q, Idle, b, ok)  BY <1>0, <1>5, <1>8, <1>9 DEF CloseEnds, AtRest
<1> QED BY <1>10, <1>11, <1>12 DEF PipeOK, b

(* The worker has released its handle. *)
LEMMA PipeCloses ==
  ASSUME NEW q, NEW a, NEW h, PipeOK(q, CloseMsg, a, h)
  PROVE  PipeOK(q, Idle, Append(a, Closed), FALSE)
<1>0. PipeTyped(q, CloseMsg, a, h) /\ OneOpen(q, CloseMsg, a, h) /\ CloseEnds(q, CloseMsg, a, h)
  BY DEF PipeOK
<1>1. a \in Seq(Answers) /\ Closed \in Answers  BY <1>0 DEF PipeTyped, Answers
<1>2. Closed \notin OpenedAnswers /\ Closed # Gone /\ Closed # Opened(FALSE)
  BY AnswersApart DEF OpenedAnswers
<1> DEFINE b == Append(a, Closed)
<1>3. /\ b \in Seq(Answers) /\ (Has(b, OpenedAnswers) <=> Has(a, OpenedAnswers))
      /\ Once(a, OpenedAnswers) => Once(b, OpenedAnswers)
  BY <1>1, <1>2, HasOne
<1>4. Has(b, {Gone}) <=> Has(a, {Gone})  BY <1>1, <1>2, HasOne
<1>6. Has(b, {Opened(FALSE)}) <=> Has(a, {Opened(FALSE)})  BY <1>1, <1>2, HasOne
<1>7. Idle \notin OpenMsgs /\ Idle # CloseMsg  BY Kinds
<1>8. q = << >>  BY <1>0 DEF CloseEnds, AtRest
<1> HIDE DEF b
<1>9. ~Has(q, OpenMsgs)  BY <1>8, HasNothing
<1>10. PipeTyped(q, Idle, b, FALSE)  BY <1>0, <1>3 DEF PipeTyped
<1>11. OneOpen(q, Idle, b, FALSE)  BY <1>0, <1>3, <1>4, <1>6, <1>7, <1>9 DEF OneOpen, Opening, Live
<1>12. CloseEnds(q, Idle, b, FALSE)  BY <1>0, <1>7, <1>8 DEF CloseEnds, AtRest
<1> QED BY <1>10, <1>11, <1>12 DEF PipeOK, b

(* The device is gone. *)
LEMMA PipeUnplugged ==
  ASSUME NEW q, NEW j, NEW a, PipeOK(q, j, a, TRUE), j \notin OpenMsgs, j # CloseMsg
  PROVE  PipeOK(q, j, Append(a, Gone), FALSE)
<1>0. PipeTyped(q, j, a, TRUE) /\ OneOpen(q, j, a, TRUE) /\ CloseEnds(q, j, a, TRUE)
  BY DEF PipeOK
<1>1. a \in Seq(Answers) /\ Gone \in Answers  BY <1>0 DEF PipeTyped, Answers
<1>2. Gone \notin OpenedAnswers /\ Closed # Gone /\ Gone # Opened(FALSE)
  BY AnswersApart DEF OpenedAnswers
<1> DEFINE b == Append(a, Gone)
<1>3. /\ b \in Seq(Answers) /\ (Has(b, OpenedAnswers) <=> Has(a, OpenedAnswers))
      /\ Once(a, OpenedAnswers) => Once(b, OpenedAnswers)
  BY <1>1, <1>2, HasOne
<1>4. Has(b, {Closed}) <=> Has(a, {Closed})  BY <1>1, <1>2, HasOne
<1>6. Has(b, {Opened(FALSE)}) <=> Has(a, {Opened(FALSE)})  BY <1>1, <1>2, HasOne
<1> HIDE DEF b
<1>9. ~Has(q, OpenMsgs) /\ ~Has(a, {Opened(FALSE)}) /\ ~Has(a, {Closed})
  BY <1>0 DEF OneOpen, CloseEnds, Opening, Live, AtRest
<1>10. PipeTyped(q, j, b, FALSE)  BY <1>0, <1>3 DEF PipeTyped
<1>11. OneOpen(q, j, b, FALSE)  BY <1>0, <1>3, <1>6, <1>9 DEF OneOpen, Opening, Live
<1>12. CloseEnds(q, j, b, FALSE)  BY <1>0, <1>4, <1>9 DEF CloseEnds, AtRest
<1> QED BY <1>10, <1>11, <1>12 DEF PipeOK, b

(* The driver receives an answer. *)
LEMMA PipeReceives ==
  ASSUME NEW q, NEW j, NEW a, NEW h, PipeOK(q, j, a, h), a # << >>
  PROVE  PipeOK(q, j, Tail(a), h)
<1>0. PipeTyped(q, j, a, h) /\ OneOpen(q, j, a, h) /\ CloseEnds(q, j, a, h)
  BY DEF PipeOK
<1>1. a \in Seq(Answers)  BY <1>0 DEF PipeTyped
<1> DEFINE b == Tail(a)
<1>3. /\ b \in Seq(Answers) /\ (Has(b, OpenedAnswers) => Has(a, OpenedAnswers))
      /\ Once(a, OpenedAnswers) => Once(b, OpenedAnswers)
  BY <1>1, HasTail
<1>4. Has(b, {Gone}) => Has(a, {Gone})  BY <1>1, HasTail
<1>5. Has(b, {Closed}) => Has(a, {Closed})  BY <1>1, HasTail
<1>6. Has(b, {Opened(FALSE)}) => Has(a, {Opened(FALSE)})  BY <1>1, HasTail
<1> HIDE DEF b
<1>10. PipeTyped(q, j, b, h)  BY <1>0, <1>3 DEF PipeTyped
<1>11. OneOpen(q, j, b, h)  BY <1>0, <1>3, <1>4, <1>6 DEF OneOpen, Opening, Live
<1>12. CloseEnds(q, j, b, h)  BY <1>0, <1>5 DEF CloseEnds, AtRest
<1> QED BY <1>10, <1>11, <1>12 DEF PipeOK, b

(* The driver asks for an open, of a pipe without one and without a device. *)
LEMMA PipeGetsOpen ==
  ASSUME NEW q, NEW j, NEW a, NEW h, PipeOK(q, j, a, h), ~Owes(q, j, a),
         ~Opening(q, j), ~Has(a, OpenedAnswers), ~Live(a, h),
         NEW n \in Nat \ {0}
  PROVE  PipeOK(Append(q, OpenMsg(n)), j, a, h)
<1>0. PipeTyped(q, j, a, h) /\ OneOpen(q, j, a, h) /\ CloseEnds(q, j, a, h)
  BY DEF PipeOK
<1> DEFINE m == OpenMsg(n)
<1>1. q \in Seq(PortMsgs) /\ m \in PortMsgs /\ m \in OpenMsgs  BY <1>0, OpenMsgType DEF PipeTyped
<1>2. m # CloseMsg  BY <1>1, Kinds
<1> HIDE DEF m
<1> DEFINE t == Append(q, m)
<1>3. t \in Seq(PortMsgs) /\ Once(t, OpenMsgs)  BY <1>1, HasOne DEF Opening
<1>4. ~Has(t, {CloseMsg}) /\ AtEnd(t, {CloseMsg})
  <2>1. Has(t, {CloseMsg}) <=> Has(q, {CloseMsg}) \/ m \in {CloseMsg}  BY <1>1, HasOne
  <2> QED BY <2>1, <1>2 DEF Owes, Has, AtEnd
<1> HIDE DEF t
<1>10. PipeTyped(t, j, a, h)  BY <1>0, <1>3 DEF PipeTyped
<1>11. OneOpen(t, j, a, h)  BY <1>0, <1>3 DEF OneOpen, Opening, Live
<1>12. CloseEnds(t, j, a, h)  BY <1>0, <1>4 DEF CloseEnds, AtRest, Owes
<1> QED BY <1>10, <1>11, <1>12 DEF PipeOK, t, m

(* The driver asks for the close. *)
LEMMA PipeGetsClose ==
  ASSUME NEW q, NEW j, NEW a, NEW h, PipeOK(q, j, a, h), ~Owes(q, j, a)
  PROVE  PipeOK(Append(q, CloseMsg), j, a, h) /\ Has(Append(q, CloseMsg), {CloseMsg})
<1>0. PipeTyped(q, j, a, h) /\ OneOpen(q, j, a, h) /\ CloseEnds(q, j, a, h)
  BY DEF PipeOK
<1>1. q \in Seq(PortMsgs) /\ CloseMsg \in PortMsgs  BY <1>0 DEF PipeTyped, PortMsgs
<1>2. CloseMsg \notin OpenMsgs  BY <1>1, Kinds
<1> DEFINE t == Append(q, CloseMsg)
<1>3. /\ t \in Seq(PortMsgs) /\ (Has(t, OpenMsgs) <=> Has(q, OpenMsgs))
      /\ Once(q, OpenMsgs) => Once(t, OpenMsgs)
  BY <1>1, <1>2, HasOne
<1>4. AtEnd(t, {CloseMsg}) /\ Has(t, {CloseMsg})  BY <1>1, HasOne DEF Owes
<1> HIDE DEF t
<1>10. PipeTyped(t, j, a, h)  BY <1>0, <1>3 DEF PipeTyped
<1>11. OneOpen(t, j, a, h)  BY <1>0, <1>3 DEF OneOpen, Opening, Live
<1>12. CloseEnds(t, j, a, h)  BY <1>0, <1>4 DEF CloseEnds, AtRest, Owes
<1> QED BY <1>4, <1>10, <1>11, <1>12 DEF PipeOK, t

(* The driver posts work. *)
LEMMA PipeGetsWork ==
  ASSUME NEW q, NEW j, NEW a, NEW h, PipeOK(q, j, a, h), ~Owes(q, j, a),
         NEW add \in Seq(Posts)
  PROVE  /\ PipeOK(q \o add, j, a, h) /\ ~Owes(q \o add, j, a)
         /\ Has(q \o add, OpenMsgs) => Has(q, OpenMsgs)
<1>0. PipeTyped(q, j, a, h) /\ OneOpen(q, j, a, h) /\ CloseEnds(q, j, a, h)
  BY DEF PipeOK
<1>1. q \in Seq(PortMsgs)  BY <1>0 DEF PipeTyped
<1>2. add \in Seq(PortMsgs)  BY DEF PortMsgs
<1>3. \A i \in 1..Len(add) : add[i] \in Posts  OBVIOUS
<1>4. \A m \in Posts : m \notin OpenMsgs /\ m # CloseMsg  BY Kinds DEF PortMsgs
<1>5. ~Has(add, OpenMsgs) /\ ~Has(add, {CloseMsg})  BY <1>3, <1>4 DEF Has
<1> DEFINE t == q \o add
<1>6. /\ t \in Seq(PortMsgs) /\ (Has(t, OpenMsgs) <=> Has(q, OpenMsgs))
      /\ Once(q, OpenMsgs) => Once(t, OpenMsgs)
  BY <1>1, <1>2, <1>5, HasAppended
<1>7. ~Has(t, {CloseMsg})  BY <1>1, <1>2, <1>5, HasAppended DEF Owes
<1> HIDE DEF t
<1>8. AtEnd(t, {CloseMsg})  BY <1>7 DEF Has, AtEnd
<1>10. PipeTyped(t, j, a, h)  BY <1>0, <1>6 DEF PipeTyped
<1>11. OneOpen(t, j, a, h)  BY <1>0, <1>6 DEF OneOpen, Opening, Live
<1>12. CloseEnds(t, j, a, h)  BY <1>0, <1>8 DEF CloseEnds, AtRest, Owes
<1> QED BY <1>6, <1>7, <1>10, <1>11, <1>12 DEF PipeOK, Owes, t

-----------------------------------------------------------------------------
(* What a worker's own step does to its pipe: nothing enters at the front, nothing leaves at
   the back, an open is answered once it is in the worker's hands (calls are those it has
   just carried out), and no credit is dropped. *)
PipeMoves(q, j, a, h, q2, j2, a2, h2, calls) ==
    /\ PipeOK(q2, j2, a2, h2)
    /\ \A n \in Nat : OpenOf(n, q2, j2) => OpenOf(n, q, j)
    /\ Opening(q2, j2) => Opening(q, j)
    /\ Owes(q2, j2, a2) <=> Owes(q, j, a)
    /\ Has(a2, OpenedAnswers) => Has(a, OpenedAnswers) \/ Opening(q, j)
    /\ Has(a2, {Opened(TRUE)}) => Has(a, {Opened(TRUE)}) \/ \E n \in calls : j = OpenMsg(n)
    /\ Live(a2, h2) => Live(a, h) \/ Opening(q, j)
    /\ h2 => h \/ Opening(q, j)
    /\ AtRest(q, j, h) => AtRest(q2, j2, h2)
    /\ \A id \in Nat \ {0} : Carries(id, q, j, a) => Carries(id, q2, j2, a2)

LEMMA MovesNothing ==
  ASSUME NEW q, NEW j, NEW a, NEW h, PipeOK(q, j, a, h)
  PROVE  PipeMoves(q, j, a, h, q, j, a, h, {})
  BY DEF PipeMoves

LEMMA MovesTake ==
  ASSUME NEW q, NEW a, NEW h, PipeOK(q, Idle, a, h), q # << >>
  PROVE  PipeMoves(q, Idle, a, h, Tail(q), Head(q), a, h, {})
<1> DEFINE t == Tail(q)
           m == Head(q)
<1>0. PipeOK(t, m, a, h)  BY PipeTakes
<1>1. q \in Seq(PortMsgs)  BY DEF PipeOK, PipeTyped
<1>2. \A S : Has(q, S) <=> m \in S \/ Has(t, S)
  <2> SUFFICES ASSUME NEW S  PROVE Has(q, S) <=> m \in S \/ Has(t, S)  OBVIOUS
  <2> QED BY <1>1, HasTail
<1>3. m \in PortMsgs  BY <1>1, HasTail
<1>4. m # Idle
  <2>1. m \in Posts => m # Idle  BY Kinds
  <2>2. m \in OpenMsgs => m # Idle  BY <1>3, Kinds
  <2>3. CloseMsg # Idle  BY Kinds DEF PortMsgs
  <2> QED BY <1>3, <2>1, <2>2, <2>3 DEF PortMsgs
<1> HIDE DEF t, m
<1>5. \A n \in Nat : OpenOf(n, t, m) => OpenOf(n, q, Idle)  BY <1>2 DEF OpenOf
<1>6. Opening(t, m) => Opening(q, Idle)  BY <1>2 DEF Opening
<1>7. Owes(t, m, a) <=> Owes(q, Idle, a)
  <2>1. Idle # CloseMsg  BY Kinds
  <2> QED BY <2>1, <1>2 DEF Owes
<1>8. ASSUME NEW id \in Nat \ {0}, Carries(id, q, Idle, a)  PROVE Carries(id, t, m, a)
  BY <1>2, <1>3, <1>4, <1>8 DEF Carries
<1>9. Live(a, h) => Live(a, h) \/ Opening(q, Idle)  OBVIOUS
<1>10. PipeMoves(q, Idle, a, h, t, m, a, h, {})
  BY <1>0, <1>5, <1>6, <1>7, <1>8 DEF PipeMoves, AtRest
<1> QED BY <1>10 DEF t, m

(* An appended answer. *)
LEMMA HasAnswer ==
  ASSUME NEW a \in Seq(Answers), NEW e \in Answers
  PROVE  \A S : Has(Append(a, e), S) <=> Has(a, S) \/ e \in S
<1> SUFFICES ASSUME NEW S  PROVE Has(Append(a, e), S) <=> Has(a, S) \/ e \in S  OBVIOUS
<1> QED BY HasOne

LEMMA MovesOpen ==
  ASSUME NEW q, NEW n \in Nat \ {0}, NEW a, NEW h, PipeOK(q, OpenMsg(n), a, h), NEW ok \in BOOLEAN
  PROVE  PipeMoves(q, OpenMsg(n), a, h, q, Idle, Append(a, Opened(ok)), ok,
                   IF ok THEN {n} ELSE {})
<1> DEFINE j == OpenMsg(n)
           b == Append(a, Opened(ok))
           calls == IF ok THEN {n} ELSE {}
<1>1. j \in OpenMsgs /\ j # Idle /\ j # CloseMsg /\ j.id = 0  BY OpenMsgType, Kinds
<1>2. PipeOK(q, Idle, b, ok)
  <2> HIDE DEF j
  <2> QED BY <1>1, PipeOpens DEF j
<1>3. Opened(ok) \in OpenedAnswers /\ Opened(ok) # Closed /\ Opened(ok) # Gone
      /\ Opened(ok) \notin Acks /\ (Opened(ok) = Opened(TRUE) => ok)
  BY AnswersApart
<1>4. a \in Seq(Answers) /\ Opened(ok) \in Answers  BY <1>3 DEF PipeOK, PipeTyped, Answers
<1>5. \A S : Has(b, S) <=> Has(a, S) \/ Opened(ok) \in S  BY <1>4, HasAnswer
<1>6. Idle \notin OpenMsgs /\ Idle # CloseMsg  BY Kinds
<1>7. \A k \in Nat : Idle # OpenMsg(k)
  <2>1. \A k \in Nat : Idle.msg.kind = "idle" /\ OpenMsg(k).msg.kind = "open"  BY DEF Idle, OpenMsg
  <2> QED BY <2>1
<1>8. ok => \E k \in calls : j = OpenMsg(k)  OBVIOUS
<1> HIDE DEF j, b, calls
<1>9. \A k \in Nat : OpenOf(k, q, Idle) => OpenOf(k, q, j)  BY <1>7 DEF OpenOf
<1>10. Opening(q, j) /\ (Opening(q, Idle) => Opening(q, j))  BY <1>1, <1>6 DEF Opening
<1>11. Owes(q, Idle, b) <=> Owes(q, j, a)  BY <1>1, <1>3, <1>5, <1>6 DEF Owes
<1>12. Has(b, {Opened(TRUE)}) => Has(a, {Opened(TRUE)}) \/ \E k \in calls : j = OpenMsg(k)
  BY <1>3, <1>5, <1>8
<1>13. ~AtRest(q, j, h)  BY <1>1 DEF AtRest
<1>14. ASSUME NEW id \in Nat \ {0}, Carries(id, q, j, a)  PROVE Carries(id, q, Idle, b)
  BY <1>1, <1>5, <1>14 DEF Carries
<1>15. PipeMoves(q, j, a, h, q, Idle, b, ok, calls)
  BY <1>2, <1>9, <1>10, <1>11, <1>12, <1>13, <1>14 DEF PipeMoves
<1> QED BY <1>15 DEF j, b, calls

LEMMA MovesClose ==
  ASSUME NEW q, NEW a, NEW h, PipeOK(q, CloseMsg, a, h)
  PROVE  PipeMoves(q, CloseMsg, a, h, q, Idle, Append(a, Closed), FALSE, {})
<1> DEFINE b == Append(a, Closed)
<1>1. CloseMsg # Idle /\ CloseMsg.id = 0 /\ Idle # CloseMsg /\ Idle \notin OpenMsgs
  BY Kinds DEF PortMsgs
<1>2. PipeOK(q, Idle, b, FALSE)  BY PipeCloses
<1>3. Closed \notin OpenedAnswers /\ Closed # Gone /\ Closed # Opened(TRUE)
  BY AnswersApart DEF OpenedAnswers
<1>4. a \in Seq(Answers) /\ Closed \in Answers  BY DEF PipeOK, PipeTyped, Answers
<1>5. \A S : Has(b, S) <=> Has(a, S) \/ Closed \in S  BY <1>4, HasAnswer
<1>7. \A k \in Nat : Idle # OpenMsg(k)
  <2>1. \A k \in Nat : Idle.msg.kind = "idle" /\ OpenMsg(k).msg.kind = "open"  BY DEF Idle, OpenMsg
  <2> QED BY <2>1
<1> HIDE DEF b
<1>9. \A k \in Nat : OpenOf(k, q, Idle) => OpenOf(k, q, CloseMsg)  BY <1>7 DEF OpenOf
<1>10. Opening(q, Idle) => Opening(q, CloseMsg)  BY <1>1 DEF Opening
<1>11. Owes(q, Idle, b) /\ Owes(q, CloseMsg, a)  BY <1>5 DEF Owes
<1>12. Has(b, {Opened(TRUE)}) => Has(a, {Opened(TRUE)})
  <2> DEFINE T == {Opened(TRUE)}
  <2>1. Closed \notin T  BY <1>3
  <2> HIDE DEF T
  <2>2. Has(b, T) => Has(a, T)  BY <2>1, <1>5
  <2> QED BY <2>2 DEF T
<1>13. Has(b, OpenedAnswers) => Has(a, OpenedAnswers)  BY <1>3, <1>5
<1>14. Live(b, FALSE) => Live(a, h)  BY <1>3, <1>5 DEF Live
<1>15. ~AtRest(q, CloseMsg, h)  BY <1>1 DEF AtRest
<1>16. ASSUME NEW id \in Nat \ {0}, Carries(id, q, CloseMsg, a)  PROVE Carries(id, q, Idle, b)
  BY <1>1, <1>5, <1>16 DEF Carries
<1>17. PipeMoves(q, CloseMsg, a, h, q, Idle, b, FALSE, {})
  BY <1>2, <1>9, <1>10, <1>11, <1>12, <1>13, <1>14, <1>15, <1>16 DEF PipeMoves
<1> QED BY <1>17 DEF b

LEMMA MovesWork ==
  ASSUME NEW q, NEW j \in Posts, NEW a, NEW h, PipeOK(q, j, a, h)
  PROVE  PipeMoves(q, j, a, h, q, Idle, Append(a, [type |-> "workDone", ids |-> {j.id}]), h, {})
<1> DEFINE e == [type |-> "workDone", ids |-> {j.id}]
           b == Append(a, e)
<1>1. j \in PortMsgs /\ j.id \in Nat \ {0} /\ j \notin OpenMsgs /\ j # CloseMsg /\ j # Idle
  <2>1. j \in PortMsgs  BY DEF PortMsgs
  <2> QED BY <2>1, Kinds
<1>2. e \in Acks /\ e.ids = {j.id}  BY <1>1 DEF Acks
<1> HIDE DEF e
<1>3. PipeOK(q, Idle, b, h)
  <2>1. Idle \in PortMsgs \cup {Idle} /\ e \in Acks \cup {ScriptError}  BY <1>2
  <2> QED BY <1>1, <2>1, PipeAnswers
<1>4. e \notin OpenedAnswers /\ e # Gone /\ e # Closed /\ e # Opened(TRUE)
  BY <1>2, AnswersApart DEF OpenedAnswers
<1>5. a \in Seq(Answers) /\ e \in Answers  BY <1>2 DEF PipeOK, PipeTyped, Answers
<1>6. \A S : Has(b, S) <=> Has(a, S) \/ e \in S  BY <1>5, HasAnswer
<1>7. Idle \notin OpenMsgs /\ Idle # CloseMsg /\ \A k \in Nat : Idle # OpenMsg(k)
  <2>1. \A k \in Nat : Idle.msg.kind = "idle" /\ OpenMsg(k).msg.kind = "open"  BY DEF Idle, OpenMsg
  <2> QED BY <2>1, Kinds
<1> HIDE DEF b
<1>9. \A k \in Nat : OpenOf(k, q, Idle) => OpenOf(k, q, j)  BY <1>7 DEF OpenOf
<1>10. Opening(q, Idle) => Opening(q, j)  BY <1>7 DEF Opening
<1>11. Owes(q, Idle, b) <=> Owes(q, j, a)  BY <1>1, <1>4, <1>6, <1>7 DEF Owes
<1>12. Has(b, {Opened(TRUE)}) => Has(a, {Opened(TRUE)})
  <2> DEFINE T == {Opened(TRUE)}
  <2>1. e \notin T  BY <1>4
  <2> HIDE DEF T
  <2>2. Has(b, T) => Has(a, T)  BY <2>1, <1>6
  <2> QED BY <2>2 DEF T
<1>13. Has(b, OpenedAnswers) => Has(a, OpenedAnswers)  BY <1>4, <1>6
<1>14. Live(b, h) => Live(a, h)  BY <1>4, <1>6 DEF Live
<1>15. ~AtRest(q, j, h)  BY <1>1 DEF AtRest
<1>16. ASSUME NEW id \in Nat \ {0}, Carries(id, q, j, a)  PROVE Carries(id, q, Idle, b)
  <2>1. id = j.id => e \in {x \in Acks : id \in x.ids}  BY <1>2
  <2> QED BY <2>1, <1>6, <1>16 DEF Carries
<1>17. PipeMoves(q, j, a, h, q, Idle, b, h, {})
  BY <1>3, <1>9, <1>10, <1>11, <1>12, <1>13, <1>14, <1>15, <1>16 DEF PipeMoves
<1> QED BY <1>17 DEF b, e

LEMMA MovesUnplug ==
  ASSUME NEW q, NEW j, NEW a, PipeOK(q, j, a, TRUE), j \notin OpenMsgs, j # CloseMsg
  PROVE  PipeMoves(q, j, a, TRUE, q, j, Append(a, Gone), FALSE, {})
<1> DEFINE b == Append(a, Gone)
<1>1. PipeOK(q, j, b, FALSE)  BY PipeUnplugged
<1>3. Gone \notin OpenedAnswers /\ Closed # Gone /\ Gone # Opened(TRUE) /\ Gone \notin Acks
  BY AnswersApart DEF OpenedAnswers
<1>4. a \in Seq(Answers) /\ Gone \in Answers  BY DEF PipeOK, PipeTyped, Answers
<1>5. \A S : Has(b, S) <=> Has(a, S) \/ Gone \in S  BY <1>4, HasAnswer
<1> HIDE DEF b
<1>11. Owes(q, j, b) <=> Owes(q, j, a)  BY <1>3, <1>5 DEF Owes
<1>12. Has(b, {Opened(TRUE)}) => Has(a, {Opened(TRUE)})
  <2> DEFINE T == {Opened(TRUE)}
  <2>1. Gone \notin T  BY <1>3
  <2> HIDE DEF T
  <2>2. Has(b, T) => Has(a, T)  BY <2>1, <1>5
  <2> QED BY <2>2 DEF T
<1>13. Has(b, OpenedAnswers) => Has(a, OpenedAnswers)  BY <1>3, <1>5
<1>14. Live(a, TRUE)  BY DEF Live
<1>16. ASSUME NEW id \in Nat \ {0}, Carries(id, q, j, a)  PROVE Carries(id, q, j, b)
  BY <1>5, <1>16 DEF Carries
<1>17. PipeMoves(q, j, a, TRUE, q, j, b, FALSE, {})
  BY <1>1, <1>11, <1>12, <1>13, <1>14, <1>16 DEF PipeMoves, AtRest
<1> QED BY <1>17 DEF b

LEMMA MovesError ==
  ASSUME NEW q, NEW j, NEW a, NEW h, PipeOK(q, j, a, h)
  PROVE  PipeMoves(q, j, a, h, q, j, Append(a, ScriptError), h, {})
<1> DEFINE b == Append(a, ScriptError)
<1>1. PipeOK(q, j, b, h)
  <2>1. j \in PortMsgs \cup {Idle} /\ ScriptError \in Acks \cup {ScriptError}
    BY DEF PipeOK, PipeTyped
  <2> QED BY <2>1, PipeAnswers
<1>3. /\ ScriptError \notin OpenedAnswers /\ Closed # ScriptError /\ ScriptError # Opened(TRUE)
      /\ ScriptError # Gone
  BY AnswersApart DEF OpenedAnswers
<1>4. a \in Seq(Answers) /\ ScriptError \in Answers  BY DEF PipeOK, PipeTyped, Answers
<1>5. \A S : Has(b, S) <=> Has(a, S) \/ ScriptError \in S  BY <1>4, HasAnswer
<1> HIDE DEF b
<1>11. Owes(q, j, b) <=> Owes(q, j, a)  BY <1>3, <1>5 DEF Owes
<1>12. Has(b, {Opened(TRUE)}) => Has(a, {Opened(TRUE)})
  <2> DEFINE T == {Opened(TRUE)}
  <2>1. ScriptError \notin T  BY <1>3
  <2> HIDE DEF T
  <2>2. Has(b, T) => Has(a, T)  BY <2>1, <1>5
  <2> QED BY <2>2 DEF T
<1>13. Has(b, OpenedAnswers) => Has(a, OpenedAnswers)  BY <1>3, <1>5
<1>14. Live(b, h) => Live(a, h)  BY <1>3, <1>5 DEF Live
<1>16. ASSUME NEW id \in Nat \ {0}, Carries(id, q, j, a)  PROVE Carries(id, q, j, b)
  BY <1>5, <1>16 DEF Carries
<1>17. PipeMoves(q, j, a, h, q, j, b, h, {})
  BY <1>1, <1>11, <1>12, <1>13, <1>14, <1>16 DEF PipeMoves
<1> QED BY <1>17 DEF b

-----------------------------------------------------------------------------
(* The pipes of a state. *)

LEMMA HostFacts ==
  ASSUME HostInv
  PROVE  /\ worker \in Workers \cup {NoWorker} /\ closing \in Workers \cup {NoWorker}
         /\ NoWorker \notin Workers
         /\ DOMAIN port = Workers /\ DOMAIN job = Workers /\ DOMAIN answers = Workers
         /\ handle \in [Workers -> BOOLEAN]
         /\ opens \in Seq({"pending", "ok", "failed"}) /\ Len(opens) \in Nat
         /\ DOMAIN opens = 1..Len(opens) /\ openReq \in {0, Len(opens)} /\ openReq \in Nat
         /\ inbox = [w \in Workers |-> inbox[w]]
         /\ worker # NoWorker => inbox[worker] = toWorker
         /\ \A w \in Workers : w # worker => inbox[w] = port[w]
  BY HostAssumption DEF HostInv, HostTypeOK, DriverTidy, inbox, Inbox

LEMMA InboxKept ==
  ASSUME UNCHANGED <<worker, toWorker, port>>
  PROVE  inbox' = inbox
  BY DEF inbox, Inbox

(* Detaching a worker leaves its pipe as it is. *)
LEMMA InboxDetached ==
  ASSUME HostInv, worker' = NoWorker, port' = [port EXCEPT ![worker] = toWorker]
  PROVE  inbox' = inbox /\ DOMAIN port' = Workers
<1>1. /\ NoWorker \notin Workers /\ DOMAIN port = Workers /\ worker \in Workers \cup {NoWorker}
  BY HostFacts
<1>2. DOMAIN port' = Workers  BY <1>1
<1>3. \A w \in Workers : port'[w] = IF w = worker THEN toWorker ELSE port[w]  BY <1>1
<1>4. \A w \in Workers : inbox'[w] = inbox[w]
  BY <1>1, <1>3 DEF inbox, Inbox
<1>5. inbox' = [w \in Workers |-> inbox'[w]] /\ inbox = [w \in Workers |-> inbox[w]]
  BY DEF inbox
<1> QED BY <1>2, <1>4, <1>5

(* What the driver hands to its worker is in the worker's pipe. *)
LEMMA InboxHanded ==
  ASSUME HostInv, worker \in Workers, UNCHANGED <<worker, port>>
  PROVE  /\ inbox'[worker] = toWorker' /\ inbox[worker] = toWorker
         /\ \A w \in Workers : w # worker => inbox'[w] = inbox[w]
  BY HostFacts DEF inbox, Inbox

-----------------------------------------------------------------------------
(* The workers' steps. *)

(* Worker w moves its pipe and nothing else; calls are the opens it has carried out. *)
WorkerMoves(w, calls) ==
  /\ ThreadStep
  /\ thread[w] # "unborn"
  /\ thread' \in [Workers -> {"unborn", "loading", "running", "broken", "terminated"}]
  /\ \A v \in Workers : thread'[v] = "unborn" <=> thread[v] = "unborn"
  /\ DOMAIN port' = Workers /\ DOMAIN job' = Workers /\ DOMAIN answers' = Workers
  /\ handle' \in [Workers -> BOOLEAN]
  /\ \A v \in Workers : v # w =>
       inbox'[v] = inbox[v] /\ job'[v] = job[v] /\ answers'[v] = answers[v] /\ handle'[v] = handle[v]
  /\ PipeMoves(inbox[w], job[w], answers[w], handle[w],
               inbox'[w], job'[w], answers'[w], handle'[w], calls)
  /\ openedOk' = openedOk \cup calls
  /\ \A n \in calls : n \in Nat /\ OpenOf(n, inbox[w], job[w])
  /\ worker = NoWorker => toWorker' = << >>

LEMMA WorkerMovesKeeps ==
  ASSUME HostInv, NEW w \in Workers, NEW calls, WorkerMoves(w, calls)
  PROVE  HostInv'
<1>1. /\ UNCHANGED <<queueVars, hostVars, flagVars, client, opens, closeOf, stripLost>>
      /\ openedOk' = openedOk \cup calls
  BY DEF WorkerMoves, ThreadStep
<1>2. \A v \in Workers : v # w =>
        inbox'[v] = inbox[v] /\ job'[v] = job[v] /\ answers'[v] = answers[v] /\ handle'[v] = handle[v]
  BY DEF WorkerMoves
<1>3. PipeMoves(inbox[w], job[w], answers[w], handle[w],
                inbox'[w], job'[w], answers'[w], handle'[w], calls)
  BY DEF WorkerMoves
<1>4. calls \subseteq DOMAIN opens
  BY DEF WorkerMoves, HostInv, CallsKnown
<1>5. HostTypeOK'
  BY <1>1, <1>4 DEF WorkerMoves, HostInv, HostTypeOK, hostVars, flagVars
<1>6. QueueTyped'
  BY <1>1 DEF HostInv, QueueTyped, queueVars
<1>7. PipesOK'
  <2> SUFFICES ASSUME NEW v \in Workers
               PROVE  PipeOK(inbox'[v], job'[v], answers'[v], handle'[v])
    BY DEF PipesOK
  <2>1. CASE v = w  BY <2>1, <1>3 DEF PipeMoves
  <2>2. CASE v # w  BY <2>2, <1>2 DEF HostInv, PipesOK
  <2> QED BY <2>1, <2>2
<1>8. DriverTidy'
  BY <1>1 DEF WorkerMoves, HostInv, DriverTidy, hostVars, queueVars
<1>9. UnbornIdle'
  <2> SUFFICES ASSUME NEW v \in Workers, thread'[v] = "unborn"
               PROVE  /\ v # worker /\ v \notin orphans /\ terminating[v] = "no"
                      /\ closeOf[v] = "none"
                      /\ AtRest(inbox'[v], job'[v], handle'[v]) /\ answers'[v] = << >>
    BY <1>1 DEF UnbornIdle, hostVars
  <2>1. thread[v] = "unborn" /\ v # w  BY DEF WorkerMoves
  <2> QED BY <2>1, <1>2 DEF HostInv, UnbornIdle
<1>10. CallsKnown'
  <2> SUFFICES ASSUME NEW v \in Workers, NEW n \in Nat, OpenOf(n, inbox'[v], job'[v])
               PROVE  n \in DOMAIN opens
    BY <1>1 DEF CallsKnown
  <2>1. OpenOf(n, inbox[v], job[v])  BY <1>2, <1>3 DEF PipeMoves
  <2> QED BY <2>1 DEF HostInv, CallsKnown
<1>11. OpenIsOurs'
  <2> SUFFICES ASSUME worker # NoWorker, closing = NoWorker
               PROVE  /\ ~Owes(inbox'[worker], job'[worker], answers'[worker])
                      /\ \A n \in Nat : OpenOf(n, inbox'[worker], job'[worker]) => n = openReq
                      /\ Has(answers'[worker], OpenedAnswers) => openReq # 0
                      /\ Has(answers'[worker], {Opened(TRUE)}) => openReq \in openedOk'
                      /\ openReq = 0 /\ LastOpen # "ok" => ~Live(answers'[worker], handle'[worker])
    BY <1>1 DEF OpenIsOurs, hostVars, LastOpen
  <2>1. /\ ~Owes(inbox[worker], job[worker], answers[worker])
        /\ \A n \in Nat : OpenOf(n, inbox[worker], job[worker]) => n = openReq
        /\ Has(answers[worker], OpenedAnswers) => openReq # 0
        /\ Has(answers[worker], {Opened(TRUE)}) => openReq \in openedOk
        /\ openReq = 0 /\ LastOpen # "ok" => ~Live(answers[worker], handle[worker])
    BY DEF HostInv, OpenIsOurs
  <2>2. worker \in Workers  BY HostFacts
  <2>3. CASE worker # w  BY <2>1, <2>2, <2>3, <1>1, <1>2
  <2>4. CASE worker = w
    <3>1. Opening(inbox[w], job[w]) => \E n \in Nat \ {0} : OpenOf(n, inbox[w], job[w])
      <4>1. ASSUME NEW m \in OpenMsgs  PROVE \E n \in Nat \ {0} : m = OpenMsg(n)
        <5>1. m \in PortMsgs \cup {Idle}  BY DEF PortMsgs
        <5> QED BY <5>1, Kinds
      <4>2. ASSUME Has(inbox[w], OpenMsgs)
            PROVE  \E n \in Nat \ {0} : Has(inbox[w], {OpenMsg(n)})
        BY <4>1, <4>2 DEF Has
      <4> QED BY <4>1, <4>2 DEF Opening, OpenOf
    <3>2. Opening(inbox[w], job[w]) => openReq # 0  BY <3>1, <2>1, <2>4
    <3>3. \A n \in calls : n = openReq /\ n \in openedOk'  BY <1>1, <2>1, <2>4 DEF WorkerMoves
    <3>4. Has(answers'[w], {Opened(TRUE)}) => Has(answers[w], {Opened(TRUE)}) \/ \E n \in calls : TRUE
      BY <1>3 DEF PipeMoves
    <3>5. Has(answers'[w], {Opened(TRUE)}) => openReq \in openedOk'
      BY <3>3, <3>4, <2>1, <2>4, <1>1
    <3>6. ~Owes(inbox'[w], job'[w], answers'[w])  BY <1>3, <2>1, <2>4 DEF PipeMoves
    <3>7. \A n \in Nat : OpenOf(n, inbox'[w], job'[w]) => n = openReq  BY <1>3, <2>1, <2>4 DEF PipeMoves
    <3>8. Has(answers'[w], OpenedAnswers) => openReq # 0  BY <1>3, <2>1, <2>4, <3>2 DEF PipeMoves
    <3>9. openReq = 0 /\ LastOpen # "ok" => ~Live(answers'[w], handle'[w])
      BY <1>3, <2>1, <2>4, <3>2 DEF PipeMoves
    <3> QED BY <2>4, <3>5, <3>6, <3>7, <3>8, <3>9
  <2> QED BY <2>3, <2>4
<1>12. OpenAnswersItsCall'
  BY <1>1 DEF HostInv, OpenAnswersItsCall
<1>13. CloseOwed'
  <2> SUFFICES ASSUME NEW v \in Workers
               PROVE  /\ v = closing \/ v \in orphans => Owes(inbox'[v], job'[v], answers'[v])
                      /\ v \in orphans => v # worker
    BY <1>1 DEF CloseOwed, hostVars
  <2>1. Owes(inbox[v], job[v], answers[v]) => Owes(inbox'[v], job'[v], answers'[v])
    BY <1>2, <1>3 DEF PipeMoves
  <2> QED BY <2>1 DEF HostInv, CloseOwed
<1>14. LetGo'
  <2> SUFFICES ASSUME NEW v \in Workers
               PROVE  /\ thread'[v] # "unborn" /\ v # worker => terminating[v] # "no" \/ v \in orphans
                      /\ terminating[v] # "no" => v # worker
                      /\ terminating[v] = "closed" => AtRest(inbox'[v], job'[v], handle'[v])
    BY <1>1 DEF LetGo, hostVars
  <2>1. AtRest(inbox[v], job[v], handle[v]) => AtRest(inbox'[v], job'[v], handle'[v])
    BY <1>2, <1>3 DEF PipeMoves
  <2>2. thread'[v] = "unborn" <=> thread[v] = "unborn"  BY DEF WorkerMoves
  <2> QED BY <2>1, <2>2 DEF HostInv, LetGo
<1>15. ClosedForGood'
  <2> SUFFICES ASSUME NEW v \in Workers, closeOf[v] = "resolved"
               PROVE  v # worker /\ ~handle'[v] /\ ~Opening(inbox'[v], job'[v])
    BY <1>1 DEF ClosedForGood, hostVars
  <2>1. v # worker /\ ~handle[v] /\ ~Opening(inbox[v], job[v])  BY DEF HostInv, ClosedForGood
  <2> QED BY <2>1, <1>2, <1>3 DEF PipeMoves
<1>16. CreditsKept'
  <2> SUFFICES ASSUME NEW id \in DOMAIN posted
               PROVE  Carries(id, inbox'[worker], job'[worker], answers'[worker])
    BY <1>1 DEF CreditsKept, hostVars, queueVars
  <2>1. id \in Nat \ {0} /\ worker \in Workers
        /\ Carries(id, inbox[worker], job[worker], answers[worker])
    BY HostFacts DEF HostInv, QueueTyped, DriverTidy, CreditsKept
  <2> QED BY <2>1, <1>2, <1>3 DEF PipeMoves
<1>17. StripPatchHasBase'
  BY <1>1 DEF HostInv, StripPatchHasBase, flagVars
<1> QED BY <1>5, <1>6, <1>7, <1>8, <1>9, <1>10, <1>11, <1>12, <1>13, <1>14, <1>15, <1>16, <1>17
        DEF HostInv

LEMMA LoadsKeeps ==
  ASSUME HostInv, NEW w \in Workers, WorkerLoads(w) \/ WorkerFailsToLoad(w)
  PROVE  HostInv'
<1>1. PipeOK(inbox[w], job[w], answers[w], handle[w])  BY DEF HostInv, PipesOK
<1>2. ThreadStep /\ UNCHANGED <<toWorker, port, job, handle, openedOk>>
  BY DEF WorkerLoads, WorkerFailsToLoad
<1>3. inbox' = inbox  BY <1>2, InboxKept DEF ThreadStep, hostVars
<1>4. answers' = answers \/ answers' = [answers EXCEPT ![w] = Append(@, ScriptError)]
  BY DEF WorkerLoads, WorkerFailsToLoad, Post, ScriptError
<1>5. PipeMoves(inbox[w], job[w], answers[w], handle[w],
                inbox'[w], job'[w], answers'[w], handle'[w], {})
  <2>1. answers'[w] = answers[w] \/ answers'[w] = Append(answers[w], ScriptError)
    BY <1>4, HostFacts
  <2> QED BY <2>1, <1>1, <1>2, <1>3, MovesNothing, MovesError
<1>6. DOMAIN answers' = Workers /\ \A v \in Workers : v # w => answers'[v] = answers[v]
  BY <1>4, HostFacts
<1>7. /\ thread[w] = "loading"
      /\ thread' \in [Workers -> {"unborn", "loading", "running", "broken", "terminated"}]
      /\ \A v \in Workers : thread'[v] = "unborn" <=> thread[v] = "unborn"
  BY DEF HostInv, HostTypeOK, WorkerLoads, WorkerFailsToLoad
<1>8. WorkerMoves(w, {})
  BY <1>2, <1>3, <1>5, <1>6, <1>7, HostFacts DEF WorkerMoves, HostInv, DriverTidy
<1> QED BY <1>8, WorkerMovesKeeps

(* The message worker w handles is now k. *)
JobBecomes(w, k) ==
  DOMAIN job' = Workers /\ job'[w] = k /\ \A v \in Workers : v # w => job'[v] = job[v]

(* Worker w has carried out these opens, which were in its pipe. *)
CarriedOut(w, calls) ==
  /\ openedOk' = openedOk \cup calls
  /\ \A n \in calls : n \in Nat /\ OpenOf(n, inbox[w], job[w])

(* A step of a running worker that leaves its life cycle alone. *)
LEMMA RunningMoves ==
  ASSUME HostInv, NEW w \in Workers, NEW calls, ThreadStep, thread[w] = "running",
         UNCHANGED <<thread, toWorker, port>>,
         NEW k, JobBecomes(w, k),
         NEW h \in BOOLEAN, handle' = [handle EXCEPT ![w] = h],
         NEW e, answers' = [answers EXCEPT ![w] = Append(@, e)],
         PipeMoves(inbox[w], job[w], answers[w], handle[w], inbox[w], k, Append(answers[w], e), h, calls),
         CarriedOut(w, calls)
  PROVE  HostInv'
<1>1. inbox' = inbox  BY InboxKept DEF ThreadStep, hostVars
<1>2. /\ DOMAIN answers' = Workers /\ handle' \in [Workers -> BOOLEAN]
      /\ answers'[w] = Append(answers[w], e) /\ handle'[w] = h
      /\ \A v \in Workers : v # w => answers'[v] = answers[v] /\ handle'[v] = handle[v]
  BY HostFacts
<1>3. thread \in [Workers -> {"unborn", "loading", "running", "broken", "terminated"}]
      /\ (worker = NoWorker => toWorker = << >>) /\ DOMAIN port = Workers
  BY DEF HostInv, HostTypeOK, DriverTidy
<1>4. WorkerMoves(w, calls)  BY <1>1, <1>2, <1>3 DEF WorkerMoves, JobBecomes, CarriedOut
<1> QED BY <1>4, WorkerMovesKeeps

LEMMA TakesKeeps ==
  ASSUME HostInv, NEW w \in Workers, WorkerTakes(w)
  PROVE  HostInv'
<1>1. PipeOK(inbox[w], job[w], answers[w], handle[w])  BY DEF HostInv, PipesOK
<1>2. /\ ThreadStep /\ UNCHANGED <<thread, handle, answers, openedOk>>
      /\ thread[w] = "running" /\ job[w] = Idle /\ inbox[w] # << >>
      /\ job' = [job EXCEPT ![w] = Head(inbox[w])]
  BY DEF WorkerTakes, inbox
<1>3. UNCHANGED worker  BY <1>2 DEF ThreadStep, hostVars
<1>4. /\ inbox'[w] = Tail(inbox[w]) /\ DOMAIN port' = Workers
      /\ \A v \in Workers : v # w => inbox'[v] = inbox[v]
      /\ worker = NoWorker => toWorker' = << >>
  <2>0. /\ DOMAIN port = Workers /\ (worker = NoWorker => toWorker = << >>) /\ NoWorker \notin Workers
        /\ worker # NoWorker => inbox[worker] = toWorker
        /\ \A v \in Workers : v # worker => inbox[v] = port[v]
    BY HostFacts DEF HostInv, DriverTidy
  <2>1. CASE w = worker
    <3>1. toWorker' = Tail(toWorker) /\ UNCHANGED port  BY <2>1 DEF WorkerTakes
    <3>2. inbox'[w] = toWorker'  BY <2>1, <1>3 DEF inbox, Inbox
    <3>3. \A v \in Workers : v # w => inbox'[v] = port[v]  BY <3>1, <2>1, <1>3 DEF inbox, Inbox
    <3> QED BY <2>0, <2>1, <3>1, <3>2, <3>3
  <2>2. CASE w # worker
    <3>1. port' = [port EXCEPT ![w] = Tail(@)] /\ UNCHANGED toWorker  BY <2>2 DEF WorkerTakes
    <3>2. inbox'[w] = port'[w]  BY <2>2, <1>3 DEF inbox, Inbox
    <3>3. \A v \in Workers : v # w => inbox'[v] = inbox[v]
      BY <2>0, <3>1, <1>3 DEF inbox, Inbox
    <3> QED BY <2>0, <2>2, <3>1, <3>2, <3>3
  <2> QED BY <2>1, <2>2
<1>5. PipeMoves(inbox[w], job[w], answers[w], handle[w],
                inbox'[w], job'[w], answers'[w], handle'[w], {})
  <2>1. job'[w] = Head(inbox[w])  BY <1>2, HostFacts
  <2>2. PipeOK(inbox[w], Idle, answers[w], handle[w])  BY <1>1, <1>2
  <2>3. PipeMoves(inbox[w], Idle, answers[w], handle[w], Tail(inbox[w]), Head(inbox[w]),
                  answers[w], handle[w], {})
    BY <2>2, <1>2, MovesTake
  <2> QED BY <2>1, <2>3, <1>2, <1>4
<1>6. DOMAIN job' = Workers /\ \A v \in Workers : v # w => job'[v] = job[v]
  BY <1>2, HostFacts
<1>7. thread \in [Workers -> {"unborn", "loading", "running", "broken", "terminated"}]
  BY DEF HostInv, HostTypeOK
<1>8. WorkerMoves(w, {})
  BY <1>2, <1>4, <1>5, <1>6, <1>7, HostFacts DEF WorkerMoves
<1> QED BY <1>8, WorkerMovesKeeps

LEMMA OpenedKeeps ==
  ASSUME HostInv, NEW w \in Workers, NEW ok \in BOOLEAN, WorkerOpened(w, ok)
  PROVE  HostInv'
<1>1. PipeOK(inbox[w], job[w], answers[w], handle[w])  BY DEF HostInv, PipesOK
<1>2. job[w] \in PortMsgs \cup {Idle}  BY <1>1 DEF PipeOK, PipeTyped
<1>3. /\ ThreadStep /\ UNCHANGED <<thread, toWorker, port>>
      /\ thread[w] = "running" /\ job[w].msg.kind = "open"
      /\ job' = [job EXCEPT ![w] = Idle] /\ handle' = [handle EXCEPT ![w] = ok]
      /\ openedOk' = IF ok THEN openedOk \cup {job[w].msg.call} ELSE openedOk
      /\ answers' = [answers EXCEPT ![w] = Append(@, Opened(ok))]
  BY DEF WorkerOpened, Post, Opened
<1>4. PICK n \in Nat \ {0} : job[w] = OpenMsg(n) /\ job[w].msg.call = n  BY <1>2, <1>3, Kinds
<1> DEFINE calls == IF ok THEN {n} ELSE {}
<1>5. PipeOK(inbox[w], OpenMsg(n), answers[w], handle[w])  BY <1>1, <1>4
<1>6. PipeMoves(inbox[w], OpenMsg(n), answers[w], handle[w], inbox[w], Idle,
                Append(answers[w], Opened(ok)), ok, calls)
  BY <1>5, MovesOpen
<1>7. CarriedOut(w, calls)  BY <1>3, <1>4 DEF OpenOf, CarriedOut
<1> HIDE DEF calls
<1>9. PipeMoves(inbox[w], job[w], answers[w], handle[w], inbox[w], Idle,
                Append(answers[w], Opened(ok)), ok, calls)
  BY <1>4, <1>6
<1>j. JobBecomes(w, Idle)  BY <1>3, HostFacts DEF JobBecomes
<1> QED BY <1>3, <1>7, <1>9, <1>j, RunningMoves

LEMMA ClosedKeeps ==
  ASSUME HostInv, NEW w \in Workers, WorkerClosed(w)
  PROVE  HostInv'
<1>1. PipeOK(inbox[w], job[w], answers[w], handle[w])  BY DEF HostInv, PipesOK
<1>2. job[w] \in PortMsgs \cup {Idle}  BY <1>1 DEF PipeOK, PipeTyped
<1>3. /\ ThreadStep /\ UNCHANGED <<thread, toWorker, port, openedOk>>
      /\ thread[w] = "running" /\ job[w].msg.kind = "close"
      /\ job' = [job EXCEPT ![w] = Idle] /\ handle' = [handle EXCEPT ![w] = FALSE]
      /\ answers' = [answers EXCEPT ![w] = Append(@, Closed)]
  BY DEF WorkerClosed, Post, Closed
<1>4. job[w] = CloseMsg  BY <1>2, <1>3, Kinds
<1>5. PipeMoves(inbox[w], job[w], answers[w], handle[w], inbox[w], Idle,
                Append(answers[w], Closed), FALSE, {})
  BY <1>1, <1>4, MovesClose
<1>j. JobBecomes(w, Idle)  BY <1>3, HostFacts DEF JobBecomes
<1>n. CarriedOut(w, {})  BY <1>3 DEF CarriedOut
<1> QED BY <1>3, <1>5, <1>j, <1>n, RunningMoves

LEMMA WorkedKeeps ==
  ASSUME HostInv, NEW w \in Workers, WorkerWorked(w)
  PROVE  HostInv'
<1>1. PipeOK(inbox[w], job[w], answers[w], handle[w])  BY DEF HostInv, PipesOK
<1>2. job[w] \in PortMsgs \cup {Idle}  BY <1>1 DEF PipeOK, PipeTyped
<1> DEFINE e == [type |-> "workDone", ids |-> {job[w].id}]
<1>3. /\ ThreadStep /\ UNCHANGED <<thread, toWorker, port, handle, openedOk>>
      /\ thread[w] = "running" /\ job[w].msg.kind \in {"image", "touch", "control"}
      /\ job' = [job EXCEPT ![w] = Idle]
      /\ answers' = [answers EXCEPT ![w] = Append(@, e)]
  BY DEF WorkerWorked, Post
<1>4. job[w] \in Posts  BY <1>2, <1>3, Kinds
<1>5. PipeMoves(inbox[w], job[w], answers[w], handle[w], inbox[w], Idle,
                Append(answers[w], e), handle[w], {})
  BY <1>1, <1>4, MovesWork
<1>7. handle' = [handle EXCEPT ![w] = handle[w]] /\ handle[w] \in BOOLEAN  BY <1>3, HostFacts
<1>j. JobBecomes(w, Idle)  BY <1>3, HostFacts DEF JobBecomes
<1>n. CarriedOut(w, {})  BY <1>3 DEF CarriedOut
<1> HIDE DEF e
<1> QED BY <1>3, <1>5, <1>7, <1>j, <1>n, RunningMoves

LEMMA UnpluggedKeeps ==
  ASSUME HostInv, NEW w \in Workers, WorkerUnplugged(w)
  PROVE  HostInv'
<1>1. PipeOK(inbox[w], job[w], answers[w], handle[w])  BY DEF HostInv, PipesOK
<1>2. job[w] \in PortMsgs \cup {Idle}  BY <1>1 DEF PipeOK, PipeTyped
<1>3. /\ ThreadStep /\ UNCHANGED <<thread, toWorker, port, job, openedOk>>
      /\ thread[w] = "running" /\ job[w].msg.kind \notin {"open", "close"} /\ handle[w]
      /\ handle' = [handle EXCEPT ![w] = FALSE]
      /\ answers' = [answers EXCEPT ![w] = Append(@, Gone)]
  BY DEF WorkerUnplugged, Post, Gone
<1>4. job[w] \notin OpenMsgs /\ job[w] # CloseMsg  BY <1>2, <1>3, Kinds
<1>5. handle[w] = TRUE  BY <1>3, HostFacts
<1>6. PipeMoves(inbox[w], job[w], answers[w], handle[w], inbox[w], job[w],
                Append(answers[w], Gone), FALSE, {})
  BY <1>1, <1>4, <1>5, MovesUnplug
<1>n. CarriedOut(w, {})  BY <1>3 DEF CarriedOut
<1>8. JobBecomes(w, job[w])  BY <1>3, HostFacts DEF JobBecomes
<1> QED BY <1>3, <1>6, <1>8, <1>n, RunningMoves

(* Terminating a thread changes nothing but its life cycle. *)
LEMMA TerminateKeeps ==
  ASSUME HostInv, NEW w \in Workers, Terminate(w)
  PROVE  HostInv'
<1>1. PipeMoves(inbox[w], job[w], answers[w], handle[w],
                inbox[w], job[w], answers[w], handle[w], {})
  BY MovesNothing DEF HostInv, PipesOK
<1>2. /\ UNCHANGED <<queueVars, toWorker, hostVars, flagVars, port, job, handle, answers, ledgerVars>>
      /\ terminating[w] # "no" /\ thread' = [thread EXCEPT ![w] = "terminated"]
  BY DEF Terminate
<1>3. inbox' = inbox  BY <1>2, InboxKept DEF hostVars
<1>4. thread[w] # "unborn"  BY <1>2 DEF HostInv, UnbornIdle
<1>5. /\ thread' \in [Workers -> {"unborn", "loading", "running", "broken", "terminated"}]
      /\ \A v \in Workers : thread'[v] = "unborn" <=> thread[v] = "unborn"
  BY <1>2, <1>4 DEF HostInv, HostTypeOK
<1>6. ThreadStep /\ openedOk' = openedOk \cup {}
  BY <1>2 DEF ThreadStep, ledgerVars
<1>7. WorkerMoves(w, {})
  BY <1>1, <1>2, <1>3, <1>4, <1>5, <1>6, HostFacts DEF WorkerMoves, HostInv, DriverTidy
<1> QED BY <1>7, WorkerMovesKeeps

-----------------------------------------------------------------------------
(* Steps of the driver that leave the pipes alone. *)

(* The parts of the invariant that are about the pipes and the driver's calls. *)
PipeParts ==
  /\ PipesOK /\ UnbornIdle /\ CallsKnown /\ OpenIsOurs /\ OpenAnswersItsCall
  /\ CloseOwed /\ LetGo /\ ClosedForGood

LEMMA PipePartsKept ==
  ASSUME HostInv, inbox' = inbox, UNCHANGED <<hostVars, thread, job, handle, answers, opens,
                                              openedOk, closeOf>>
  PROVE  PipeParts'
<1>1. PipesOK'  BY DEF HostInv, PipesOK
<1>2. UnbornIdle'  BY DEF HostInv, UnbornIdle, hostVars
<1>3. CallsKnown'  BY DEF HostInv, CallsKnown
<1>4. OpenIsOurs'  BY DEF HostInv, OpenIsOurs, hostVars, LastOpen
<1>5. OpenAnswersItsCall'  BY DEF HostInv, OpenAnswersItsCall
<1>6. CloseOwed'  BY DEF HostInv, CloseOwed, hostVars
<1>7. LetGo'  BY DEF HostInv, LetGo, hostVars
<1>8. ClosedForGood'  BY DEF HostInv, ClosedForGood, hostVars
<1> QED BY <1>1, <1>2, <1>3, <1>4, <1>5, <1>6, <1>7, <1>8 DEF PipeParts

(* A message that is refused, a client that comes or goes: the queue stays as it is. *)
LEMMA QuietKeeps ==
  ASSUME HostInv, UNCHANGED <<queueVars, toWorker, hostVars, threadVars, opens, openedOk, closeOf>>,
         coraSuspended' \in BOOLEAN, localSuspended' \in BOOLEAN, needStripBase' \in BOOLEAN,
         client' \in {"none", "up", "dropping"}, stripLost' \in BOOLEAN, StripPatchHasBase'
  PROVE  HostInv'
<1>1. inbox' = inbox  BY InboxKept DEF hostVars, threadVars
<1>2. PipeParts'  BY <1>1, PipePartsKept DEF threadVars
<1>3. HostTypeOK'  BY DEF HostInv, HostTypeOK, hostVars, threadVars
<1>4. QueueTyped'  BY DEF HostInv, QueueTyped, queueVars
<1>5. DriverTidy'  BY DEF HostInv, DriverTidy, queueVars, hostVars
<1>6. CreditsKept'  BY <1>1 DEF HostInv, CreditsKept, queueVars, hostVars, threadVars
<1> QED BY <1>2, <1>3, <1>4, <1>5, <1>6 DEF HostInv, PipeParts

LEMMA FlagTypes ==
  ASSUME HostInv
  PROVE  /\ coraSuspended \in BOOLEAN /\ localSuspended \in BOOLEAN /\ needStripBase \in BOOLEAN
         /\ client \in {"none", "up", "dropping"} /\ stripLost \in BOOLEAN
         /\ stripLost => coraSuspended \/ needStripBase
  BY DEF HostInv, HostTypeOK, StripPatchHasBase

LEMMA MessageFlags ==
  ASSUME NEW m \in WorkMessages
  PROVE  /\ m.kind \in {"image", "touch", "control"} /\ m.local \in BOOLEAN /\ m.patch \in BOOLEAN
         /\ m.local => m.kind = "image"
  BY HostAssumption

LEMMA DroppedKeeps ==
  ASSUME HostInv, NEW m \in WorkMessages, SubmitDropped(m)
  PROVE  HostInv'
<1>1. /\ UNCHANGED <<queueVars, toWorker, hostVars, coraSuspended, localSuspended, threadVars,
                     client, opens, openedOk, closeOf>>
      /\ AwaitsBase(m) \/ IsSuspended(m)
      /\ needStripBase' = (needStripBase /\ (m.kind # "touch" \/ m.patch))
      /\ stripLost' = (stripLost \/ m.kind = "touch")
  BY DEF SubmitDropped
<1>2. StripPatchHasBase'
  BY <1>1, FlagTypes, MessageFlags DEF StripPatchHasBase, AwaitsBase, IsSuspended
<1>3. needStripBase' \in BOOLEAN /\ stripLost' \in BOOLEAN
  BY <1>1, FlagTypes, MessageFlags
<1> QED BY <1>1, <1>2, <1>3, FlagTypes, QuietKeeps

LEMMA ClientKeeps ==
  ASSUME HostInv, ClientConnects \/ ClientGone
  PROVE  HostInv'
<1>1. CASE ClientConnects
  <2>1. /\ UNCHANGED <<queueVars, toWorker, hostVars, localSuspended, threadVars, opens, openedOk,
                       closeOf, stripLost>>
        /\ client' = "up" /\ ResumeImages
    BY <1>1 DEF ClientConnects
  <2>2. /\ coraSuspended' \in BOOLEAN /\ needStripBase' \in BOOLEAN
        /\ coraSuspended \/ needStripBase => coraSuspended' \/ needStripBase'
    BY <2>1, FlagTypes DEF ResumeImages
  <2>3. StripPatchHasBase'  BY <2>1, <2>2, FlagTypes DEF StripPatchHasBase
  <2> QED BY <2>1, <2>2, <2>3, FlagTypes, QuietKeeps
<1>2. CASE ClientGone
  <2>1. /\ UNCHANGED <<queueVars, toWorker, hostVars, flagVars, threadVars, opens, openedOk,
                       closeOf, stripLost>>
        /\ client' = "none"
    BY <1>2 DEF ClientGone
  <2>2. StripPatchHasBase'  BY <2>1, FlagTypes DEF StripPatchHasBase, flagVars
  <2> QED BY <2>1, <2>2, FlagTypes, QuietKeeps DEF flagVars
<1> QED BY <1>1, <1>2

-----------------------------------------------------------------------------
(* Work for the worker. *)

(* The driver has received at most the first answer of its worker. *)
Heard ==
  \/ answers' = answers
  \/ answers[worker] # << >> /\ answers' = [answers EXCEPT ![worker] = Tail(@)]

(* The worker's pipe gets posts at its end. *)
LEMMA WorkPosted ==
  ASSUME HostInv, worker # NoWorker, closing = NoWorker,
         NEW add \in Seq(Posts), toWorker' = toWorker \o add,
         UNCHANGED <<hostVars, thread, port, job, handle, opens, openedOk, closeOf>>,
         Heard
  PROVE  /\ PipeParts'
         /\ worker \in Workers
         /\ inbox'[worker] = inbox[worker] \o add
         /\ \A S : Has(inbox'[worker], S) <=> Has(inbox[worker], S) \/ Has(add, S)
<1>0. worker \in Workers  BY HostFacts
<1>1. /\ inbox'[worker] = inbox[worker] \o add
      /\ \A v \in Workers : v # worker => inbox'[v] = inbox[v]
  BY <1>0, InboxHanded DEF hostVars
<1>2. PipeOK(inbox[worker], job[worker], answers[worker], handle[worker])
  BY <1>0 DEF HostInv, PipesOK
<1>3. /\ ~Owes(inbox[worker], job[worker], answers[worker])
      /\ \A n \in Nat : OpenOf(n, inbox[worker], job[worker]) => n = openReq
      /\ Has(answers[worker], OpenedAnswers) => openReq # 0
      /\ Has(answers[worker], {Opened(TRUE)}) => openReq \in openedOk
      /\ openReq = 0 /\ LastOpen # "ok" => ~Live(answers[worker], handle[worker])
  BY DEF HostInv, OpenIsOurs
<1>a. /\ PipeOK(inbox[worker], job[worker], answers'[worker], handle[worker])
      /\ \A S : Has(answers'[worker], S) => Has(answers[worker], S)
      /\ DOMAIN answers' = Workers /\ \A v \in Workers : v # worker => answers'[v] = answers[v]
  <2>1. CASE answers' = answers  BY <2>1, <1>2, HostFacts
  <2>2. CASE answers[worker] # << >> /\ answers' = [answers EXCEPT ![worker] = Tail(@)]
    <3>1. /\ answers'[worker] = Tail(answers[worker]) /\ DOMAIN answers' = Workers
          /\ \A v \in Workers : v # worker => answers'[v] = answers[v]
      BY <2>2, <1>0, HostFacts
    <3>2. \A S : Has(Tail(answers[worker]), S) => Has(answers[worker], S)
      <4> SUFFICES ASSUME NEW S  PROVE Has(Tail(answers[worker]), S) => Has(answers[worker], S)
        OBVIOUS
      <4>1. answers[worker] \in Seq(Answers)  BY <1>2 DEF PipeOK, PipeTyped
      <4> QED BY <4>1, <2>2, HasTail
    <3>3. PipeOK(inbox[worker], job[worker], Tail(answers[worker]), handle[worker])
      BY <2>2, <1>2, PipeReceives
    <3> QED BY <3>1, <3>2, <3>3
  <2> QED BY <2>1, <2>2 DEF Heard
<1>b. /\ ~Owes(inbox[worker], job[worker], answers'[worker])
      /\ Has(answers'[worker], OpenedAnswers) => openReq # 0
      /\ Has(answers'[worker], {Opened(TRUE)}) => openReq \in openedOk
      /\ openReq = 0 /\ LastOpen # "ok" => ~Live(answers'[worker], handle[worker])
  BY <1>3, <1>a DEF Owes, Live
<1>4. /\ PipeOK(inbox'[worker], job[worker], answers'[worker], handle[worker])
      /\ ~Owes(inbox'[worker], job[worker], answers'[worker])
      /\ Has(inbox'[worker], OpenMsgs) => Has(inbox[worker], OpenMsgs)
  BY <1>1, <1>a, <1>b, PipeGetsWork
<1>5. \A S : Has(inbox'[worker], S) <=> Has(inbox[worker], S) \/ Has(add, S)
  <2>1. inbox[worker] \in Seq(PortMsgs) /\ add \in Seq(PortMsgs)
    BY <1>2 DEF PipeOK, PipeTyped, PortMsgs
  <2> SUFFICES ASSUME NEW S  PROVE Has(inbox'[worker], S) <=> Has(inbox[worker], S) \/ Has(add, S)
    OBVIOUS
  <2> QED BY <2>1, <1>1, HasAppended
<1>6. \A n \in Nat : OpenOf(n, inbox'[worker], job[worker]) => OpenOf(n, inbox[worker], job[worker])
  <2> SUFFICES ASSUME NEW n \in Nat, Has(inbox'[worker], {OpenMsg(n)})
               PROVE  Has(inbox[worker], {OpenMsg(n)})
    BY DEF OpenOf
  <2>1. ~Has(add, {OpenMsg(n)})
    <3>1. \A i \in 1..Len(add) : add[i] \in Posts  OBVIOUS
    <3>2. \A x \in Posts : x.id # 0  BY DEF Posts
    <3>3. OpenMsg(n).id = 0  BY DEF OpenMsg
    <3> QED BY <3>1, <3>2, <3>3 DEF Has
  <2> QED BY <2>1, <1>5
<1>7. Opening(inbox'[worker], job[worker]) => Opening(inbox[worker], job[worker])
  BY <1>4 DEF Opening
<1>8. PipesOK'  BY <1>1, <1>4, <1>a DEF HostInv, PipesOK, hostVars
<1>9. UnbornIdle'  BY <1>1, <1>a DEF HostInv, UnbornIdle, hostVars
<1>10. CallsKnown'
  <2> SUFFICES ASSUME NEW v \in Workers, NEW n \in Nat, OpenOf(n, inbox'[v], job[v])
               PROVE  n \in DOMAIN opens
    BY DEF CallsKnown
  <2>1. OpenOf(n, inbox[v], job[v])  BY <1>1, <1>6
  <2> QED BY <2>1 DEF HostInv, CallsKnown
<1>11. OpenIsOurs'
  BY <1>3, <1>b, <1>4, <1>6 DEF OpenIsOurs, LastOpen, hostVars
<1>12. OpenAnswersItsCall'  BY DEF HostInv, OpenAnswersItsCall
<1>13. CloseOwed'
  <2> SUFFICES ASSUME NEW v \in Workers
               PROVE  /\ v = closing \/ v \in orphans => Owes(inbox'[v], job[v], answers'[v])
                      /\ v \in orphans => v # worker
    BY DEF CloseOwed, hostVars
  <2>1. v # closing  BY HostFacts
  <2> QED BY <2>1, <1>1, <1>a DEF HostInv, CloseOwed
<1>14. LetGo'
  <2> SUFFICES ASSUME NEW v \in Workers
               PROVE  /\ thread[v] # "unborn" /\ v # worker => terminating[v] # "no" \/ v \in orphans
                      /\ terminating[v] # "no" => v # worker
                      /\ terminating[v] = "closed" => AtRest(inbox'[v], job[v], handle[v])
    BY DEF LetGo, hostVars
  <2> QED BY <1>1 DEF HostInv, LetGo
<1>15. ClosedForGood'
  <2> SUFFICES ASSUME NEW v \in Workers, closeOf[v] = "resolved"
               PROVE  v # worker /\ ~handle[v] /\ ~Opening(inbox'[v], job[v])
    BY DEF ClosedForGood, hostVars
  <2> QED BY <1>1 DEF HostInv, ClosedForGood
<1>16. PipeParts'
  BY <1>8, <1>9, <1>10, <1>11, <1>12, <1>13, <1>14, <1>15 DEF PipeParts
<1> QED BY <1>0, <1>1, <1>5, <1>16

(* A message is posted at once. *)
LEMMA PostedKeeps ==
  ASSUME HostInv, NEW m \in WorkMessages, worker # NoWorker, closing = NoWorker,
         SubmitPosted(m),
         UNCHANGED <<hostVars, threadVars, coraSuspended, localSuspended, client, opens, openedOk,
                     closeOf>>,
         needStripBase' \in BOOLEAN, stripLost' \in BOOLEAN, StripPatchHasBase'
  PROVE  HostInv'
<1> DEFINE e == Sent(m, nextId)
<1>0. nextId \in Nat \ {0} /\ waiting \in Seq(WorkMessages) /\ DOMAIN posted \subseteq Nat \ {0}
  BY DEF HostInv, QueueTyped
<1>1. e \in Posts /\ e.id = nextId /\ e \in PortMsgs  BY <1>0 DEF Sent, Posts, PortMsgs
<1>2. toWorker' = Append(toWorker, e) /\ nextId' = nextId + 1 /\ waiting' = waiting
      /\ posted' = Merge(posted, Entry(nextId, m.bytes))
  BY DEF SubmitPosted
<1> HIDE DEF e
<1>3. toWorker' = toWorker \o <<e>>
  <2>1. toWorker \in Seq(PortMsgs)
    <3>1. worker \in Workers /\ inbox[worker] = toWorker  BY HostFacts
    <3> QED BY <3>1 DEF HostInv, PipesOK, PipeOK, PipeTyped
  <2> QED BY <2>1, <1>1, <1>2
<1>4. <<e>> \in Seq(Posts)  BY <1>1
<1>5. Heard  BY DEF Heard, threadVars
<1>6. /\ PipeParts' /\ worker \in Workers
      /\ \A S : Has(inbox'[worker], S) <=> Has(inbox[worker], S) \/ Has(<<e>>, S)
  BY <1>3, <1>4, <1>5, WorkPosted DEF threadVars
<1>7. DOMAIN posted' = DOMAIN posted \cup {nextId}  BY <1>2 DEF Merge, Entry
<1>8. HostTypeOK'  BY DEF HostInv, HostTypeOK, hostVars, threadVars
<1>9. QueueTyped'  BY <1>0, <1>2, <1>7 DEF QueueTyped
<1>10. DriverTidy'  BY DEF HostInv, DriverTidy, hostVars
<1>11. CreditsKept'
  <2> SUFFICES ASSUME NEW id \in DOMAIN posted'
               PROVE  Carries(id, inbox'[worker], job[worker], answers[worker])
    BY DEF CreditsKept, hostVars, threadVars
  <2>1. CASE id \in DOMAIN posted
    <3>1. Carries(id, inbox[worker], job[worker], answers[worker])
      BY <2>1 DEF HostInv, CreditsKept
    <3> QED BY <3>1, <1>6 DEF Carries
  <2>2. CASE id = nextId
    <3>1. Has(<<e>>, {x \in PortMsgs : x.id = id})  BY <2>2, <1>1 DEF Has
    <3> QED BY <3>1, <1>6 DEF Carries
  <2> QED BY <2>1, <2>2, <1>7
<1> QED BY <1>6, <1>8, <1>9, <1>10, <1>11 DEF HostInv, PipeParts

(* A message that waits, and one that postMessage throws for, leave the worker as it is. *)
LEMMA QueuedKeeps ==
  ASSUME HostInv, NEW m \in WorkMessages, worker # NoWorker, closing = NoWorker,
         SubmitWaiting(m) \/ SubmitFailed(m),
         UNCHANGED <<hostVars, threadVars, coraSuspended, localSuspended, client, opens, openedOk,
                     closeOf>>,
         needStripBase' \in BOOLEAN, stripLost' \in BOOLEAN, StripPatchHasBase'
  PROVE  HostInv'
<1>0. nextId \in Nat \ {0} /\ waiting \in Seq(WorkMessages) /\ DOMAIN posted \subseteq Nat \ {0}
  BY DEF HostInv, QueueTyped
<1>1. UNCHANGED <<posted, toWorker>>  BY DEF SubmitWaiting, SubmitFailed
<1>2. inbox' = inbox  BY <1>1, InboxKept DEF hostVars, threadVars
<1>3. nextId' \in Nat \ {0}  BY <1>0 DEF SubmitWaiting, SubmitFailed
<1>4. waiting' \in Seq(WorkMessages)
  <2>1. CASE SubmitFailed(m)  BY <2>1, <1>0 DEF SubmitFailed
  <2>2. CASE SubmitWaiting(m)
    <3> DEFINE i == SupersededIndex(m.key)
    <3>1. i \in {0} \cup (1..Len(waiting))  BY <1>0, SupersededType
    <3> HIDE DEF i
    <3>2. Without(i) \in Seq(WorkMessages)  BY <1>0, <3>1, WithoutType
    <3>3. waiting' = Append(Without(i), m)  BY <2>2 DEF SubmitWaiting, i
    <3> QED BY <3>2, <3>3
  <2> QED BY <2>1, <2>2
<1>5. PipeParts'  BY <1>2, PipePartsKept DEF threadVars
<1>8. HostTypeOK'  BY DEF HostInv, HostTypeOK, hostVars, threadVars
<1>9. QueueTyped'  BY <1>0, <1>1, <1>3, <1>4 DEF QueueTyped
<1>10. DriverTidy'  BY <1>1 DEF HostInv, DriverTidy, hostVars
<1>11. CreditsKept'  BY <1>1, <1>2 DEF HostInv, CreditsKept, hostVars, threadVars
<1> QED BY <1>5, <1>8, <1>9, <1>10, <1>11 DEF HostInv, PipeParts

LEMMA SubmitKeeps ==
  ASSUME HostInv, NEW m \in WorkMessages, Submit(m)
  PROVE  HostInv'
<1>1. /\ worker # NoWorker /\ closing = NoWorker /\ ~AwaitsBase(m) /\ ~IsSuspended(m)
      /\ needStripBase' = (needStripBase /\ m.kind # "touch")
      /\ UNCHANGED <<hostVars, threadVars, opens, openedOk, closeOf>>
  BY DEF Submit, Attached
<1>2. needStripBase' \in BOOLEAN  BY <1>1, FlagTypes
<1>3. CASE /\ SubmitPosted(m) \/ SubmitWaiting(m) \/ SubmitFailed(m)
           /\ stripLost' = (stripLost /\ ~(m.kind = "touch" /\ ~m.patch))
           /\ UNCHANGED <<coraSuspended, localSuspended, client>>
  <2>1. stripLost' \in BOOLEAN  BY <1>3, FlagTypes
  <2>2. StripPatchHasBase'
    BY <1>1, <1>3, FlagTypes, MessageFlags DEF StripPatchHasBase, AwaitsBase
  <2>3. CASE SubmitPosted(m)  BY <1>1, <1>2, <1>3, <2>1, <2>2, <2>3, PostedKeeps
  <2>4. CASE SubmitWaiting(m) \/ SubmitFailed(m)
    BY <1>1, <1>2, <1>3, <2>1, <2>2, <2>4, QueuedKeeps
  <2> QED BY <1>3, <2>3, <2>4
<1>4. CASE /\ SubmitRejected(m) /\ OnOverload(m.local)
           /\ stripLost' = (stripLost \/ m.kind = "touch")
  <2>1. UNCHANGED <<queueVars, toWorker>>  BY <1>4 DEF SubmitRejected
  <2>2. /\ coraSuspended' \in BOOLEAN /\ localSuspended' \in BOOLEAN
        /\ client' \in {"none", "up", "dropping"} /\ stripLost' \in BOOLEAN
    BY <1>4, FlagTypes, MessageFlags DEF OnOverload
  <2>3. StripPatchHasBase'
    BY <1>1, <1>4, FlagTypes, MessageFlags DEF StripPatchHasBase, OnOverload
  <2> QED BY <1>1, <1>2, <2>1, <2>2, <2>3, QuietKeeps
<1> QED BY <1>3, <1>4 DEF Submit


-----------------------------------------------------------------------------
(* The driver listens. *)

(* The driver receives an answer of worker w and keeps its worker; only a 'closed' may end
   what an orphan owes. *)
Listens(w) ==
  /\ answers[w] # << >> /\ answers' = [answers EXCEPT ![w] = Tail(@)]
  /\ UNCHANGED <<worker, closing, port, thread, job, handle, openedOk, closeOf>>
  /\ DOMAIN opens' = DOMAIN opens
  /\ inbox' = inbox
  /\ \/ /\ UNCHANGED <<orphans, terminating>>
        /\ Head(answers[w]) = Closed => w # closing /\ w \notin orphans
     \/ /\ w # worker /\ Head(answers[w]) = Closed /\ orphans' = orphans \ {w}
        /\ terminating' = [terminating EXCEPT ![w] = "closed"]

LEMMA ListensKeeps ==
  ASSUME HostInv, NEW w \in Workers, Listens(w)
  PROVE  /\ PipesOK' /\ UnbornIdle' /\ CallsKnown' /\ CloseOwed' /\ LetGo' /\ ClosedForGood'
         /\ DOMAIN answers' = Workers /\ answers'[w] = Tail(answers[w])
         /\ \A v \in Workers : v # w => answers'[v] = answers[v]
         /\ Head(answers[w]) \in Answers
         /\ \A S : Has(answers[w], S) <=> Head(answers[w]) \in S \/ Has(Tail(answers[w]), S)
         /\ Has(answers[w], {Head(answers[w])})
<1>1. /\ DOMAIN answers' = Workers /\ answers'[w] = Tail(answers[w])
      /\ \A v \in Workers : v # w => answers'[v] = answers[v]
  BY HostFacts DEF Listens
<1>2. PipeOK(inbox[w], job[w], answers[w], handle[w])  BY DEF HostInv, PipesOK
<1>3. answers[w] \in Seq(Answers) /\ answers[w] # << >>  BY <1>2 DEF PipeOK, PipeTyped, Listens
<1>4. \A S : Has(answers[w], S) <=> Head(answers[w]) \in S \/ Has(Tail(answers[w]), S)
  <2> SUFFICES ASSUME NEW S
               PROVE  Has(answers[w], S) <=> Head(answers[w]) \in S \/ Has(Tail(answers[w]), S)
    OBVIOUS
  <2> QED BY <1>3, HasTail
<1>5. UNCHANGED <<worker, closing, port, thread, job, handle, openedOk, closeOf>>
      /\ inbox' = inbox /\ DOMAIN opens' = DOMAIN opens
  BY DEF Listens
<1>6. \A v \in Workers : v # w =>
        /\ v \in orphans' <=> v \in orphans
        /\ terminating'[v] = terminating[v]
  BY DEF Listens, HostInv, HostTypeOK
<1>7. PipesOK'
  <2>1. PipeOK(inbox[w], job[w], Tail(answers[w]), handle[w])  BY <1>2, <1>3, PipeReceives
  <2> QED BY <2>1, <1>1, <1>5 DEF HostInv, PipesOK
<1>8. UnbornIdle'
  <2>1. thread[w] # "unborn"  BY <1>3 DEF HostInv, UnbornIdle
  <2> QED BY <2>1, <1>1, <1>5, <1>6 DEF HostInv, UnbornIdle
<1>9. CallsKnown'  BY <1>5 DEF HostInv, CallsKnown
<1>10. CloseOwed'
  <2> SUFFICES ASSUME NEW v \in Workers
               PROVE  /\ v = closing \/ v \in orphans' => Owes(inbox[v], job[v], answers'[v])
                      /\ v \in orphans' => v # worker
    BY <1>5 DEF CloseOwed
  <2>1. /\ v = closing \/ v \in orphans => Owes(inbox[v], job[v], answers[v])
        /\ v \in orphans => v # worker
    BY DEF HostInv, CloseOwed
  <2>2. CASE v # w  BY <2>1, <2>2, <1>1, <1>6
  <2>3. CASE v = w
    <3>1. v \in orphans' => v \in orphans  BY DEF Listens
    <3>2. Head(answers[w]) = Closed => w # closing /\ w \notin orphans'
      BY HostFacts DEF Listens, HostInv, DriverTidy
    <3>3. Head(answers[w]) # Closed => (Has(answers'[w], {Closed}) <=> Has(answers[w], {Closed}))
      BY <1>1, <1>4
    <3> QED BY <3>1, <3>2, <3>3, <2>1, <2>3 DEF Owes
  <2> QED BY <2>2, <2>3
<1>11. LetGo'
  <2> SUFFICES ASSUME NEW v \in Workers
               PROVE  /\ thread[v] # "unborn" /\ v # worker => terminating'[v] # "no" \/ v \in orphans'
                      /\ terminating'[v] # "no" => v # worker
                      /\ terminating'[v] = "closed" => AtRest(inbox[v], job[v], handle[v])
    BY <1>5 DEF LetGo
  <2>1. /\ thread[v] # "unborn" /\ v # worker => terminating[v] # "no" \/ v \in orphans
        /\ terminating[v] # "no" => v # worker
        /\ terminating[v] = "closed" => AtRest(inbox[v], job[v], handle[v])
    BY DEF HostInv, LetGo
  <2>2. CASE v # w  BY <2>1, <2>2, <1>6
  <2>3. CASE v = w
    <3>1. CASE UNCHANGED <<orphans, terminating>>  BY <3>1, <2>1
    <3>2. CASE /\ w # worker /\ Head(answers[w]) = Closed
               /\ terminating' = [terminating EXCEPT ![w] = "closed"]
      <4>1. Has(answers[w], {Closed})  BY <3>2, <1>4
      <4>2. AtRest(inbox[w], job[w], handle[w])  BY <4>1, <1>2 DEF PipeOK, CloseEnds
      <4>3. terminating'[w] = "closed"  BY <3>2 DEF HostInv, HostTypeOK
      <4> QED BY <4>2, <4>3, <3>2, <2>3
    <3> QED BY <3>1, <3>2 DEF Listens
  <2> QED BY <2>2, <2>3
<1>12. ClosedForGood'  BY <1>5 DEF HostInv, ClosedForGood
<1>13. Head(answers[w]) \in Answers  BY <1>3
<1>14. Has(answers[w], {Head(answers[w])})  BY <1>4
<1> QED BY <1>1, <1>4, <1>7, <1>8, <1>9, <1>10, <1>11, <1>12, <1>13, <1>14

(* An answer that is no call's. *)
LEMMA ListensOnly ==
  ASSUME HostInv, NEW w \in Workers, Listens(w), UNCHANGED <<openReq, opens>>
  PROVE  PipeParts'
<1>1. /\ PipesOK' /\ UnbornIdle' /\ CallsKnown' /\ CloseOwed' /\ LetGo' /\ ClosedForGood'
      /\ DOMAIN answers' = Workers /\ answers'[w] = Tail(answers[w])
      /\ \A v \in Workers : v # w => answers'[v] = answers[v]
      /\ \A S : Has(answers[w], S) <=> Head(answers[w]) \in S \/ Has(Tail(answers[w]), S)
  BY ListensKeeps
<1>2. UNCHANGED <<worker, closing, job, handle, openedOk, openReq, opens>> /\ inbox' = inbox
  BY DEF Listens
<1>3. \A v \in Workers : \A S : Has(answers'[v], S) => Has(answers[v], S)  BY <1>1
<1>4. OpenIsOurs'
  <2> SUFFICES ASSUME worker # NoWorker, closing = NoWorker
               PROVE  /\ ~Owes(inbox[worker], job[worker], answers'[worker])
                      /\ \A n \in Nat : OpenOf(n, inbox[worker], job[worker]) => n = openReq
                      /\ Has(answers'[worker], OpenedAnswers) => openReq # 0
                      /\ Has(answers'[worker], {Opened(TRUE)}) => openReq \in openedOk
                      /\ openReq = 0 /\ LastOpen # "ok" => ~Live(answers'[worker], handle[worker])
    BY <1>2 DEF OpenIsOurs, LastOpen
  <2>1. /\ ~Owes(inbox[worker], job[worker], answers[worker])
        /\ \A n \in Nat : OpenOf(n, inbox[worker], job[worker]) => n = openReq
        /\ Has(answers[worker], OpenedAnswers) => openReq # 0
        /\ Has(answers[worker], {Opened(TRUE)}) => openReq \in openedOk
        /\ openReq = 0 /\ LastOpen # "ok" => ~Live(answers[worker], handle[worker])
    BY DEF HostInv, OpenIsOurs
  <2>2. worker \in Workers  BY HostFacts
  <2> QED BY <2>1, <2>2, <1>3 DEF Owes, Live
<1>5. OpenAnswersItsCall'  BY <1>2 DEF HostInv, OpenAnswersItsCall
<1> QED BY <1>1, <1>4, <1>5 DEF PipeParts

LEMMA OrphanKeeps ==
  ASSUME HostInv, NEW w \in Workers, OnOrphanMessage(w)
  PROVE  HostInv'
<1>1. /\ w # worker /\ answers[w] # << >> /\ answers' = [answers EXCEPT ![w] = Tail(@)]
      /\ UNCHANGED <<queueVars, toWorker, worker, openReq, closing, flagVars, thread, port, job,
                     handle, ledgerVars>>
      /\ IF Head(answers[w]).type = "closed" /\ w \in orphans
         THEN orphans' = orphans \ {w} /\ terminating' = [terminating EXCEPT ![w] = "closed"]
         ELSE UNCHANGED <<orphans, terminating>>
  BY DEF OnOrphanMessage
<1>2. inbox' = inbox  BY <1>1, InboxKept
<1>3. Head(answers[w]).type = "closed" <=> Head(answers[w]) = Closed
  <2>1. answers[w] \in Seq(Answers)  BY DEF HostInv, PipesOK, PipeOK, PipeTyped
  <2>2. Head(answers[w]) \in Answers  BY <2>1, <1>1
  <2> QED BY <2>2, AnswerTypes
<1>4. w # closing  BY <1>1, HostFacts DEF HostInv, DriverTidy
<1>5. Listens(w)  BY <1>1, <1>2, <1>3, <1>4 DEF Listens, ledgerVars
<1>6. PipeParts'  BY <1>1, <1>5, ListensOnly DEF ledgerVars
<1>7. DOMAIN answers' = Workers /\ \A v \in Workers : v # w => answers'[v] = answers[v]
  BY <1>5, ListensKeeps
<1>8. orphans' \subseteq Workers
      /\ terminating' \in [Workers -> {"no", "closed", "openFailed", "unplugged"}]
  BY <1>1 DEF HostInv, HostTypeOK
<1>9. HostTypeOK'  BY <1>1, <1>7, <1>8 DEF HostInv, HostTypeOK, flagVars, ledgerVars
<1>10. QueueTyped'  BY <1>1 DEF HostInv, QueueTyped, queueVars
<1>11. DriverTidy'  BY <1>1 DEF HostInv, DriverTidy, queueVars, ledgerVars
<1>12. CreditsKept'
  <2> SUFFICES ASSUME NEW id \in DOMAIN posted
               PROVE  Carries(id, inbox[worker], job[worker], answers'[worker])
    BY <1>1, <1>2 DEF CreditsKept, queueVars
  <2>1. worker \in Workers  BY HostFacts DEF HostInv, DriverTidy
  <2> QED BY <2>1, <1>1, <1>7 DEF HostInv, CreditsKept
<1>13. StripPatchHasBase'  BY <1>1 DEF HostInv, StripPatchHasBase, flagVars, ledgerVars
<1> QED BY <1>6, <1>9, <1>10, <1>11, <1>12, <1>13 DEF HostInv, PipeParts

(* Settling the open call. *)
LEMMA SettledSeq ==
  ASSUME NEW T, NEW s \in Seq(T), NEW i \in 1..Len(s), NEW e \in T, NEW t, t = [s EXCEPT ![i] = e]
  PROVE  /\ t \in Seq(T) /\ Len(t) = Len(s) /\ DOMAIN t = DOMAIN s
         /\ \A n \in DOMAIN s : (n = i => t[n] = e) /\ (n # i => t[n] = s[n])
  OBVIOUS

LEMMA SettleFacts ==
  ASSUME HostInv, NEW outcome \in {"ok", "failed"}, SettleOpen(outcome)
  PROVE  /\ openReq' = 0 /\ openReq' \in 0..Len(opens')
         /\ opens' \in Seq({"pending", "ok", "failed"}) /\ Len(opens') = Len(opens)
         /\ DOMAIN opens' = DOMAIN opens /\ openedOk \subseteq DOMAIN opens'
         /\ \A n \in DOMAIN opens : /\ n = openReq => opens'[n] = outcome
                                    /\ n # openReq => opens'[n] = opens[n]
<1>1. Len(opens) \in Nat /\ openReq \in {0, Len(opens)}  BY HostFacts
<1>a. DOMAIN opens = 1..Len(opens)  BY HostFacts
<1>b. opens \in Seq({"pending", "ok", "failed"})  BY HostFacts
<1>c. openedOk \subseteq DOMAIN opens  BY DEF HostInv, HostTypeOK
<1>2. openReq' = 0 /\ openReq' \in 0..Len(opens)  BY <1>1 DEF SettleOpen
<1>3. CASE openReq = 0
  <2>1. opens' = opens  BY <1>3 DEF SettleOpen
  <2>2. \A n \in 1..Len(opens) : n # openReq  BY <1>1, <1>3
  <2> QED BY <2>1, <2>2, <1>a, <1>b, <1>c, <1>2
<1>4. CASE openReq # 0
  <2>1. opens' = [opens EXCEPT ![openReq] = outcome]  BY <1>4 DEF SettleOpen
  <2>2. openReq \in 1..Len(opens) /\ outcome \in {"pending", "ok", "failed"}  BY <1>1, <1>4
  <2>3. /\ opens' \in Seq({"pending", "ok", "failed"}) /\ Len(opens') = Len(opens)
        /\ DOMAIN opens' = DOMAIN opens
        /\ \A n \in DOMAIN opens : /\ n = openReq => opens'[n] = outcome
                                   /\ n # openReq => opens'[n] = opens[n]
    BY <2>1, <2>2, <1>b, SettledSeq
  <2> QED BY <2>3, <1>c, <1>2
<1> QED BY <1>3, <1>4

(* The answer to the open call. *)
LEMMA OnOpenedKeeps ==
  ASSUME HostInv, NEW w \in Workers, OnOpened(w)
  PROVE  HostInv'
<1> DEFINE e == Head(answers[w])
           outcome == IF e.ok THEN "ok" ELSE "failed"
<1>1. /\ answers[w] # << >> /\ e.type = "opened" /\ answers' = [answers EXCEPT ![w] = Tail(@)]
      /\ w = worker /\ SettleOpen(outcome)
      /\ UNCHANGED <<queueVars, toWorker, worker, closing, orphans, terminating, flagVars, thread,
                     port, job, handle, client, openedOk, closeOf, stripLost>>
  BY DEF OnOpened, Receives
<1>2. inbox' = inbox  BY <1>1, InboxKept
<1>3. e \in Answers
  <2>1. answers[w] \in Seq(Answers)  BY DEF HostInv, PipesOK, PipeOK, PipeTyped
  <2> QED BY <2>1, <1>1
<1>4. e \in OpenedAnswers /\ e.ok \in BOOLEAN /\ e = Opened(e.ok) /\ e # Closed
  BY <1>1, <1>3, AnswerTypes, AnswersApart
<1>5. /\ Len(opens) \in Nat /\ DOMAIN opens = 1..Len(opens) /\ openReq \in {0, Len(opens)}
      /\ opens \in Seq({"pending", "ok", "failed"}) /\ openReq \in Nat
      /\ worker # NoWorker
  BY <1>1, HostFacts
<1>6. outcome \in {"ok", "failed"} /\ (outcome = "ok" => e.ok) /\ (e.ok => outcome = "ok")
  BY <1>4
<1> HIDE DEF outcome
<1>7. /\ openReq' = 0 /\ openReq' \in 0..Len(opens')
      /\ opens' \in Seq({"pending", "ok", "failed"}) /\ Len(opens') = Len(opens)
      /\ DOMAIN opens' = DOMAIN opens /\ openedOk \subseteq DOMAIN opens'
      /\ \A n \in DOMAIN opens : /\ n = openReq => opens'[n] = outcome
                                 /\ n # openReq => opens'[n] = opens[n]
  BY <1>1, <1>6, SettleFacts
<1> HIDE DEF e
<1>8. Listens(w)  BY <1>1, <1>2, <1>4, <1>7 DEF Listens, e
<1>9. /\ PipesOK' /\ UnbornIdle' /\ CallsKnown' /\ CloseOwed' /\ LetGo' /\ ClosedForGood'
      /\ DOMAIN answers' = Workers /\ answers'[w] = Tail(answers[w])
      /\ \A S : Has(answers[w], S) <=> e \in S \/ Has(Tail(answers[w]), S)
  BY <1>8, ListensKeeps DEF e
<1>10. PipeOK(inbox[w], job[w], answers[w], handle[w])  BY DEF HostInv, PipesOK
<1>11. Has(answers[w], OpenedAnswers)  BY <1>4, <1>9
<1>12. closing = NoWorker =>
         /\ ~Owes(inbox[w], job[w], answers[w])
         /\ \A n \in Nat : OpenOf(n, inbox[w], job[w]) => n = openReq
         /\ Has(answers[w], OpenedAnswers) => openReq # 0
         /\ Has(answers[w], {Opened(TRUE)}) => openReq \in openedOk
  BY <1>1, <1>5 DEF HostInv, OpenIsOurs
<1>13. e.ok /\ closing = NoWorker => openReq \in openedOk
  <2>1. e.ok => Has(answers[w], {Opened(TRUE)})  BY <1>4, <1>9
  <2> QED BY <2>1, <1>12
<1>14. closing # NoWorker => openReq = 0  BY DEF HostInv, DriverTidy
<1>15. OpenAnswersItsCall'
  <2> SUFFICES ASSUME NEW n \in DOMAIN opens, opens'[n] = "ok"  PROVE n \in openedOk
    BY <1>1, <1>7 DEF OpenAnswersItsCall
  <2>1. CASE n # openReq  BY <2>1, <1>7 DEF HostInv, OpenAnswersItsCall
  <2>2. CASE n = openReq
    <3>1. outcome = "ok"  BY <2>2, <1>7
    <3>2. \A k \in 1..Len(opens) : k # 0  OBVIOUS
    <3>3. openReq # 0  BY <2>2, <3>2, <1>5
    <3> QED BY <2>2, <3>1, <3>3, <1>6, <1>13, <1>14
  <2> QED BY <2>1, <2>2
<1>16. OpenIsOurs'
  <2> SUFFICES ASSUME closing = NoWorker
               PROVE  /\ ~Owes(inbox[w], job[w], Tail(answers[w]))
                      /\ \A n \in Nat : ~OpenOf(n, inbox[w], job[w])
                      /\ ~Has(Tail(answers[w]), OpenedAnswers)
                      /\ ~Has(Tail(answers[w]), {Opened(TRUE)})
                      /\ LastOpen' # "ok" => ~Live(Tail(answers[w]), handle[w])
    BY <1>1, <1>2, <1>9 DEF OpenIsOurs
  <2>1. openReq = Len(opens) /\ openReq # 0 /\ openReq \in DOMAIN opens
    BY <1>5, <1>11, <1>12
  <2>2. ~Owes(inbox[w], job[w], Tail(answers[w]))  BY <1>9, <1>12 DEF Owes
  <2>3. ASSUME NEW n \in Nat, OpenOf(n, inbox[w], job[w])  PROVE FALSE
    <3>1. n \in Nat \ {0}  BY <2>1, <2>3, <1>12
    <3>2. OpenMsg(n) \in OpenMsgs  BY <3>1, OpenMsgType
    <3>3. Opening(inbox[w], job[w])  BY <2>3, <3>2 DEF OpenOf, Opening, Has
    <3> QED BY <3>3, <1>10, <1>11 DEF PipeOK, OneOpen
  <2>4. ~Has(Tail(answers[w]), OpenedAnswers)
    <3>1. answers[w] \in Seq(Answers) /\ answers[w] # << >> /\ Once(answers[w], OpenedAnswers)
      BY <1>1, <1>10 DEF PipeOK, PipeTyped, OneOpen
    <3> QED BY <3>1, <1>4, HasTail DEF e
  <2>5. ~Has(Tail(answers[w]), {Opened(TRUE)})
    <3>1. {Opened(TRUE)} \subseteq OpenedAnswers  BY DEF OpenedAnswers
    <3> QED BY <3>1, <2>4, HasSubset
  <2>6. ASSUME LastOpen' # "ok"  PROVE ~Live(Tail(answers[w]), handle[w])
    <3>1. LastOpen' = outcome
      <4>1. opens' # << >>  BY <1>7, <2>1
      <4>2. LastOpen' = opens'[Len(opens')]  BY <4>1 DEF LastOpen
      <4> QED BY <4>2, <1>7, <2>1
    <3>2. e = Opened(FALSE)  BY <2>6, <3>1, <1>4, <1>6
    <3>3. Has(answers[w], {Opened(FALSE)})  BY <3>2, <1>9
    <3>4. ~handle[w] /\ ~Has(answers[w], {Gone})  BY <3>3, <1>10 DEF PipeOK, OneOpen
    <3> QED BY <3>4, <1>9 DEF Live
  <2> QED BY <2>2, <2>3, <2>4, <2>5, <2>6
<1>17. HostTypeOK'
  BY <1>1, <1>7, <1>9 DEF HostInv, HostTypeOK, flagVars
<1>18. QueueTyped'  BY <1>1 DEF HostInv, QueueTyped, queueVars
<1>19. DriverTidy'  BY <1>1, <1>7 DEF HostInv, DriverTidy, queueVars
<1>20. CreditsKept'
  <2> SUFFICES ASSUME NEW id \in DOMAIN posted
               PROVE  Carries(id, inbox[w], job[w], Tail(answers[w]))
    BY <1>1, <1>2, <1>9 DEF CreditsKept, queueVars
  <2>1. Carries(id, inbox[w], job[w], answers[w])  BY <1>1 DEF HostInv, CreditsKept
  <2>2. e \notin Acks  BY <1>4, AnswersApart
  <2> QED BY <2>1, <2>2, <1>9 DEF Carries
<1>21. StripPatchHasBase'  BY <1>1 DEF HostInv, StripPatchHasBase, flagVars
<1> QED BY <1>9, <1>15, <1>16, <1>17, <1>18, <1>19, <1>20, <1>21 DEF HostInv

(* The worker's script could not be loaded, and no open waits for it. *)
LEMMA ErrorHeardKeeps ==
  ASSUME HostInv, NEW w \in Workers, OnWorkerError(w), openReq = 0
  PROVE  HostInv'
<1>1. /\ answers[w] # << >> /\ Head(answers[w]).type = "scriptError" /\ w = worker
      /\ answers' = [answers EXCEPT ![w] = Tail(@)]
      /\ UNCHANGED <<queueVars, toWorker, worker, openReq, opens, terminating, flagVars, port,
                     stripLost, closing, orphans, thread, job, handle, client, openedOk, closeOf>>
  BY DEF OnWorkerError, Receives
<1>2. inbox' = inbox  BY <1>1, InboxKept
<1>3. Head(answers[w]) \notin Acks /\ Head(answers[w]) # Closed
  <2>1. answers[w] \in Seq(Answers)  BY DEF HostInv, PipesOK, PipeOK, PipeTyped
  <2>2. Head(answers[w]) \in Answers  BY <2>1, <1>1
  <2>3. Head(answers[w]) = ScriptError  BY <1>1, <2>2, AnswerTypes
  <2>4. ScriptError \notin Acks  BY DEF ScriptError, Acks
  <2> QED BY <2>3, <2>4, AnswersApart
<1>4. Listens(w)  BY <1>1, <1>2, <1>3 DEF Listens
<1>5. PipeParts'  BY <1>1, <1>4, ListensOnly
<1>6. /\ DOMAIN answers' = Workers /\ answers'[w] = Tail(answers[w])
      /\ \A S : Has(answers[w], S) <=> Head(answers[w]) \in S \/ Has(Tail(answers[w]), S)
  BY <1>4, ListensKeeps
<1>7. HostTypeOK'  BY <1>1, <1>6 DEF HostInv, HostTypeOK, flagVars
<1>8. QueueTyped'  BY <1>1 DEF HostInv, QueueTyped, queueVars
<1>9. DriverTidy'  BY <1>1 DEF HostInv, DriverTidy, queueVars
<1>10. CreditsKept'
  <2> SUFFICES ASSUME NEW id \in DOMAIN posted
               PROVE  Carries(id, inbox[w], job[w], Tail(answers[w]))
    BY <1>1, <1>2, <1>6 DEF CreditsKept, queueVars
  <2>1. Carries(id, inbox[w], job[w], answers[w])  BY <1>1 DEF HostInv, CreditsKept
  <2> QED BY <2>1, <1>3, <1>6 DEF Carries
<1>11. StripPatchHasBase'  BY <1>1 DEF HostInv, StripPatchHasBase, flagVars
<1> QED BY <1>5, <1>7, <1>8, <1>9, <1>10, <1>11 DEF HostInv, PipeParts

(* What a drain posts: the waiting messages, under the ids that are new in posted. *)
DrainsTo(n, ids) ==
  /\ n = 0 => /\ toWorker' = toWorker /\ waiting' = waiting
              /\ DOMAIN posted' \subseteq DOMAIN posted
  /\ \E add \in Seq(Posts) :
       /\ toWorker' = toWorker \o add
       /\ \A id \in DOMAIN posted' : \/ id \in DOMAIN posted /\ id \notin ids
                                     \/ Has(add, {x \in PortMsgs : x.id = id})

LEMMA DrainPosts ==
  ASSUME HostInv, NEW n \in 0..Len(waiting), NEW bad \in SUBSET (1..n), NEW ids,
         CompleteWith(ids, n, bad)
  PROVE  QueueTyped' /\ DrainsTo(n, ids)
<1> DEFINE kept == [id \in DOMAIN posted \ ids |-> posted[id]]
           bytes == postedBytes - Weight([id \in Released(ids) |-> posted[id]])
           good == (1..n) \ bad
<1>0. /\ nextId \in Nat \ {0} /\ waiting \in Seq(WorkMessages) /\ DOMAIN posted \subseteq Nat \ {0}
      /\ n \in Nat /\ Len(waiting) \in Nat /\ n <= Len(waiting)
  BY DEF HostInv, QueueTyped
<1>1. Drain(kept, bytes, n, bad)  BY DEF CompleteWith
<1>2. /\ nextId' = nextId + n /\ waiting' = SubSeq(waiting, n + 1, Len(waiting))
      /\ posted' = Merge(kept, DrainedPosts(n, bad))
  BY <1>1 DEF Drain
<1>3. HandsOver(n, bad)
  <2> HIDE DEF kept, bytes
  <2> QED BY <1>0, <1>1, DrainSends
<1>4. DOMAIN kept = DOMAIN posted \ ids  OBVIOUS
<1>5. DOMAIN DrainedPosts(n, bad) = {nextId + i - 1 : i \in good}  BY DEF DrainedPosts
<1>6. DOMAIN posted' = (DOMAIN posted \ ids) \cup {nextId + i - 1 : i \in good}
  <2> HIDE DEF kept, good
  <2> QED BY <1>2, <1>4, <1>5 DEF Merge
<1> HIDE DEF kept, bytes
<1>c. PICK c \in Nat : \E p : Numbering(p, good, c) /\ toWorker' = toWorker \o InOrderSent(p, c)
  BY <1>3 DEF HandsOver
<1>7. PICK p : Numbering(p, good, c) /\ toWorker' = toWorker \o InOrderSent(p, c)
  BY <1>c
<1>8. \A k \in 1..c : p[k] \in 1..n /\ p[k] \in 1..Len(waiting)
  BY <1>0, <1>7 DEF Numbering
<1>9. \A i \in good : \E k \in 1..c : p[k] = i  BY <1>7 DEF Numbering
<1> DEFINE add == InOrderSent(p, c)
<1>10. Len(add) = c /\ \A k \in 1..c : add[k] = Sent(waiting[p[k]], nextId + p[k] - 1)
  BY DEF InOrderSent
<1>11. \A k \in 1..c : add[k] \in Posts /\ add[k].id = nextId + p[k] - 1
  <2> SUFFICES ASSUME NEW k \in 1..c  PROVE add[k] \in Posts /\ add[k].id = nextId + p[k] - 1
    OBVIOUS
  <2>1. waiting[p[k]] \in WorkMessages /\ nextId + p[k] - 1 \in Nat \ {0}  BY <1>0, <1>8
  <2>2. add[k] = Sent(waiting[p[k]], nextId + p[k] - 1)  BY <1>10
  <2> HIDE DEF add
  <2> QED BY <2>1, <2>2 DEF Sent, Posts
<1>12. add \in Seq(Posts)
  <2>1. add = [k \in 1..c |-> add[k]]  BY DEF InOrderSent
  <2> HIDE DEF add
  <2> QED BY <2>1, <1>11
<1>13. ASSUME NEW i \in good  PROVE Has(add, {x \in PortMsgs : x.id = nextId + i - 1})
  <2>1. PICK k \in 1..c : p[k] = i  BY <1>9
  <2>2. add[k] \in PortMsgs /\ add[k].id = nextId + i - 1  BY <2>1, <1>11 DEF PortMsgs
  <2>3. k \in 1..Len(add)  BY <1>10
  <2> HIDE DEF add
  <2> QED BY <2>2, <2>3 DEF Has
<1> HIDE DEF add
<1>14. nextId' \in Nat \ {0}  BY <1>0, <1>2
<1>15. waiting' \in Seq(WorkMessages)  BY <1>0, <1>2
<1>16. DOMAIN posted' \subseteq Nat \ {0}  BY <1>0, <1>6
<1>17. \A id \in DOMAIN posted' :
         \/ id \in DOMAIN posted /\ id \notin ids
         \/ Has(add, {x \in PortMsgs : x.id = id})
  BY <1>6, <1>13
<1>18. ASSUME n = 0
       PROVE  toWorker' = toWorker /\ waiting' = waiting /\ DOMAIN posted' \subseteq DOMAIN posted
  <2>1. good = {}  BY <1>18
  <2>2. c = 0  BY <1>8, <1>18
  <2>3. add = << >>  BY <2>2, <1>10, <1>12
  <2>4. toWorker \in Seq(PortMsgs)
    <3>1. CASE worker = NoWorker  BY <3>1 DEF HostInv, DriverTidy
    <3>2. CASE worker # NoWorker
      <4>1. worker \in Workers /\ inbox[worker] = toWorker  BY <3>2, HostFacts
      <4> QED BY <4>1 DEF HostInv, PipesOK, PipeOK, PipeTyped
    <3> QED BY <3>1, <3>2
  <2>5. toWorker' = toWorker  BY <2>3, <2>4, <1>7 DEF add
  <2>6. waiting' = waiting  BY <1>0, <1>2, <1>18
  <2> QED BY <2>1, <2>5, <2>6, <1>6
<1> QED
  <2>1. toWorker' = toWorker \o add  BY <1>7 DEF add
  <2> QED BY <2>1, <1>12, <1>14, <1>15, <1>16, <1>17, <1>18 DEF QueueTyped, DrainsTo

(* A 'workDone'. *)
LEMMA WorkDoneKeeps ==
  ASSUME HostInv, NEW w \in Workers, OnWorkDone(w)
  PROVE  HostInv'
<1> DEFINE e == Head(answers[w])
<1>1. /\ answers[w] # << >> /\ e.type = "workDone" /\ w = worker
      /\ answers' = [answers EXCEPT ![w] = Tail(@)]
      /\ UNCHANGED <<hostVars, coraSuspended, needStripBase, thread, port, job, handle, ledgerVars>>
  BY DEF OnWorkDone, Receives
<1>2. PICK n \in 0..Len(waiting) : \E bad \in SUBSET (1..n) : CompleteWith(e.ids, n, bad)
  <2>1. CASE PostMayFail  BY <2>1 DEF OnWorkDone, Complete
  <2>2. CASE ~PostMayFail
    <3>1. PICK n \in 0..Len(waiting) : CompleteWith(e.ids, n, {})  BY <2>2 DEF OnWorkDone
    <3>2. {} \in SUBSET (1..n)  OBVIOUS
    <3> QED BY <3>1, <3>2
  <2> QED BY <2>1, <2>2
<1>a. PICK bad \in SUBSET (1..n) : CompleteWith(e.ids, n, bad)  BY <1>2
<1>3. localSuspended' \in BOOLEAN
  <2>1. localSuspended \in BOOLEAN  BY FlagTypes
  <2> QED BY <2>1 DEF OnWorkDone
<1>4. e \in Acks /\ e # Closed
  <2>1. answers[w] \in Seq(Answers)  BY DEF HostInv, PipesOK, PipeOK, PipeTyped
  <2>2. e \in Answers  BY <2>1, <1>1
  <2> HIDE DEF e
  <2>3. e \in Acks  BY <1>1, <2>2, AnswerTypes
  <2> QED BY <2>3, AnswersApart
<1> HIDE DEF e
<1>5. QueueTyped' /\ DrainsTo(n, e.ids)  BY <1>a, DrainPosts
<1>6. worker # NoWorker  BY <1>1, HostFacts
<1>7. PICK add \in Seq(Posts) :
        /\ toWorker' = toWorker \o add
        /\ \A id \in DOMAIN posted' : \/ id \in DOMAIN posted /\ id \notin e.ids
                                      \/ Has(add, {x \in PortMsgs : x.id = id})
  BY <1>5 DEF DrainsTo
<1>8. PipeParts' /\ DriverTidy' /\ CreditsKept' /\ DOMAIN answers' = Workers
  <2>1. CASE closing # NoWorker
    <3>1. waiting = << >> /\ DOMAIN posted = {}  BY <2>1 DEF HostInv, DriverTidy
    <3>2. n = 0  BY <3>1
    <3>3. toWorker' = toWorker /\ waiting' = << >> /\ DOMAIN posted' = {}  BY <1>5, <3>1, <3>2 DEF DrainsTo
    <3>4. inbox' = inbox  BY <1>1, <3>3, InboxKept DEF hostVars
    <3>5. Listens(w)  BY <1>1, <1>4, <3>4 DEF Listens, hostVars, ledgerVars, e
    <3>6. PipeParts'  BY <1>1, <3>5, ListensOnly DEF hostVars, ledgerVars
    <3>7. DriverTidy'  BY <1>1, <3>3 DEF HostInv, DriverTidy, hostVars, ledgerVars
    <3>8. CreditsKept'  BY <3>3 DEF CreditsKept
    <3>9. DOMAIN answers' = Workers  BY <3>5, ListensKeeps
    <3> QED BY <3>6, <3>7, <3>8, <3>9
  <2>2. CASE closing = NoWorker
    <3>1. Heard  BY <1>1 DEF Heard
    <3>2. /\ PipeParts' /\ inbox'[worker] = inbox[worker] \o add
          /\ \A S : Has(inbox'[worker], S) <=> Has(inbox[worker], S) \/ Has(add, S)
      BY <1>1, <1>6, <1>7, <2>2, <3>1, WorkPosted DEF ledgerVars
    <3>3. DriverTidy'  BY <1>1, <1>6, <2>2 DEF HostInv, DriverTidy, hostVars, ledgerVars
    <3>4. /\ answers'[w] = Tail(answers[w]) /\ DOMAIN answers' = Workers
      BY <1>1, HostFacts
    <3>5. \A S : Has(answers[w], S) <=> e \in S \/ Has(answers'[w], S)
      <4> SUFFICES ASSUME NEW S  PROVE Has(answers[w], S) <=> e \in S \/ Has(answers'[w], S)
        OBVIOUS
      <4>1. answers[w] \in Seq(Answers)  BY DEF HostInv, PipesOK, PipeOK, PipeTyped
      <4> QED BY <4>1, <1>1, <3>4, HasTail DEF e
    <3>6. CreditsKept'
      <4> SUFFICES ASSUME NEW id \in DOMAIN posted'
                   PROVE  Carries(id, inbox'[w], job[w], answers'[w])
        BY <1>1 DEF CreditsKept, hostVars
      <4>1. CASE id \in DOMAIN posted /\ id \notin e.ids
        <5>1. Carries(id, inbox[w], job[w], answers[w])  BY <1>1, <4>1 DEF HostInv, CreditsKept
        <5>2. e \notin {x \in Acks : id \in x.ids}  BY <4>1
        <5> QED BY <5>1, <5>2, <3>2, <3>5, <1>1 DEF Carries
      <4>2. CASE Has(add, {x \in PortMsgs : x.id = id})
        BY <4>2, <3>2, <1>1 DEF Carries
      <4> QED BY <4>1, <4>2, <1>7
    <3> QED BY <3>2, <3>3, <3>4, <3>6
  <2> QED BY <2>1, <2>2
<1>9. HostTypeOK'  BY <1>1, <1>3, <1>8 DEF HostInv, HostTypeOK, hostVars, ledgerVars
<1>11. StripPatchHasBase'  BY <1>1 DEF HostInv, StripPatchHasBase, ledgerVars
<1> QED BY <1>5, <1>8, <1>9, <1>11 DEF HostInv, PipeParts

-----------------------------------------------------------------------------
(* The driver lets go of its worker. *)

(* The worker is detached: for good (why is then the reason of its terminate timer) or as
   an orphan, with its close, if one was in flight, settled as how says. *)
Detached(why, how) ==
  /\ worker \in Workers /\ DetachWorker /\ closing' = NoWorker
  /\ UNCHANGED <<thread, job, handle, client, openedOk>>
  /\ Heard
  /\ terminating' = [terminating EXCEPT ![worker] = why]
  /\ closeOf' = [closeOf EXCEPT ![worker] = how]
  /\ \/ orphans' = orphans /\ why # "no"
     \/ orphans' = orphans \cup {worker} /\ closing = worker /\ answers' = answers
  /\ why \in {"no", "closed", "openFailed", "unplugged"}
  /\ why = "closed" => AtRest(inbox[worker], job[worker], handle[worker])
  /\ how \in {"none", "pending", "resolved", "rejected"}
  /\ how = "resolved" => ~handle[worker] /\ ~Opening(inbox[worker], job[worker])

(* The calls are settled as failed, or left as they are. *)
CallsLeft ==
  /\ openReq' \in {0, Len(opens')} /\ openReq' \in 0..Len(opens')
  /\ opens' \in Seq({"pending", "ok", "failed"})
  /\ DOMAIN opens' = DOMAIN opens
  /\ \A n \in DOMAIN opens : opens'[n] = "ok" => opens[n] = "ok"

LEMMA CallsFailed ==
  ASSUME HostInv, SettleOpen("failed") \/ UNCHANGED <<openReq, opens>>
  PROVE  CallsLeft
<1>1. CASE SettleOpen("failed")
  <2>1. /\ openReq' = 0 /\ openReq' \in 0..Len(opens')
        /\ opens' \in Seq({"pending", "ok", "failed"})
        /\ DOMAIN opens' = DOMAIN opens
        /\ \A n \in DOMAIN opens : /\ n = openReq => opens'[n] = "failed"
                                   /\ n # openReq => opens'[n] = opens[n]
    BY <1>1, SettleFacts
  <2>2. \A n \in DOMAIN opens : opens'[n] = "ok" => opens[n] = "ok"  BY <2>1
  <2> QED BY <2>1, <2>2 DEF CallsLeft
<1>2. CASE UNCHANGED <<openReq, opens>>
  BY <1>2 DEF CallsLeft, HostInv, HostTypeOK, DriverTidy
<1> QED BY <1>1, <1>2

LEMMA DetachedKeeps ==
  ASSUME HostInv, NEW why, NEW how, Detached(why, how), CallsLeft
  PROVE  HostInv'
<1>1. /\ worker \in Workers /\ worker' = NoWorker /\ toWorker' = << >> /\ closing' = NoWorker
      /\ port' = [port EXCEPT ![worker] = toWorker] /\ ResetGeneration
      /\ UNCHANGED <<thread, job, handle, client, openedOk>> /\ Heard
  BY DEF Detached, DetachWorker
<1>2. /\ posted' = << >> /\ waiting' = << >> /\ nextId' = nextId
      /\ coraSuspended' = FALSE /\ localSuspended' = FALSE /\ needStripBase' = FALSE
      /\ stripLost' = FALSE
  BY <1>1 DEF ResetGeneration, Reset
<1>3. inbox' = inbox /\ DOMAIN port' = Workers  BY <1>1, InboxDetached
<1>4. PipeOK(inbox[worker], job[worker], answers[worker], handle[worker])
  BY <1>1 DEF HostInv, PipesOK
<1>5. /\ DOMAIN answers' = Workers /\ \A v \in Workers : v # worker => answers'[v] = answers[v]
      /\ PipeOK(inbox[worker], job[worker], answers'[worker], handle[worker])
  <2>1. CASE answers' = answers  BY <2>1, <1>4, HostFacts
  <2>2. CASE answers[worker] # << >> /\ answers' = [answers EXCEPT ![worker] = Tail(@)]
    <3>1. /\ answers'[worker] = Tail(answers[worker]) /\ DOMAIN answers' = Workers
          /\ \A v \in Workers : v # worker => answers'[v] = answers[v]
      BY <2>2, <1>1, HostFacts
    <3>2. PipeOK(inbox[worker], job[worker], Tail(answers[worker]), handle[worker])
      BY <2>2, <1>4, PipeReceives
    <3> QED BY <3>1, <3>2
  <2> QED BY <1>1, <2>1, <2>2 DEF Heard
<1>6. NoWorker \notin Workers  BY HostFacts
<1>7. /\ terminating' \in [Workers -> {"no", "closed", "openFailed", "unplugged"}]
      /\ terminating'[worker] = why
      /\ \A v \in Workers : v # worker => terminating'[v] = terminating[v]
  BY DEF Detached, HostInv, HostTypeOK
<1>8. /\ closeOf' \in [Workers -> {"none", "pending", "resolved", "rejected"}]
      /\ closeOf'[worker] = how
      /\ \A v \in Workers : v # worker => closeOf'[v] = closeOf[v]
  BY DEF Detached, HostInv, HostTypeOK
<1>9. /\ orphans' \subseteq Workers /\ \A v \in Workers : v # worker => (v \in orphans' <=> v \in orphans)
      /\ worker \in orphans' => Owes(inbox[worker], job[worker], answers'[worker])
      /\ why # "no" \/ worker \in orphans'
  BY <1>1 DEF Detached, HostInv, HostTypeOK, CloseOwed
<1>10. HostTypeOK'
  BY <1>1, <1>2, <1>3, <1>5, <1>7, <1>8, <1>9 DEF CallsLeft, HostInv, HostTypeOK
<1>11. QueueTyped'  BY <1>2 DEF HostInv, QueueTyped
<1>12. PipesOK'  BY <1>1, <1>3, <1>5 DEF HostInv, PipesOK
<1>13. DriverTidy'  BY <1>1, <1>2 DEF CallsLeft, DriverTidy
<1>14. UnbornIdle'
  <2> SUFFICES ASSUME NEW v \in Workers, thread[v] = "unborn"
               PROVE  /\ v # worker' /\ v \notin orphans' /\ terminating'[v] = "no"
                      /\ closeOf'[v] = "none"
                      /\ AtRest(inbox[v], job[v], handle[v]) /\ answers'[v] = << >>
    BY <1>1, <1>3 DEF UnbornIdle
  <2>1. /\ v # worker /\ v \notin orphans /\ terminating[v] = "no" /\ closeOf[v] = "none"
        /\ AtRest(inbox[v], job[v], handle[v]) /\ answers[v] = << >>
    BY DEF HostInv, UnbornIdle
  <2> QED BY <2>1, <1>1, <1>5, <1>6, <1>7, <1>8, <1>9
<1>15. CallsKnown'  BY <1>1, <1>3 DEF CallsLeft, HostInv, CallsKnown
<1>16. OpenIsOurs'  BY <1>1 DEF OpenIsOurs
<1>17. OpenAnswersItsCall'  BY <1>1 DEF CallsLeft, HostInv, OpenAnswersItsCall
<1>18. CloseOwed'
  <2> SUFFICES ASSUME NEW v \in Workers
               PROVE  v \in orphans' => Owes(inbox[v], job[v], answers'[v])
    BY <1>1, <1>3, <1>6 DEF CloseOwed
  <2>1. CASE v = worker  BY <2>1, <1>9
  <2>2. CASE v # worker  BY <2>2, <1>5, <1>9 DEF HostInv, CloseOwed
  <2> QED BY <2>1, <2>2
<1>19. LetGo'
  <2> SUFFICES ASSUME NEW v \in Workers
               PROVE  /\ thread[v] # "unborn" => terminating'[v] # "no" \/ v \in orphans'
                      /\ terminating'[v] = "closed" => AtRest(inbox[v], job[v], handle[v])
    BY <1>1, <1>3, <1>6 DEF LetGo
  <2>1. CASE v = worker  BY <2>1, <1>7, <1>9 DEF Detached
  <2>2. CASE v # worker  BY <2>2, <1>7, <1>9 DEF HostInv, LetGo
  <2> QED BY <2>1, <2>2
<1>20. ClosedForGood'
  <2> SUFFICES ASSUME NEW v \in Workers, closeOf'[v] = "resolved"
               PROVE  ~handle[v] /\ ~Opening(inbox[v], job[v])
    BY <1>1, <1>3, <1>6 DEF ClosedForGood
  <2>1. CASE v = worker  BY <2>1, <1>8 DEF Detached
  <2>2. CASE v # worker  BY <2>2, <1>8 DEF HostInv, ClosedForGood
  <2> QED BY <2>1, <2>2
<1>21. CreditsKept'  BY <1>2 DEF CreditsKept
<1>22. StripPatchHasBase'  BY <1>2 DEF StripPatchHasBase
<1> QED BY <1>10, <1>11, <1>12, <1>13, <1>14, <1>15, <1>16, <1>17, <1>18, <1>19, <1>20, <1>21, <1>22
        DEF HostInv

LEMMA SameAt ==
  ASSUME NEW T, NEW f \in [Workers -> T], NEW w \in Workers
  PROVE  f = [f EXCEPT ![w] = f[w]] /\ f[w] \in T
  OBVIOUS

(* The open timer, and a script that could not be loaded for the pending open. *)
LEMMA OpenFailedKeeps ==
  ASSUME HostInv, openReq # 0, worker # NoWorker, SettleOpen("failed"), CleanupWorker("openFailed"),
         Heard, UNCHANGED <<closing, orphans, thread, job, handle, client, openedOk, closeOf>>
  PROVE  HostInv'
<1>1. closing = NoWorker /\ worker \in Workers  BY HostFacts DEF HostInv, DriverTidy
<1>2. /\ closeOf \in [Workers -> {"none", "pending", "resolved", "rejected"}]
      /\ closeOf[worker] # "resolved"
  BY <1>1 DEF HostInv, HostTypeOK, ClosedForGood
<1>3. Detached("openFailed", closeOf[worker])
  <2>1. closeOf' = [closeOf EXCEPT ![worker] = closeOf[worker]]
        /\ closeOf[worker] \in {"none", "pending", "resolved", "rejected"}
    BY <1>1, <1>2, SameAt
  <2> QED BY <2>1, <1>1, <1>2 DEF Detached, CleanupWorker
<1>4. CallsLeft  BY CallsFailed
<1> QED BY <1>3, <1>4, DetachedKeeps

(* The open timer with no worker left, which loses nothing. *)
LEMMA OpenTimeoutAlone ==
  ASSUME HostInv, worker = NoWorker, OpenTimeout
  PROVE  HostInv'
<1>1. /\ SettleOpen("failed") /\ worker' = NoWorker /\ port' = [port EXCEPT ![worker] = toWorker]
      /\ toWorker' = << >> /\ ResetGeneration
      /\ terminating' = [terminating EXCEPT ![worker] = "openFailed"]
      /\ UNCHANGED <<closing, orphans, thread, job, handle, answers, client, openedOk, closeOf>>
  BY DEF OpenTimeout, CleanupWorker, DetachWorker
<1>2. inbox' = inbox /\ DOMAIN port' = Workers  BY <1>1, InboxDetached
<1>3. terminating' = terminating
  <2>1. NoWorker \notin Workers  BY HostFacts
  <2>2. terminating \in [Workers -> {"no", "closed", "openFailed", "unplugged"}]
    BY DEF HostInv, HostTypeOK
  <2> QED BY <2>1, <2>2, <1>1
<1>4. CallsLeft  BY <1>1, CallsFailed
<1>5. /\ posted' = << >> /\ waiting' = << >> /\ nextId' = nextId
      /\ coraSuspended' = FALSE /\ localSuspended' = FALSE /\ needStripBase' = FALSE
      /\ stripLost' = FALSE
  BY <1>1 DEF ResetGeneration, Reset
<1>6. closing = NoWorker  BY DEF HostInv, DriverTidy
<1>7. HostTypeOK'  BY <1>1, <1>2, <1>3, <1>5, <1>4 DEF CallsLeft, HostInv, HostTypeOK
<1>8. QueueTyped'  BY <1>5 DEF HostInv, QueueTyped
<1>9. PipesOK' /\ UnbornIdle'  BY <1>1, <1>2, <1>3 DEF HostInv, PipesOK, UnbornIdle
<1>10. DriverTidy'  BY <1>1, <1>5, <1>6, <1>4 DEF CallsLeft, DriverTidy
<1>11. CallsKnown'  BY <1>1, <1>2, <1>4 DEF CallsLeft, HostInv, CallsKnown
<1>12. OpenIsOurs'  BY <1>1 DEF OpenIsOurs
<1>13. OpenAnswersItsCall'  BY <1>1, <1>4 DEF CallsLeft, HostInv, OpenAnswersItsCall
<1>14. CloseOwed' /\ LetGo' /\ ClosedForGood'
  BY <1>1, <1>2, <1>3 DEF HostInv, CloseOwed, LetGo, ClosedForGood
<1>15. CreditsKept' /\ StripPatchHasBase'  BY <1>5 DEF CreditsKept, StripPatchHasBase
<1> QED BY <1>7, <1>8, <1>9, <1>10, <1>11, <1>12, <1>13, <1>14, <1>15 DEF HostInv

LEMMA OpenTimeoutKeeps ==
  ASSUME HostInv, OpenTimeout
  PROVE  HostInv'
<1>1. /\ openReq # 0 /\ SettleOpen("failed") /\ CleanupWorker("openFailed")
      /\ UNCHANGED <<closing, orphans, thread, job, handle, answers, client, openedOk, closeOf>>
  BY DEF OpenTimeout
<1>2. Heard  BY <1>1 DEF Heard
<1>3. CASE worker = NoWorker  BY <1>3, OpenTimeoutAlone
<1>4. CASE worker # NoWorker  BY <1>1, <1>2, <1>4, OpenFailedKeeps
<1> QED BY <1>3, <1>4

LEMMA WorkerErrorKeeps ==
  ASSUME HostInv, NEW w \in Workers, OnWorkerError(w)
  PROVE  HostInv'
<1>1. CASE openReq = 0  BY <1>1, ErrorHeardKeeps
<1>2. CASE openReq # 0
  <2>1. /\ SettleOpen("failed") /\ CleanupWorker("openFailed") /\ w = worker
        /\ UNCHANGED <<closing, orphans, thread, job, handle, client, openedOk, closeOf>>
        /\ answers[w] # << >> /\ answers' = [answers EXCEPT ![w] = Tail(@)]
    BY <1>2 DEF OnWorkerError, Receives
  <2>2. Heard  BY <2>1 DEF Heard
  <2>3. worker # NoWorker  BY <2>1, HostFacts
  <2> QED BY <1>2, <2>1, <2>2, <2>3, OpenFailedKeeps
<1> QED BY <1>1, <1>2

(* The close timer. *)
LEMMA CloseTimeoutKeeps ==
  ASSUME HostInv, CloseTimeout
  PROVE  HostInv'
<1>1. /\ closing # NoWorker /\ DetachWorker /\ orphans' = orphans \cup {closing}
      /\ closing' = NoWorker /\ closeOf' = [closeOf EXCEPT ![closing] = "rejected"]
      /\ UNCHANGED <<openReq, terminating, thread, job, handle, answers, client, opens, openedOk>>
  BY DEF CloseTimeout
<1>2. closing = worker /\ worker \in Workers  BY <1>1, HostFacts DEF HostInv, DriverTidy
<1>3. /\ terminating \in [Workers -> {"no", "closed", "openFailed", "unplugged"}]
      /\ terminating[worker] = "no"
  BY <1>2 DEF HostInv, HostTypeOK, LetGo
<1>4. terminating' = [terminating EXCEPT ![worker] = "no"]  BY <1>1, <1>2, <1>3, SameAt
<1>5. Detached("no", "rejected")  BY <1>1, <1>2, <1>4 DEF Detached, Heard
<1>6. CallsLeft  BY <1>1, CallsFailed
<1> QED BY <1>5, <1>6, DetachedKeeps

(* The worker has closed, or its device is gone: either way it has no device and opens none. *)
LEMMA EndedKeeps ==
  ASSUME HostInv, NEW w \in Workers, OnDisconnect(w) \/ OnClosed(w)
  PROVE  HostInv'
<1> DEFINE e == Head(answers[w])
           why == IF e.type = "closed" THEN "closed" ELSE "unplugged"
           how == IF closing = NoWorker THEN closeOf[worker] ELSE "resolved"
<1>1. /\ answers[w] # << >> /\ w = worker /\ answers' = [answers EXCEPT ![w] = Tail(@)]
      /\ e.type \in {"closed", "disconnect"} /\ CleanupWorker(why) /\ FinishClose
      /\ UNCHANGED <<openReq, orphans, thread, job, handle, client, opens, openedOk>>
  BY DEF OnDisconnect, OnClosed, Receives
<1>2. PipeOK(inbox[w], job[w], answers[w], handle[w])  BY DEF HostInv, PipesOK
<1>3. Has(answers[w], {e}) /\ e \in Answers
  <2>1. answers[w] \in Seq(Answers)  BY <1>2 DEF PipeOK, PipeTyped
  <2> QED BY <2>1, <1>1, HasTail
<1>4. /\ ~handle[w] /\ ~Opening(inbox[w], job[w])
      /\ why = "closed" => AtRest(inbox[w], job[w], handle[w])
  <2> HIDE DEF e
  <2>1. CASE e = Closed
    <3>1. AtRest(inbox[w], job[w], handle[w])  BY <2>1, <1>2, <1>3 DEF PipeOK, CloseEnds
    <3>2. Idle \notin OpenMsgs  BY Kinds
    <3> QED BY <3>1, <3>2, HasNothing DEF AtRest, Opening
  <2>2. CASE e = Gone
    <3>1. ~handle[w] /\ ~Opening(inbox[w], job[w])
      BY <2>2, <1>2, <1>3 DEF PipeOK, OneOpen, Live
    <3>2. why = "unplugged"  BY <2>2 DEF Gone
    <3> QED BY <3>1, <3>2
  <2> QED BY <1>1, <1>3, <2>1, <2>2, AnswerTypes
<1>5. worker \in Workers /\ (closing # NoWorker => closing = worker)
  BY <1>1 DEF HostInv, DriverTidy
<1>6. closeOf \in [Workers -> {"none", "pending", "resolved", "rejected"}]
  BY DEF HostInv, HostTypeOK
<1>7. closeOf' = [closeOf EXCEPT ![worker] = how] /\ closing' = NoWorker
      /\ how \in {"none", "pending", "resolved", "rejected"}
  <2>1. CASE closing = NoWorker  BY <2>1, <1>1, <1>5, <1>6, SameAt DEF FinishClose
  <2>2. CASE closing # NoWorker  BY <2>2, <1>1, <1>5 DEF FinishClose
  <2> QED BY <2>1, <2>2
<1>8. Heard  BY <1>1 DEF Heard
<1>9. why \in {"closed", "unplugged"}  OBVIOUS
<1> HIDE DEF why, how, e
<1>10. Detached(why, how)
  BY <1>1, <1>4, <1>5, <1>7, <1>8, <1>9 DEF Detached, CleanupWorker
<1>11. CallsLeft  BY <1>1, CallsFailed
<1> QED BY <1>10, <1>11, DetachedKeeps

-----------------------------------------------------------------------------
(* The driver opens and closes. *)

(* An open that is under way is some call's. *)
LEMMA OpeningIsSomeCall ==
  ASSUME HostInv, NEW w \in Workers, Opening(inbox[w], job[w])
  PROVE  \E n \in Nat \ {0} : OpenOf(n, inbox[w], job[w])
<1>1. ASSUME NEW m \in OpenMsgs  PROVE \E n \in Nat \ {0} : m = OpenMsg(n)
  <2>1. m \in PortMsgs \cup {Idle}  BY DEF PortMsgs
  <2> QED BY <2>1, Kinds
<1>2. ASSUME Has(inbox[w], OpenMsgs)
      PROVE  \E n \in Nat \ {0} : Has(inbox[w], {OpenMsg(n)})
  BY <1>1, <1>2 DEF Has
<1> QED BY <1>1, <1>2 DEF Opening, OpenOf

(* A worker that may be asked to open: no open or close is under way in it, and it has no
   device. *)
Openable(w) ==
  /\ ~Owes(inbox[w], job[w], answers[w]) /\ ~Opening(inbox[w], job[w])
  /\ ~Has(answers[w], OpenedAnswers) /\ ~Live(answers[w], handle[w])
  /\ \A n \in Nat : ~OpenOf(n, inbox[w], job[w])

(* The driver's new worker is one that was never spawned, or the one a failed open left. *)
LEMMA OpensInto ==
  ASSUME HostInv, Open
  PROVE  /\ worker' \in Workers /\ Openable(worker')
         /\ worker' \notin orphans /\ terminating[worker'] = "no" /\ closeOf[worker'] # "resolved"
         /\ inbox'[worker'] = Append(inbox[worker'], OpenMsg(Len(opens) + 1))
         /\ \A v \in Workers : v # worker' =>
              inbox'[v] = inbox[v] /\ (thread[v] # "unborn" => v # worker)
<1>1. /\ openReq = 0 /\ closing = NoWorker /\ NotOpen /\ port' = port
      /\ toWorker' = Append(toWorker, OpenMsg(Len(opens) + 1))
  BY DEF Open
<1>2. /\ DOMAIN port = Workers /\ NoWorker \notin Workers /\ worker \in Workers \cup {NoWorker}
      /\ worker # NoWorker => inbox[worker] = toWorker
      /\ \A v \in Workers : v # worker => inbox[v] = port[v]
  BY HostFacts
<1>3. CASE worker = NoWorker
  <2>1. worker' \in Workers /\ thread[worker'] = "unborn"  BY <1>3 DEF Open
  <2>2. toWorker = << >>  BY <1>3 DEF HostInv, DriverTidy
  <2>3. /\ worker' \notin orphans /\ terminating[worker'] = "no" /\ closeOf[worker'] = "none"
        /\ inbox[worker'] = << >> /\ job[worker'] = Idle /\ ~handle[worker']
        /\ answers[worker'] = << >>
    BY <2>1 DEF HostInv, UnbornIdle, AtRest
  <2>4. Openable(worker')
    <3>1. Idle \notin OpenMsgs /\ Idle # CloseMsg  BY Kinds
    <3>2. \A k \in Nat : Idle # OpenMsg(k)
      <4>1. \A k \in Nat : Idle.msg.kind = "idle" /\ OpenMsg(k).msg.kind = "open"
        BY DEF Idle, OpenMsg
      <4> QED BY <4>1
    <3> QED BY <2>3, <3>1, <3>2, HasNothing DEF Openable, Owes, Opening, Live, OpenOf
  <2>5. inbox'[worker'] = toWorker'  BY <2>1 DEF inbox, Inbox
  <2>6. \A v \in Workers : v # worker' => inbox'[v] = port[v]  BY <1>1 DEF inbox, Inbox
  <2>7. \A v \in Workers : v # worker  BY <1>2, <1>3
  <2>8. \A v \in Workers : v # worker' => inbox'[v] = inbox[v]  BY <1>2, <2>6, <2>7
  <2> QED BY <1>1, <2>1, <2>2, <2>3, <2>4, <2>5, <2>7, <2>8
<1>4. CASE worker # NoWorker
  <2>1. worker' = worker /\ worker \in Workers  BY <1>2, <1>4 DEF Open
  <2>2. LastOpen # "ok"  BY <1>1, <1>4 DEF NotOpen
  <2>3. /\ ~Owes(inbox[worker], job[worker], answers[worker])
        /\ \A n \in Nat : OpenOf(n, inbox[worker], job[worker]) => n = openReq
        /\ Has(answers[worker], OpenedAnswers) => openReq # 0
        /\ openReq = 0 /\ LastOpen # "ok" => ~Live(answers[worker], handle[worker])
    BY <1>1, <1>4 DEF HostInv, OpenIsOurs
  <2>4. ~OpenOf(0, inbox[worker], job[worker])
    <3>1. 0 \notin DOMAIN opens  BY HostFacts
    <3> QED BY <3>1, <2>1 DEF HostInv, CallsKnown
  <2>5. \A n \in Nat : ~OpenOf(n, inbox[worker], job[worker])  BY <1>1, <2>3, <2>4
  <2>6. ~Opening(inbox[worker], job[worker])  BY <2>1, <2>5, OpeningIsSomeCall
  <2>7. Openable(worker)  BY <1>1, <2>2, <2>3, <2>5, <2>6 DEF Openable
  <2>8. /\ worker \notin orphans /\ terminating[worker] = "no" /\ closeOf[worker] # "resolved"
    BY <2>1 DEF HostInv, CloseOwed, LetGo, ClosedForGood
  <2>9. /\ inbox'[worker] = toWorker'
        /\ \A v \in Workers : v # worker => inbox'[v] = inbox[v]
    BY <1>1, <2>1, InboxHanded
  <2> QED BY <1>1, <1>2, <1>4, <2>1, <2>7, <2>8, <2>9
<1> QED BY <1>3, <1>4

LEMMA OpenKeeps ==
  ASSUME HostInv, Open
  PROVE  HostInv'
<1> DEFINE w == worker'
           n == Len(opens) + 1
<1>1. /\ closing = NoWorker /\ ResetGeneration
      /\ thread' = [thread EXCEPT ![w] = IF @ = "unborn" THEN "loading" ELSE @]
      /\ opens' = Append(opens, "pending") /\ openReq' = n
      /\ UNCHANGED <<closing, orphans, terminating, port, job, handle, answers, client, openedOk,
                     closeOf>>
  BY DEF Open
<1>2. /\ w \in Workers /\ Openable(w)
      /\ w \notin orphans /\ terminating[w] = "no" /\ closeOf[w] # "resolved"
      /\ inbox'[w] = Append(inbox[w], OpenMsg(n))
      /\ \A v \in Workers : v # w =>
           inbox'[v] = inbox[v] /\ (thread[v] # "unborn" => v # worker)
  BY OpensInto
<1>3. /\ posted' = << >> /\ waiting' = << >> /\ nextId' = nextId
      /\ coraSuspended' = FALSE /\ localSuspended' = FALSE /\ needStripBase' = FALSE
      /\ stripLost' = FALSE
  BY <1>1 DEF ResetGeneration, Reset
<1>4. /\ Len(opens) \in Nat /\ n \in Nat \ {0} /\ NoWorker \notin Workers
      /\ DOMAIN opens = 1..Len(opens)
  BY HostFacts
<1>5. /\ opens' \in Seq({"pending", "ok", "failed"}) /\ Len(opens') = n
      /\ opens'[n] = "pending" /\ \A k \in 1..Len(opens) : opens'[k] = opens[k]
  BY <1>1, HostFacts
<1>6. DOMAIN opens' = 1..n /\ DOMAIN opens \subseteq DOMAIN opens' /\ n \in DOMAIN opens'
      /\ \A k \in DOMAIN opens' : k = n \/ k \in DOMAIN opens
  <2>1. DOMAIN opens' = 1..n  BY <1>5
  <2>2. 1..Len(opens) \subseteq 1..n /\ n \in 1..n /\ \A k \in 1..n : k = n \/ k \in 1..Len(opens)
    BY <1>4
  <2> QED BY <2>1, <2>2, <1>4
<1>7. /\ thread' \in [Workers -> {"unborn", "loading", "running", "broken", "terminated"}]
      /\ thread'[w] # "unborn"
      /\ \A v \in Workers : v # w => thread'[v] = thread[v]
  BY <1>1, <1>2 DEF HostInv, HostTypeOK
<1>8. PipeOK(inbox[w], job[w], answers[w], handle[w])  BY <1>2 DEF HostInv, PipesOK
<1>9. PipeOK(inbox'[w], job[w], answers[w], handle[w])
  BY <1>2, <1>4, <1>8, PipeGetsOpen DEF Openable
<1>10. /\ OpenMsg(n) # CloseMsg /\ OpenMsg(n) \in PortMsgs
       /\ \A k \in Nat : OpenMsg(n) = OpenMsg(k) => n = k
  <2>1. OpenMsg(n) \in PortMsgs /\ OpenMsg(n) \in OpenMsgs
        /\ \A k \in Nat : OpenMsg(n) = OpenMsg(k) => n = k
    BY <1>4, OpenMsgType
  <2> HIDE DEF n
  <2> QED BY <2>1, Kinds
<1> HIDE DEF w, n
<1>11. \A S : Has(inbox'[w], S) <=> Has(inbox[w], S) \/ OpenMsg(n) \in S
  <2> SUFFICES ASSUME NEW S  PROVE Has(inbox'[w], S) <=> Has(inbox[w], S) \/ OpenMsg(n) \in S
    OBVIOUS
  <2>1. inbox[w] \in Seq(PortMsgs)  BY <1>8 DEF PipeOK, PipeTyped
  <2> QED BY <2>1, <1>2, <1>10, HasOne
<1>12. \A k \in Nat : OpenOf(k, inbox'[w], job[w]) => k = n
  BY <1>2, <1>10, <1>11 DEF OpenOf, Openable
<1>13. HostTypeOK'
  <2>1. openReq' \in 0..Len(opens')  BY <1>1, <1>4, <1>5
  <2>2. openedOk \subseteq DOMAIN opens'  BY <1>6 DEF HostInv, HostTypeOK
  <2>3. worker' \in Workers  BY <1>2 DEF w
  <2> QED BY <1>1, <1>3, <1>5, <1>7, <2>1, <2>2, <2>3 DEF HostInv, HostTypeOK
<1>14. QueueTyped'  BY <1>3 DEF HostInv, QueueTyped
<1>15. PipesOK'  BY <1>1, <1>2, <1>9 DEF HostInv, PipesOK
<1>16. DriverTidy'
  <2>1. worker' # NoWorker /\ closing' = NoWorker  BY <1>1, <1>2, <1>4 DEF w
  <2> QED BY <2>1, <1>1, <1>5 DEF DriverTidy
<1>17. UnbornIdle'
  <2> SUFFICES ASSUME NEW v \in Workers, thread'[v] = "unborn"
               PROVE  /\ v # w /\ v \notin orphans /\ terminating[v] = "no" /\ closeOf[v] = "none"
                      /\ AtRest(inbox'[v], job[v], handle[v]) /\ answers[v] = << >>
    BY <1>1 DEF UnbornIdle, w
  <2>1. v # w /\ thread[v] = "unborn"  BY <1>7
  <2> QED BY <2>1, <1>2 DEF HostInv, UnbornIdle
<1>18. CallsKnown'
  <2> SUFFICES ASSUME NEW v \in Workers, NEW k \in Nat, OpenOf(k, inbox'[v], job[v])
               PROVE  k \in DOMAIN opens'
    BY <1>1 DEF CallsKnown
  <2>1. CASE v = w  BY <2>1, <1>6, <1>12
  <2>2. CASE v # w  BY <2>2, <1>2, <1>6 DEF HostInv, CallsKnown
  <2> QED BY <2>1, <2>2
<1>19. OpenIsOurs'
  <2>1. ~Owes(inbox'[w], job[w], answers[w])  BY <1>2, <1>10, <1>11 DEF Openable, Owes
  <2>2. ~Has(answers[w], {Opened(TRUE)})
    <3>1. {Opened(TRUE)} \subseteq OpenedAnswers  BY DEF OpenedAnswers
    <3> QED BY <3>1, <1>2, HasSubset DEF Openable
  <2>3. openReq' # 0 /\ openReq' = n  BY <1>1, <1>4
  <2> QED BY <2>1, <2>2, <2>3, <1>1, <1>2, <1>12 DEF OpenIsOurs, Openable, w
<1>20. OpenAnswersItsCall'
  <2> SUFFICES ASSUME NEW k \in DOMAIN opens', opens'[k] = "ok"  PROVE k \in openedOk
    BY <1>1 DEF OpenAnswersItsCall
  <2>1. k \in DOMAIN opens /\ opens[k] = "ok"  BY <1>4, <1>5, <1>6
  <2> QED BY <2>1 DEF HostInv, OpenAnswersItsCall
<1>21. CloseOwed'
  <2> SUFFICES ASSUME NEW v \in Workers
               PROVE  /\ v \in orphans => Owes(inbox'[v], job[v], answers[v])
                      /\ v \in orphans => v # w
    BY <1>1, <1>4 DEF CloseOwed, w
  <2> QED BY <1>2 DEF HostInv, CloseOwed
<1>22. LetGo'
  <2> SUFFICES ASSUME NEW v \in Workers
               PROVE  /\ thread'[v] # "unborn" /\ v # w => terminating[v] # "no" \/ v \in orphans
                      /\ terminating[v] # "no" => v # w
                      /\ terminating[v] = "closed" => AtRest(inbox'[v], job[v], handle[v])
    BY <1>1 DEF LetGo, w
  <2>1. CASE v = w  BY <2>1, <1>2
  <2>2. CASE v # w  BY <2>2, <1>2, <1>7 DEF HostInv, LetGo
  <2> QED BY <2>1, <2>2
<1>23. ClosedForGood'
  <2> SUFFICES ASSUME NEW v \in Workers, closeOf[v] = "resolved"
               PROVE  v # w /\ ~handle[v] /\ ~Opening(inbox'[v], job[v])
    BY <1>1 DEF ClosedForGood, w
  <2>1. v # w  BY <1>2
  <2> QED BY <2>1, <1>2 DEF HostInv, ClosedForGood
<1>24. CreditsKept' /\ StripPatchHasBase'  BY <1>3 DEF CreditsKept, StripPatchHasBase
<1> QED BY <1>13, <1>14, <1>15, <1>16, <1>17, <1>18, <1>19, <1>20, <1>21, <1>22, <1>23, <1>24
        DEF HostInv

LEMMA CloseKeeps ==
  ASSUME HostInv, Close
  PROVE  HostInv'
<1> DEFINE w == worker
<1>1. /\ w # NoWorker /\ closing = NoWorker /\ SettleOpen("failed") /\ ResetGeneration
      /\ closing' = w /\ closeOf' = [closeOf EXCEPT ![w] = "pending"]
      /\ toWorker' = Append(toWorker, CloseMsg)
      /\ UNCHANGED <<worker, orphans, terminating, threadVars, client, openedOk>>
  BY DEF Close
<1>2. w \in Workers /\ NoWorker \notin Workers  BY <1>1, HostFacts
<1>3. inbox'[w] = Append(inbox[w], CloseMsg) /\ \A v \in Workers : v # w => inbox'[v] = inbox[v]
  BY <1>1, <1>2, InboxHanded DEF threadVars
<1>4. CallsLeft /\ openReq' = 0
  BY <1>1, CallsFailed DEF SettleOpen
<1>5. /\ posted' = << >> /\ waiting' = << >> /\ nextId' = nextId
      /\ coraSuspended' = FALSE /\ localSuspended' = FALSE /\ needStripBase' = FALSE
      /\ stripLost' = FALSE
  BY <1>1 DEF ResetGeneration, Reset
<1>6. PipeOK(inbox[w], job[w], answers[w], handle[w])  BY <1>2 DEF HostInv, PipesOK
<1>7. ~Owes(inbox[w], job[w], answers[w])  BY <1>1 DEF HostInv, OpenIsOurs
<1>8. PipeOK(inbox'[w], job[w], answers[w], handle[w]) /\ Has(inbox'[w], {CloseMsg})
  BY <1>3, <1>6, <1>7, PipeGetsClose
<1>9. \A k \in Nat : OpenOf(k, inbox'[w], job[w]) => OpenOf(k, inbox[w], job[w])
  <2> SUFFICES ASSUME NEW k \in Nat, Has(inbox'[w], {OpenMsg(k)})
               PROVE  Has(inbox[w], {OpenMsg(k)})
    BY DEF OpenOf
  <2>1. inbox[w] \in Seq(PortMsgs) /\ CloseMsg \in PortMsgs
    BY <1>6 DEF PipeOK, PipeTyped, PortMsgs
  <2>2. CloseMsg # OpenMsg(k)
    <3>1. CloseMsg.msg.kind = "close" /\ OpenMsg(k).msg.kind = "open"  BY DEF CloseMsg, OpenMsg
    <3> QED BY <3>1
  <2> DEFINE S == {OpenMsg(k)}
  <2>3. CloseMsg \notin S  BY <2>2
  <2> HIDE DEF S
  <2>4. Has(Append(inbox[w], CloseMsg), S) => Has(inbox[w], S)  BY <2>1, <2>3, HasOne
  <2> QED BY <2>4, <1>3 DEF S
<1>10. /\ closeOf' \in [Workers -> {"none", "pending", "resolved", "rejected"}]
       /\ closeOf'[w] = "pending" /\ \A v \in Workers : v # w => closeOf'[v] = closeOf[v]
  BY <1>1, <1>2 DEF HostInv, HostTypeOK
<1>11. HostTypeOK'
  BY <1>1, <1>2, <1>4, <1>5, <1>10 DEF CallsLeft, HostInv, HostTypeOK, threadVars
<1>12. QueueTyped'  BY <1>5 DEF HostInv, QueueTyped
<1>13. PipesOK'  BY <1>1, <1>3, <1>8 DEF HostInv, PipesOK, threadVars
<1>14. DriverTidy'  BY <1>1, <1>4, <1>5 DEF DriverTidy
<1>15. UnbornIdle'
  <2> SUFFICES ASSUME NEW v \in Workers, thread[v] = "unborn"
               PROVE  /\ v # w /\ v \notin orphans /\ terminating[v] = "no" /\ closeOf'[v] = "none"
                      /\ AtRest(inbox'[v], job[v], handle[v]) /\ answers[v] = << >>
    BY <1>1 DEF UnbornIdle, threadVars
  <2>1. v # w  BY DEF HostInv, UnbornIdle
  <2> QED BY <2>1, <1>3, <1>10 DEF HostInv, UnbornIdle
<1>16. CallsKnown'
  <2> SUFFICES ASSUME NEW v \in Workers, NEW k \in Nat, OpenOf(k, inbox'[v], job[v])
               PROVE  k \in DOMAIN opens
    BY <1>1, <1>4 DEF CallsLeft, CallsKnown, threadVars
  <2>1. OpenOf(k, inbox[v], job[v])  BY <1>3, <1>9
  <2> QED BY <2>1 DEF HostInv, CallsKnown
<1>17. OpenIsOurs'  BY <1>1 DEF OpenIsOurs
<1>18. OpenAnswersItsCall'  BY <1>1, <1>4 DEF CallsLeft, HostInv, OpenAnswersItsCall
<1>19. CloseOwed'
  <2> SUFFICES ASSUME NEW v \in Workers
               PROVE  /\ v = w \/ v \in orphans => Owes(inbox'[v], job[v], answers[v])
                      /\ v \in orphans => v # w
    BY <1>1 DEF CloseOwed, threadVars
  <2>1. CASE v = w  BY <2>1, <1>8 DEF HostInv, CloseOwed, Owes
  <2>2. CASE v # w  BY <2>2, <1>3 DEF HostInv, CloseOwed
  <2> QED BY <2>1, <2>2
<1>20. LetGo'
  <2> SUFFICES ASSUME NEW v \in Workers
               PROVE  /\ thread[v] # "unborn" /\ v # w => terminating[v] # "no" \/ v \in orphans
                      /\ terminating[v] # "no" => v # w
                      /\ terminating[v] = "closed" => AtRest(inbox'[v], job[v], handle[v])
    BY <1>1 DEF LetGo, threadVars
  <2> QED BY <1>3 DEF HostInv, LetGo
<1>21. ClosedForGood'
  <2> SUFFICES ASSUME NEW v \in Workers, closeOf'[v] = "resolved"
               PROVE  v # w /\ ~handle[v] /\ ~Opening(inbox'[v], job[v])
    BY <1>1 DEF ClosedForGood, threadVars
  <2>1. v # w  BY <1>10
  <2> QED BY <2>1, <1>3, <1>10 DEF HostInv, ClosedForGood
<1>22. CreditsKept' /\ StripPatchHasBase'  BY <1>5 DEF CreditsKept, StripPatchHasBase
<1> QED BY <1>11, <1>12, <1>13, <1>14, <1>15, <1>16, <1>17, <1>18, <1>19, <1>20, <1>21, <1>22
        DEF HostInv

-----------------------------------------------------------------------------
(* The invariant holds at the start and after every step. *)

LEMMA HostInvInit ==
  ASSUME Init
  PROVE  HostInv
<1>1. /\ worker = NoWorker /\ closing = NoWorker /\ openReq = 0 /\ orphans = {}
      /\ toWorker = << >> /\ opens = << >> /\ openedOk = {} /\ posted = << >> /\ waiting = << >>
      /\ nextId = 1 /\ stripLost = FALSE /\ NoWorker \notin Workers
      /\ terminating = [w \in Workers |-> "no"] /\ closeOf = [w \in Workers |-> "none"]
      /\ thread = [w \in Workers |-> "unborn"]
  BY HostAssumption DEF Init, InitQueue
<1>2. DOMAIN port = Workers /\ DOMAIN job = Workers /\ DOMAIN answers = Workers
  BY DEF Init
<1>3. \A w \in Workers : /\ inbox[w] = << >> /\ job[w] = Idle /\ answers[w] = << >>
                         /\ handle[w] = FALSE
  BY <1>1 DEF Init, inbox, Inbox
<1>4. HostTypeOK
  <2>1. opens \in Seq({"pending", "ok", "failed"}) /\ openReq \in 0..Len(opens)
    <3>1. opens = << >> /\ openReq = 0  BY <1>1
    <3> QED BY <3>1
  <2>2. /\ terminating \in [Workers -> {"no", "closed", "openFailed", "unplugged"}]
        /\ thread \in [Workers -> {"unborn", "loading", "running", "broken", "terminated"}]
        /\ handle \in [Workers -> BOOLEAN]
        /\ closeOf \in [Workers -> {"none", "pending", "resolved", "rejected"}]
    BY DEF Init
  <2>3. /\ coraSuspended = FALSE /\ localSuspended = FALSE /\ needStripBase = FALSE
        /\ client = "none" /\ stripLost = FALSE
    BY DEF Init
  <2>4. worker = NoWorker /\ closing = NoWorker /\ orphans = {} /\ openedOk = {}  BY <1>1
  <2> QED BY <1>2, <2>1, <2>2, <2>3, <2>4 DEF HostTypeOK
<1>5. QueueTyped  BY <1>1 DEF QueueTyped
<1>6. Idle \notin OpenMsgs /\ Idle # CloseMsg /\ \A k \in Nat : Idle # OpenMsg(k)
  <2>1. \A k \in Nat : Idle.msg.kind = "idle" /\ OpenMsg(k).msg.kind = "open"  BY DEF Idle, OpenMsg
  <2> QED BY <2>1, Kinds
<1>7. PipesOK
  <2>1. PipeTyped(<< >>, Idle, << >>, FALSE)  BY DEF PipeTyped
  <2>2. OneOpen(<< >>, Idle, << >>, FALSE)
    BY <1>6, HasNothing DEF OneOpen, Opening, Live
  <2>3. CloseEnds(<< >>, Idle, << >>, FALSE)
    BY <1>6, HasNothing DEF CloseEnds
  <2> QED BY <1>3, <2>1, <2>2, <2>3 DEF PipesOK, PipeOK
<1>8. DriverTidy  BY <1>1 DEF DriverTidy
<1>9. UnbornIdle  BY <1>1, <1>3 DEF UnbornIdle, AtRest
<1>10. CallsKnown  BY <1>3, <1>6, HasNothing DEF CallsKnown, OpenOf
<1>11. OpenIsOurs  BY <1>1 DEF OpenIsOurs
<1>12. OpenAnswersItsCall  BY <1>1 DEF OpenAnswersItsCall
<1>13. CloseOwed /\ LetGo /\ ClosedForGood  BY <1>1 DEF CloseOwed, LetGo, ClosedForGood
<1>14. CreditsKept /\ StripPatchHasBase  BY <1>1 DEF CreditsKept, StripPatchHasBase
<1> QED BY <1>4, <1>5, <1>7, <1>8, <1>9, <1>10, <1>11, <1>12, <1>13, <1>14 DEF HostInv

LEMMA HostInvStep ==
  ASSUME HostInv, [Next]_vars
  PROVE  HostInv'
<1>1. CASE Open  BY <1>1, OpenKeeps
<1>2. CASE OpenTimeout  BY <1>2, OpenTimeoutKeeps
<1>3. CASE Close  BY <1>3, CloseKeeps
<1>4. CASE CloseTimeout  BY <1>4, CloseTimeoutKeeps
<1>5. ASSUME NEW m \in WorkMessages, Submit(m) \/ SubmitDropped(m)  PROVE HostInv'
  BY <1>5, SubmitKeeps, DroppedKeeps
<1>6. CASE ClientConnects \/ ClientGone  BY <1>6, ClientKeeps
<1>7. ASSUME NEW w \in Workers, Terminate(w)  PROVE HostInv'
  BY <1>7, TerminateKeeps
<1>8. ASSUME NEW w \in Workers, DriverReceives(w)  PROVE HostInv'
  BY <1>8, OnOpenedKeeps, WorkDoneKeeps, EndedKeeps, WorkerErrorKeeps, OrphanKeeps
     DEF DriverReceives
<1>9. ASSUME NEW w \in Workers, WorkerSteps(w) \/ WorkerFailsToLoad(w) \/ WorkerUnplugged(w)
      PROVE  HostInv'
  <2>1. CASE WorkerLoads(w) \/ WorkerFailsToLoad(w)  BY <2>1, LoadsKeeps
  <2>2. CASE WorkerTakes(w)  BY <2>2, TakesKeeps
  <2>3. ASSUME NEW ok \in BOOLEAN, WorkerOpened(w, ok)  PROVE HostInv'
    BY <2>3, OpenedKeeps
  <2>4. CASE WorkerClosed(w)  BY <2>4, ClosedKeeps
  <2>5. CASE WorkerWorked(w)  BY <2>5, WorkedKeeps
  <2>6. CASE WorkerUnplugged(w)  BY <2>6, UnpluggedKeeps
  <2> QED BY <1>9, <2>1, <2>2, <2>3, <2>4, <2>5, <2>6 DEF WorkerSteps
<1>10. CASE UNCHANGED vars
  <2>1. StripPatchHasBase'
    BY <1>10 DEF HostInv, StripPatchHasBase, vars, flagVars, ledgerVars
  <2> QED BY <1>10, <2>1, FlagTypes, QuietKeeps DEF vars, flagVars, ledgerVars
<1> QED BY <1>1, <1>2, <1>3, <1>4, <1>5, <1>6, <1>7, <1>8, <1>9, <1>10 DEF Next

(* The driver, its workers' pipes and its calls stay consistent in every behaviour. *)
THEOREM HostInvariance == Spec => []HostInv
<1>1. Init => HostInv  BY HostInvInit
<1>2. HostInv /\ [Next]_vars => HostInv'  BY HostInvStep
<1> QED BY <1>1, <1>2, PTL DEF Spec

-----------------------------------------------------------------------------
(* What the invariant says of the driver. *)

LEMMA CreditsKeptIsInFlight == HostInv => PostedIsInFlight
<1> SUFFICES ASSUME HostInv, NEW id \in DOMAIN posted
             PROVE  /\ worker # NoWorker
                    /\ \/ id \in {toWorker[i].id : i \in DOMAIN toWorker}
                       \/ job[worker] # Idle /\ job[worker].id = id
                       \/ \E i \in DOMAIN answers[worker] :
                            answers[worker][i].type = "workDone" /\ id \in answers[worker][i].ids
  BY DEF PostedIsInFlight
<1>1. worker # NoWorker  BY DEF HostInv, DriverTidy
<1>2. worker \in Workers /\ inbox[worker] = toWorker  BY <1>1, HostFacts
<1>3. toWorker \in Seq(PortMsgs) /\ answers[worker] \in Seq(Answers)
  BY <1>2 DEF HostInv, PipesOK, PipeOK, PipeTyped
<1>4. DOMAIN toWorker = 1..Len(toWorker) /\ DOMAIN answers[worker] = 1..Len(answers[worker])
  BY <1>3
<1>5. Carries(id, toWorker, job[worker], answers[worker])  BY <1>2 DEF HostInv, CreditsKept
<1>6. CASE Has(toWorker, {m \in PortMsgs : m.id = id})
  <2>1. \E i \in DOMAIN toWorker : toWorker[i].id = id  BY <1>4, <1>6 DEF Has
  <2> QED BY <1>1, <2>1
<1>7. CASE Has(answers[worker], {e \in Acks : id \in e.ids})
  <2>1. \E i \in DOMAIN answers[worker] :
          answers[worker][i].type = "workDone" /\ id \in answers[worker][i].ids
    BY <1>4, <1>7 DEF Has, Acks
  <2> QED BY <1>1, <2>1
<1> QED BY <1>1, <1>5, <1>6, <1>7 DEF Carries

(* The credits of posted messages are never lost, across failed opens, closes, unplugs and
   workers that are let go of: each has its message or its acknowledgement on the way. *)
THEOREM CreditsStayInFlight == Spec => []CreditsInFlight
<1>1. HostInv => CreditsInFlight  BY CreditsKeptIsInFlight DEF HostInv, CreditsInFlight
<1> QED BY <1>1, HostInvariance, PTL

LEMMA LetGoOfCleanly == HostInv => LetGoIsClean
<1> SUFFICES ASSUME HostInv, NEW w \in Workers
             PROVE  /\ closeOf[w] = "resolved" => ~handle[w]
                    /\ terminating[w] = "closed" => job[w] = Idle /\ Inbox(w) = << >> /\ ~handle[w]
                    /\ thread[w] \in {"loading", "running"} /\ w # worker =>
                         \/ terminating[w] # "no"
                         \/ /\ w \in orphans
                            /\ \/ CloseMsg \in {port[w][i] : i \in DOMAIN port[w]}
                               \/ job[w].msg.kind = "close"
                               \/ [type |-> "closed"] \in {answers[w][i] : i \in DOMAIN answers[w]}
  BY DEF LetGoIsClean, CloseReleasesHandle, NoWorkerAbandoned, GracefulTerminateIsIdle
<1>1. inbox[w] = Inbox(w)  BY DEF inbox
<1>2. closeOf[w] = "resolved" => ~handle[w]  BY DEF HostInv, ClosedForGood
<1>3. terminating[w] = "closed" => job[w] = Idle /\ Inbox(w) = << >> /\ ~handle[w]
  BY <1>1 DEF HostInv, LetGo, AtRest
<1>4. ASSUME thread[w] \in {"loading", "running"}, w # worker, terminating[w] = "no"
      PROVE  /\ w \in orphans
             /\ \/ CloseMsg \in {port[w][i] : i \in DOMAIN port[w]}
                \/ job[w].msg.kind = "close"
                \/ [type |-> "closed"] \in {answers[w][i] : i \in DOMAIN answers[w]}
  <2>1. w \in orphans  BY <1>4 DEF HostInv, LetGo
  <2>2. Owes(inbox[w], job[w], answers[w])  BY <2>1 DEF HostInv, CloseOwed
  <2>3. inbox[w] = port[w]  BY <1>4, HostFacts
  <2>4. port[w] \in Seq(PortMsgs) /\ answers[w] \in Seq(Answers)
    BY <2>3 DEF HostInv, PipesOK, PipeOK, PipeTyped
  <2>5. CASE Has(port[w], {CloseMsg})
    <3>1. PICK i \in 1..Len(port[w]) : port[w][i] = CloseMsg  BY <2>5 DEF Has
    <3>2. i \in DOMAIN port[w]  BY <2>4, <3>1
    <3> QED BY <2>1, <3>1, <3>2
  <2>6. CASE job[w] = CloseMsg  BY <2>1, <2>6 DEF CloseMsg
  <2>7. CASE Has(answers[w], {Closed})
    <3>1. PICK i \in 1..Len(answers[w]) : answers[w][i] = Closed  BY <2>7 DEF Has
    <3>2. i \in DOMAIN answers[w]  BY <2>4, <3>1
    <3> QED BY <2>1, <3>1, <3>2 DEF Closed
  <2> QED BY <2>2, <2>3, <2>5, <2>6, <2>7 DEF Owes
<1> QED BY <1>2, <1>3, <1>4

(* An open resolves only for the call whose native open succeeded, and whatever way the
   driver lets go of a worker, its handle is released and its thread ends. *)
THEOREM WorkersStayInPlace == Spec => []WorkersKeepTheirPlace
<1>1. HostInv => WorkersKeepTheirPlace
  BY LetGoOfCleanly DEF HostInv, WorkersKeepTheirPlace
<1> QED BY <1>1, HostInvariance, PTL

(* After a refused strip frame no patch reaches the queue before a full frame does. *)
THEOREM StripPatchesHaveBase == Spec => []StripPatchHasBase
<1>1. HostInv => StripPatchHasBase  BY DEF HostInv
<1> QED BY <1>1, HostInvariance, PTL
=============================================================================
