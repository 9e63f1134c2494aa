------------------------ MODULE HidWorkerBatchProofs ------------------------
(***************************************************************************)
(* Proofs about HidWorkerBatch, for every batch size and number of         *)
(* messages: messages take effect in order, an uploaded picture has its    *)
(* STP before its credit returns, wherever its batch broke off, and the    *)
(* worker thread implements the safety part of WorkerContract.             *)
(***************************************************************************)
EXTENDS HidWorkerBatch, SequenceTheorems, TLAPS

Rows == [n : Nat, type : Types, link : Nat]

(* A line whose first message is the one after number a: numbered without gaps; a link is
   named after a message that arrived and none of its own came after; what was not
   collected is a link of its own, named after itself, and everything before it is in an
   earlier one. *)
LineOK(s, a) ==
    /\ s \in Seq(Rows)
    /\ \A i \in 1..Len(s) :
         /\ s[i].n = a + i
         /\ s[i].link = 0 \/ (s[i].link >= a + i /\ s[i].link <= a + Len(s))
         /\ s[i].type # "batched" => s[i].link = a + i
         /\ s[i].type # "batched" => \A j \in 1..(i - 1) : s[j].link # 0 /\ s[j].link < a + i

AnsweredOK == answered \in Seq(Nat) /\ \A i \in 1..Len(answered) : answered[i] = i

(* What was handled and is not answered is in the link whose turn it is: pictures of a
   batch, or a close that waits. *)
HandledOK ==
    /\ handled \in 0..Len(line) /\ batch \in {"none", "running", "over"}
    /\ handled > 0 => line[1].link # 0
    /\ \A i \in 1..handled : line[i].link = line[1].link
    /\ batch = "none" /\ handled # 0 => awaiting /\ handled = 1 /\ line[1].type = "close"
    /\ batch # "none" => ~awaiting /\ Len(line) > 0 /\ line[1].type = "batched"

(* Only what was handled has taken effect. *)
EffectsOK ==
    /\ effects \in Seq(Rows)
    /\ \A i \in 1..Len(effects) : effects[i].n <= Len(answered) + handled

(* The driver still owes the i-th effect its STP, and nothing but pictures followed. *)
Owed(i) ==
    /\ batch = "running" /\ pendingStp /\ effects[i].n > Len(answered)
    /\ \A m \in i..Len(effects) : IsPicture(effects[m])

(* Every uploaded picture has its STP or is owed one by the batch that runs. *)
PicturesOK ==
    /\ latched \cup lostStps \subseteq 0..Len(effects)
    /\ \A i \in 1..Len(effects) : IsPicture(effects[i]) => Committed(i) \/ Owed(i)

(* The inductive invariant. *)
BatchInv ==
    /\ arrived \in Nat /\ arrived = Len(answered) + Len(line)
    /\ arrived <= MaxMessages
    /\ AnsweredOK /\ LineOK(line, Len(answered)) /\ HandledOK
    /\ EffectsOK /\ EffectsInOrder /\ PicturesOK

-----------------------------------------------------------------------------
(* Turning collected pictures into a link leaves the line in order. *)
LEMMA EnqueuedOK ==
  ASSUME NEW s, NEW a \in Nat, NEW link \in Nat, LineOK(s, a), link = a + Len(s)
  PROVE  /\ LineOK(Enqueued(s, link), a) /\ Len(Enqueued(s, link)) = Len(s)
         /\ \A i \in 1..Len(s) : /\ Enqueued(s, link)[i].type = s[i].type
                                 /\ Enqueued(s, link)[i].link # 0
                                 /\ s[i].link # 0 => Enqueued(s, link)[i].link = s[i].link
<1> DEFINE t == Enqueued(s, link)
<1>1. s \in Seq(Rows) /\ DOMAIN s = 1..Len(s) /\ Len(s) \in Nat
  BY DEF LineOK
<1>2. \A i \in 1..Len(s) : t[i] \in Rows /\ t[i].n = s[i].n /\ t[i].type = s[i].type
                            /\ t[i].link = IF s[i].link = 0 THEN link ELSE s[i].link
  <2> SUFFICES ASSUME NEW i \in 1..Len(s)
               PROVE  t[i] \in Rows /\ t[i].n = s[i].n /\ t[i].type = s[i].type
                      /\ t[i].link = IF s[i].link = 0 THEN link ELSE s[i].link
    OBVIOUS
  <2>1. s[i] \in Rows BY <1>1
  <2>2. s[i].n \in Nat /\ s[i].type \in Types /\ s[i].link \in Nat BY <2>1 DEF Rows
  <2>3. t[i] = [n |-> s[i].n, type |-> s[i].type,
                link |-> IF s[i].link = 0 THEN link ELSE s[i].link]
    BY <1>1 DEF Enqueued
  <2> QED BY <2>2, <2>3 DEF Rows
<1>3. t \in Seq(Rows) /\ Len(t) = Len(s)
  <2>1. t = [i \in 1..Len(s) |-> t[i]]
    BY <1>1 DEF Enqueued
  <2> HIDE DEF t
  <2> QED BY <1>1, <1>2, <2>1
<1> HIDE DEF t
<1>4. \A i \in 1..Len(s) : t[i].link >= a + i /\ t[i].link <= a + Len(s) /\ t[i].link # 0
  <2> SUFFICES ASSUME NEW i \in 1..Len(s)
               PROVE  t[i].link >= a + i /\ t[i].link <= a + Len(s) /\ t[i].link # 0
    OBVIOUS
  <2>1. s[i].link = 0 \/ (s[i].link >= a + i /\ s[i].link <= a + Len(s))
    BY DEF LineOK
  <2>2. t[i].link = IF s[i].link = 0 THEN link ELSE s[i].link
    BY <1>2
  <2>3. s[i] \in Rows
    BY <1>1
  <2>4. s[i].link \in Nat
    BY <2>3 DEF Rows
  <2> QED BY <1>1, <2>1, <2>2, <2>4
<1>5. ASSUME NEW i \in 1..Len(s), t[i].type # "batched"
      PROVE  /\ t[i].link = a + i
             /\ \A j \in 1..(i - 1) : t[j].link # 0 /\ t[j].link < a + i
  <2>1. s[i].type # "batched" BY <1>2, <1>5
  <2>2. s[i].link = a + i /\ \A j \in 1..(i - 1) : s[j].link # 0 /\ s[j].link < a + i
    BY <2>1 DEF LineOK
  <2>3. a + i # 0 BY <1>1
  <2>4. t[i].link = a + i BY <1>2, <2>2, <2>3
  <2>5. ASSUME NEW j \in 1..(i - 1) PROVE t[j].link # 0 /\ t[j].link < a + i
    <3>1. j \in 1..Len(s) BY <1>1
    <3> QED BY <1>2, <2>2, <3>1
  <2> QED BY <2>4, <2>5
<1>6. LineOK(t, a)
  <2>1. ASSUME NEW i \in 1..Len(t)
        PROVE  t[i].n = a + i /\ (t[i].link >= a + i /\ t[i].link <= a + Len(t))
    <3>1. s[i].n = a + i BY <1>3 DEF LineOK
    <3> QED BY <1>2, <1>3, <1>4, <3>1
  <2> QED BY <1>3, <1>5, <2>1 DEF LineOK
<1> QED
  BY <1>2, <1>3, <1>4, <1>6 DEF t

(* So does the next message at its end. *)
LEMMA AppendOK ==
  ASSUME NEW s, NEW a \in Nat, LineOK(s, a), NEW e \in Rows, e.n = a + Len(s) + 1,
         e.link = 0 \/ e.link = e.n,
         e.type # "batched" => e.link = e.n /\ \A j \in 1..Len(s) : s[j].link # 0
  PROVE  /\ LineOK(Append(s, e), a) /\ Len(Append(s, e)) = Len(s) + 1
         /\ \A i \in 1..Len(s) : Append(s, e)[i] = s[i]
<1> DEFINE t == Append(s, e)
<1>1. s \in Seq(Rows) /\ Len(s) \in Nat
  BY DEF LineOK
<1>2. t \in Seq(Rows) /\ Len(t) = Len(s) + 1
  BY <1>1
<1>3. \A i \in 1..Len(s) : t[i] = s[i]
  BY <1>1
<1>4. t[Len(s) + 1] = e
  BY <1>1
<1> HIDE DEF t
<1>5. ASSUME NEW i \in 1..Len(t)
      PROVE  /\ t[i].n = a + i
             /\ t[i].link = 0 \/ (t[i].link >= a + i /\ t[i].link <= a + Len(t))
             /\ t[i].type # "batched" => t[i].link = a + i
             /\ t[i].type # "batched" => \A j \in 1..(i - 1) : t[j].link # 0 /\ t[j].link < a + i
  <2>1. CASE i \in 1..Len(s)
    <3>1. /\ s[i].n = a + i
          /\ s[i].link = 0 \/ (s[i].link >= a + i /\ s[i].link <= a + Len(s))
          /\ s[i].type # "batched" => s[i].link = a + i
          /\ s[i].type # "batched" => \A j \in 1..(i - 1) : s[j].link # 0 /\ s[j].link < a + i
      BY <2>1 DEF LineOK
    <3>2. \A j \in 1..(i - 1) : t[j] = s[j]
      BY <1>1, <1>3, <2>1
    <3>3. t[i] = s[i] BY <1>3, <2>1
    <3>4. s[i] \in Rows /\ s[i].link \in Nat
      <4>1. s[i] \in Rows BY <1>1, <2>1
      <4> QED BY <4>1 DEF Rows
    <3>5. s[i].link <= a + Len(s) => s[i].link <= a + Len(t)
      BY <1>1, <1>2, <3>4
    <3> QED BY <3>1, <3>2, <3>3, <3>5
  <2>2. CASE i = Len(s) + 1
    <3>1. t[i] = e /\ a + i = e.n /\ a + Len(t) = e.n
      BY <1>1, <1>2, <1>4, <2>2
    <3>2. e.n \in Nat BY DEF Rows
    <3>3. ASSUME t[i].type # "batched", NEW j \in 1..(i - 1)
          PROVE  t[j].link # 0 /\ t[j].link < a + i
      <4>1. j \in 1..Len(s) BY <1>1, <2>2
      <4>2. s[j].link # 0 BY <3>1, <3>3, <4>1
      <4>3. s[j].link <= a + Len(s) BY <4>1, <4>2 DEF LineOK
      <4>4. s[j] \in Rows BY <1>1, <4>1
      <4>5. s[j].link \in Nat BY <4>4 DEF Rows
      <4>6. a + i = a + Len(s) + 1 BY <1>1, <2>2
      <4> QED BY <1>1, <1>3, <4>1, <4>2, <4>3, <4>5, <4>6
    <3> QED BY <3>1, <3>2, <3>3
  <2> QED BY <1>1, <1>2, <2>1, <2>2
<1> QED
  BY <1>2, <1>3, <1>5 DEF LineOK, t

(* And so does taking its first link away. *)
LEMMA DropOK ==
  ASSUME NEW s, NEW a \in Nat, LineOK(s, a), NEW k \in 1..Len(s)
  PROVE  LineOK(SubSeq(s, k + 1, Len(s)), a + k)
         /\ Len(SubSeq(s, k + 1, Len(s))) = Len(s) - k
<1> DEFINE t == SubSeq(s, k + 1, Len(s))
<1>1. s \in Seq(Rows) /\ Len(s) \in Nat
  BY DEF LineOK
<1>2. t \in Seq(Rows) /\ Len(t) = Len(s) - k
  BY <1>1
<1>3. \A i \in 1..Len(t) : t[i] = s[k + i] /\ k + i \in 1..Len(s)
  BY <1>1, <1>2
<1> HIDE DEF t
<1>4. ASSUME NEW i \in 1..Len(t)
      PROVE  /\ t[i].n = (a + k) + i
             /\ t[i].link = 0 \/ (t[i].link >= (a + k) + i /\ t[i].link <= (a + k) + Len(t))
             /\ t[i].type # "batched" => t[i].link = (a + k) + i
             /\ t[i].type # "batched" =>
                  \A j \in 1..(i - 1) : t[j].link # 0 /\ t[j].link < (a + k) + i
  <2>1. t[i] = s[k + i] /\ k + i \in 1..Len(s) BY <1>3
  <2>2. /\ s[k + i].n = a + (k + i)
        /\ s[k + i].link = 0 \/ (s[k + i].link >= a + (k + i) /\ s[k + i].link <= a + Len(s))
        /\ s[k + i].type # "batched" => s[k + i].link = a + (k + i)
        /\ s[k + i].type # "batched" =>
             \A j \in 1..((k + i) - 1) : s[j].link # 0 /\ s[j].link < a + (k + i)
    BY <2>1 DEF LineOK
  <2>3. i \in Nat /\ k \in Nat BY <1>1, <1>2
  <2>4. a + (k + i) = (a + k) + i /\ a + Len(s) = (a + k) + Len(t) BY <1>1, <1>2, <2>3
  <2>5. ASSUME t[i].type # "batched", NEW j \in 1..(i - 1)
        PROVE  t[j].link # 0 /\ t[j].link < (a + k) + i
    <3>1. j \in 1..Len(t) /\ k + j \in 1..((k + i) - 1) BY <1>1, <1>2, <2>3
    <3>2. t[j] = s[k + j] BY <1>3, <3>1
    <3> QED BY <2>1, <2>2, <2>4, <2>5, <3>1, <3>2
  <2> QED BY <2>1, <2>2, <2>4, <2>5
<1> QED
  BY <1>2, <1>4 DEF LineOK, t

-----------------------------------------------------------------------------
(* The entry of the next message. *)
LEMMA EntryType ==
  ASSUME arrived \in Nat, NEW type \in Types, NEW link \in Nat
  PROVE  /\ LineEntry(type, link) \in Rows
         /\ LineEntry(type, link).n = arrived + 1
         /\ LineEntry(type, link).type = type
         /\ LineEntry(type, link).link = link
BY DEF LineEntry, Rows

(* The link whose turn it is stays what it is while messages arrive. *)
HeadKept ==
    Len(line) > 0 => /\ line'[1].type = line[1].type
                     /\ line[1].link # 0 => line'[1].link = line[1].link

(* A collected picture leaves the line in order, also when it completes a batch. *)
LEMMA OnImageLine ==
  ASSUME BatchInv, OnImage
  PROVE  LineOK(line', Len(answered)) /\ Len(line') = Len(line) + 1 /\ HeadKept
<1> DEFINE a == Len(answered)
           e == LineEntry("batched", 0)
           c == Append(line, e)
           q == Enqueued(c, arrived + 1)
<1>1. a \in Nat /\ arrived \in Nat /\ arrived = a + Len(line) /\ LineOK(line, a)
  BY DEF BatchInv, AnsweredOK
<1>2. e \in Rows /\ e.n = arrived + 1 /\ e.type = "batched" /\ e.link = 0
  BY <1>1, EntryType DEF Types
<1>3. Len(line) \in Nat
  BY <1>1 DEF LineOK
<1>4. line' = c \/ line' = q
  BY DEF OnImage
<1> HIDE DEF e, a
<1>5. LineOK(c, a) /\ Len(c) = Len(line) + 1 /\ \A i \in 1..Len(line) : c[i] = line[i]
  BY <1>1, <1>2, <1>3, AppendOK
<1> HIDE DEF c
<1>6. /\ LineOK(q, a) /\ Len(q) = Len(c)
      /\ \A i \in 1..Len(c) : /\ q[i].type = c[i].type
                              /\ c[i].link # 0 => q[i].link = c[i].link
  <2>1. arrived + 1 = a + Len(c) /\ arrived + 1 \in Nat BY <1>1, <1>3, <1>5
  <2> QED BY <1>1, <1>5, <2>1, EnqueuedOK
<1> HIDE DEF q
<1>7. HeadKept
  <2> SUFFICES ASSUME Len(line) > 0
               PROVE  /\ line'[1].type = line[1].type
                      /\ line[1].link # 0 => line'[1].link = line[1].link
    BY DEF HeadKept
  <2>1. 1 \in 1..Len(line) /\ 1 \in 1..Len(c) BY <1>3, <1>5
  <2>2. c[1] = line[1] BY <1>5, <2>1
  <2>3. q[1].type = c[1].type /\ (c[1].link # 0 => q[1].link = c[1].link)
    BY <1>6, <2>1
  <2> QED BY <1>4, <2>2, <2>3
<1>8. LineOK(line', a) /\ Len(line') = Len(line) + 1
  BY <1>4, <1>5, <1>6
<1> QED
  BY <1>7, <1>8 DEF a

(* So does any other message, after what was collected before it. *)
LEMMA OnMessageLine ==
  ASSUME BatchInv, NEW type \in MessageTypes, OnMessage(type)
  PROVE  LineOK(line', Len(answered)) /\ Len(line') = Len(line) + 1 /\ HeadKept
<1> DEFINE a == Len(answered)
           e == LineEntry(type, arrived + 1)
           t == Enqueued(line, arrived)
<1>1. a \in Nat /\ arrived \in Nat /\ arrived = a + Len(line) /\ LineOK(line, a)
  BY DEF BatchInv, AnsweredOK
<1>2. arrived + 1 \in Nat /\ type \in Types
  BY <1>1 DEF Types
<1>3. e \in Rows /\ e.n = arrived + 1 /\ e.type = type /\ e.link = arrived + 1
  BY <1>1, <1>2, EntryType
<1>4. Len(line) \in Nat
  BY <1>1 DEF LineOK
<1>5. line' = Append(t, e)
  BY DEF OnMessage
<1> HIDE DEF e, a
<1>6. /\ LineOK(t, a) /\ Len(t) = Len(line)
      /\ \A i \in 1..Len(line) : /\ t[i].type = line[i].type
                                 /\ t[i].link # 0
                                 /\ line[i].link # 0 => t[i].link = line[i].link
  BY <1>1, EnqueuedOK
<1> HIDE DEF t
<1>7. /\ LineOK(Append(t, e), a) /\ Len(Append(t, e)) = Len(t) + 1
      /\ \A i \in 1..Len(t) : Append(t, e)[i] = t[i]
  <2>1. \A j \in 1..Len(t) : t[j].link # 0 BY <1>6
  <2>2. e.n = a + Len(t) + 1 /\ e.link = e.n BY <1>1, <1>3, <1>6
  <2> QED BY <1>1, <1>3, <1>6, <2>1, <2>2, AppendOK
<1>8. HeadKept
  <2> SUFFICES ASSUME Len(line) > 0
               PROVE  /\ line'[1].type = line[1].type
                      /\ line[1].link # 0 => line'[1].link = line[1].link
    BY DEF HeadKept
  <2>1. 1 \in 1..Len(line) /\ 1 \in 1..Len(t) BY <1>4, <1>6
  <2> QED BY <1>5, <1>6, <1>7, <2>1
<1>9. LineOK(line', a) /\ Len(line') = Len(line) + 1
  BY <1>5, <1>6, <1>7
<1> QED
  BY <1>8, <1>9 DEF a

-----------------------------------------------------------------------------
(* What the invariant says of the numbers and lengths. *)
LEMMA Counts ==
  ASSUME BatchInv
  PROVE  /\ arrived \in Nat /\ Len(answered) \in Nat /\ Len(line) \in Nat
         /\ arrived = Len(answered) + Len(line) /\ handled \in Nat
         /\ effects \in Seq(Rows) /\ Len(effects) \in Nat
         /\ \A i \in 1..Len(effects) : /\ effects[i].n \in Nat
                                       /\ effects[i].n <= Len(answered) + handled
<1>1. arrived = Len(answered) + Len(line) /\ AnsweredOK /\ LineOK(line, Len(answered))
      /\ HandledOK /\ EffectsOK /\ arrived \in Nat
  BY DEF BatchInv
<1>2. Len(answered) \in Nat /\ Len(line) \in Nat
  BY <1>1 DEF AnsweredOK, LineOK
<1>3. handled \in Nat
  BY <1>1, <1>2 DEF HandledOK
<1>4. effects \in Seq(Rows) /\ \A i \in 1..Len(effects) : effects[i].n <= Len(answered) + handled
  BY <1>1 DEF EffectsOK
<1>5. Len(effects) \in Nat /\ \A i \in 1..Len(effects) : effects[i] \in Rows
  BY <1>4
<1>6. \A r \in Rows : r.n \in Nat
  BY DEF Rows
<1> QED
  BY <1>1, <1>2, <1>3, <1>4, <1>5, <1>6

(* A line's entries, by their numbers. *)
LEMMA EntryOfLine ==
  ASSUME BatchInv, NEW i \in 1..Len(line)
  PROVE  line[i] \in Rows /\ line[i].n = Len(answered) + i
BY DEF BatchInv, LineOK

(* The messages that were handled are in the link whose turn it is. *)
LEMMA HandledWithin ==
  ASSUME BatchInv, NEW k \in 1..Len(line), IsLink(k)
  PROVE  handled <= k
<1>1. handled \in Nat /\ Len(line) \in Nat /\ k \in Nat
  BY Counts
<1>2. handled <= Len(line) /\ \A i \in 1..handled : line[i].link = line[1].link
  BY <1>1 DEF BatchInv, HandledOK
<1>3. k < Len(line) => line[k + 1].link # line[1].link
  BY DEF IsLink
<1>4. ASSUME handled > k PROVE FALSE
  <2>1. k < Len(line) /\ k + 1 \in 1..handled BY <1>1, <1>2, <1>4
  <2> QED BY <1>2, <1>3, <2>1
<1> QED
  BY <1>1, <1>4

(* A link whose first message was not collected is a single message. *)
LEMMA NotBatchedIsAlone ==
  ASSUME BatchInv, NEW k \in 1..Len(line), IsLink(k), line[1].type # "batched"
  PROVE  k = 1
<1>1. LineOK(line, Len(answered)) /\ Len(answered) \in Nat /\ Len(line) \in Nat /\ k \in Nat
  BY Counts DEF BatchInv
<1>2. 1 \in 1..Len(line)
  BY <1>1
<1>3. line[1].link = Len(answered) + 1
  BY <1>1, <1>2 DEF LineOK
<1>4. line[k].link = line[1].link
  BY <1>1 DEF IsLink
<1>5. line[k].link = 0 \/ line[k].link >= Len(answered) + k
  BY <1>1 DEF LineOK
<1> QED
  BY <1>1, <1>3, <1>4, <1>5

(* A link whose first message was collected is made of collected pictures. *)
LEMMA BatchedLink ==
  ASSUME BatchInv, NEW k \in 1..Len(line), IsLink(k), line[1].type = "batched", NEW i \in 1..k
  PROVE  line[i].type = "batched"
<1>1. LineOK(line, Len(answered)) /\ Len(answered) \in Nat /\ Len(line) \in Nat /\ k \in Nat
  BY Counts DEF BatchInv
<1>2. i \in 1..Len(line) /\ line[i].link = line[1].link
  BY <1>1 DEF IsLink
<1>3. ASSUME line[i].type # "batched" PROVE FALSE
  <2>1. line[i].link = Len(answered) + i
        /\ \A j \in 1..(i - 1) : line[j].link # 0 /\ line[j].link < Len(answered) + i
    BY <1>1, <1>2, <1>3 DEF LineOK
  <2>2. i # 1 BY <1>3
  <2>3. 1 \in 1..(i - 1) BY <1>1, <2>2
  <2>4. line[1].link < Len(answered) + i BY <2>1, <2>3
  <2>5. line[1].link = Len(answered) + i BY <1>2, <2>1
  <2>6. Len(answered) + i \in Nat BY <1>1
  <2> QED BY <2>4, <2>5, <2>6
<1> QED
  BY <1>3

-----------------------------------------------------------------------------
(* Nothing acts: what had an effect was handled, or is answered by now. *)
LEMMA SameEffects ==
  ASSUME BatchInv, effects' = effects, Len(answered') \in Nat, handled' \in Nat,
         Len(answered') + handled' >= Len(answered) + handled
  PROVE  EffectsOK' /\ EffectsInOrder'
<1>1. EffectsOK'
  BY Counts DEF EffectsOK
<1>2. EffectsInOrder'
  BY DEF BatchInv, EffectsInOrder
<1> QED
  BY <1>1, <1>2

(* The next message acts, after everything that did before. *)
LEMMA NextEffect ==
  ASSUME BatchInv, NEW e \in Rows, e.n = Len(answered) + handled + 1,
         effects' = Append(effects, e), Len(answered') \in Nat, handled' \in Nat,
         Len(answered') + handled' >= Len(answered) + handled + 1
  PROVE  EffectsOK' /\ EffectsInOrder'
<1> DEFINE b == Len(effects)
<1>1. /\ Len(answered) \in Nat /\ handled \in Nat /\ effects \in Seq(Rows) /\ b \in Nat
      /\ \A i \in 1..b : effects[i].n \in Nat /\ effects[i].n <= Len(answered) + handled
  BY Counts
<1>2. /\ effects' \in Seq(Rows) /\ Len(effects') = b + 1 /\ DOMAIN effects' = 1..(b + 1)
      /\ effects'[b + 1] = e /\ \A i \in 1..b : effects'[i] = effects[i]
  BY <1>1
<1>3. effects'[b + 1].n = Len(answered) + handled + 1
  BY <1>2
<1>4. \A i, j \in 1..b : i < j => effects[i].n < effects[j].n
  BY <1>1 DEF BatchInv, EffectsInOrder
<1> HIDE DEF b
<1>5. \A i \in 1..(b + 1) : i \in 1..b \/ i = b + 1
  <2>1. b \in Nat BY <1>1
  <2> QED BY ONLY <2>1
<1>6. EffectsOK'
  <2>1. ASSUME NEW i \in 1..(b + 1) PROVE effects'[i].n <= Len(answered') + handled'
    <3>1. CASE i \in 1..b BY <1>1, <1>2, <3>1
    <3>2. CASE i = b + 1 BY <1>1, <1>3, <3>2
    <3> QED BY <1>5, <3>1, <3>2
  <2> QED BY <1>2, <2>1 DEF EffectsOK
<1>7. EffectsInOrder'
  <2>1. ASSUME NEW i \in 1..(b + 1), NEW j \in 1..(b + 1), i < j
        PROVE  effects'[i].n < effects'[j].n
    <3>1. i \in 1..b BY <1>1, <2>1
    <3>2. CASE j \in 1..b BY <1>2, <1>4, <2>1, <3>1, <3>2
    <3>3. CASE j = b + 1 BY <1>1, <1>2, <1>3, <3>1, <3>3
    <3> QED BY <1>5, <3>2, <3>3
  <2> QED BY <1>2, <2>1 DEF EffectsInOrder
<1> QED
  BY <1>6, <1>7

(* The panel's log only grows. *)
Grows ==
    /\ effects' = effects \/ \E e \in Rows : effects' = Append(effects, e)
    /\ latched \subseteq latched' /\ lostStps \subseteq lostStps'

LEMMA GrowsKeepsEffects ==
  ASSUME BatchInv, Grows
  PROVE  /\ Len(effects') \in Nat /\ Len(effects') >= Len(effects)
         /\ \A i \in 1..Len(effects) : effects'[i] = effects[i]
<1>1. effects \in Seq(Rows) /\ Len(effects) \in Nat
  BY Counts
<1>2. CASE effects' = effects
  BY <1>1, <1>2
<1>3. CASE \E e \in Rows : effects' = Append(effects, e)
  BY <1>1, <1>3
<1> QED
  BY <1>2, <1>3 DEF Grows

(* What has its STP keeps it. *)
LEMMA CommittedStays ==
  ASSUME BatchInv, Grows, NEW i \in 1..Len(effects), Committed(i)
  PROVE  Committed(i)'
<1>1. PICK at \in latched \cup lostStps : i <= at /\ \A m \in i..at : IsPicture(effects[m])
  BY DEF Committed
<1>2. at \in 0..Len(effects) /\ Len(effects) \in Nat
  BY <1>1, Counts DEF BatchInv, PicturesOK
<1>3. \A m \in i..at : effects'[m] = effects[m]
  BY <1>2, GrowsKeepsEffects
<1>4. at \in latched' \cup lostStps'
  BY <1>1 DEF Grows
<1>5. \A m \in i..at : IsPicture(effects'[m])
  BY <1>1, <1>3
<1> QED
  BY <1>1, <1>4, <1>5 DEF Committed

(* A message acts outside a batch: nothing is owed before it, and a picture brings its STP. *)
LEMMA SettledStays ==
  ASSUME BatchInv, batch # "running", Grows, latched' \cup lostStps' \subseteq 0..Len(effects'),
         \A i \in Len(effects) + 1 .. Len(effects') : IsPicture(effects'[i]) => Committed(i)'
  PROVE  PicturesOK'
<1>1. Len(effects) \in Nat /\ Len(effects') \in Nat /\ Len(effects') >= Len(effects)
      /\ \A i \in 1..Len(effects) : effects'[i] = effects[i]
  BY Counts, GrowsKeepsEffects
<1>2. \A i \in 1..Len(effects) : IsPicture(effects[i]) => Committed(i)
  BY DEF BatchInv, PicturesOK, Owed
<1>3. ASSUME NEW i \in 1..Len(effects'), IsPicture(effects'[i]) PROVE Committed(i)'
  <2>1. CASE i \in 1..Len(effects) BY <1>1, <1>2, <1>3, <2>1, CommittedStays
  <2>2. CASE i \in Len(effects) + 1 .. Len(effects') BY <1>3, <2>2
  <2> QED BY <1>1, <2>1, <2>2
<1> QED
  BY <1>3 DEF PicturesOK

(* In particular when nothing acts. *)
LEMMA SettledSame ==
  ASSUME BatchInv, batch # "running", UNCHANGED panelVars
  PROVE  PicturesOK'
<1>1. effects' = effects /\ latched' = latched /\ lostStps' = lostStps
  BY DEF panelVars
<1>2. Grows
  BY <1>1 DEF Grows
<1>3. latched' \cup lostStps' \subseteq 0..Len(effects')
  BY <1>1 DEF BatchInv, PicturesOK
<1>4. \A i \in Len(effects) + 1 .. Len(effects') : FALSE
  BY <1>1, Counts
<1> QED
  BY <1>2, <1>3, <1>4, SettledStays

(* ... or when what acts is not a picture. *)
LEMMA SettledOther ==
  ASSUME BatchInv, batch # "running", NEW e \in Rows, effects' = Append(effects, e),
         ~IsPicture(e), latched' = latched, lostStps' = lostStps
  PROVE  PicturesOK'
<1>1. effects \in Seq(Rows) /\ Len(effects) \in Nat
  BY Counts
<1>2. Grows
  BY DEF Grows
<1>3. Len(effects') = Len(effects) + 1 /\ effects'[Len(effects) + 1] = e
  BY <1>1
<1>4. latched' \cup lostStps' \subseteq 0..Len(effects')
  BY <1>1, <1>3 DEF BatchInv, PicturesOK
<1>5. \A i \in Len(effects) + 1 .. Len(effects') : effects'[i] = e
  BY <1>1, <1>3
<1> QED
  BY <1>2, <1>4, <1>5, SettledStays

-----------------------------------------------------------------------------
(* The first k messages of the line are answered under the next k numbers. *)
LEMMA AnswerInOrder ==
  ASSUME BatchInv, NEW k \in 1..Len(line), Answer(k)
  PROVE  /\ AnsweredOK' /\ Len(answered') = Len(answered) + k
         /\ LineOK(line', Len(answered'))
         /\ arrived' \in Nat /\ arrived' = Len(answered') + Len(line') /\ arrived' <= MaxMessages
<1> DEFINE a == Len(answered)
           m == NumbersOf(k)
<1>1. /\ answered \in Seq(Nat) /\ a \in Nat /\ LineOK(line, a) /\ Len(line) \in Nat
      /\ k \in Nat /\ \A i \in 1..a : answered[i] = i
  BY DEF BatchInv, AnsweredOK, LineOK
<1>2. \A i \in 1..k : line[i].n = a + i /\ a + i \in Nat
  <2>1. \A i \in 1..k : i \in 1..Len(line) /\ a + i \in Nat BY <1>1
  <2> QED BY <2>1, EntryOfLine
<1>3. m \in Seq(Nat) /\ Len(m) = k /\ \A i \in 1..k : m[i] = a + i
  <2>1. m = [i \in 1..k |-> a + i]
    BY <1>2 DEF NumbersOf
  <2> QED BY <1>1, <1>2, <2>1
<1>4. answered' = answered \o m
  BY DEF Answer
<1> HIDE DEF m
<1>5. answered' \in Seq(Nat) /\ Len(answered') = a + k
  <2>1. answered \o m \in Seq(Nat) BY <1>1, <1>3
  <2>2. Len(answered \o m) = Len(answered) + Len(m) BY <1>1, <1>3
  <2> QED BY <1>3, <1>4, <2>1, <2>2
<1>6. ASSUME NEW i \in 1..(a + k) PROVE answered'[i] = i
  <2>1. CASE i \in 1..a BY <1>1, <1>3, <1>4, <2>1
  <2>2. CASE i \in (a + 1)..(a + k)
    <3>1. answered'[i] = m[i - a] BY <1>1, <1>3, <1>4, <2>2
    <3>2. i - a \in 1..k BY <1>1, <2>2
    <3> QED BY <1>1, <1>3, <3>1, <3>2
  <2> QED BY <1>1, <2>1, <2>2
<1>7. LineOK(SubSeq(line, k + 1, Len(line)), a + k)
      /\ Len(SubSeq(line, k + 1, Len(line))) = Len(line) - k
  BY <1>1, DropOK
<1>8. line' = SubSeq(line, k + 1, Len(line)) /\ arrived' = arrived
  BY DEF Answer
<1>9. arrived' \in Nat /\ arrived' = Len(answered') + Len(line') /\ arrived' <= MaxMessages
  <2>1. arrived \in Nat /\ arrived = a + Len(line) /\ arrived <= MaxMessages BY DEF BatchInv
  <2>2. Len(line') = Len(line) - k BY <1>7, <1>8
  <2>3. a + Len(line) = (a + k) + (Len(line) - k) BY <1>1
  <2> QED BY <1>5, <1>8, <2>1, <2>2, <2>3
<1> QED
  BY <1>5, <1>6, <1>7, <1>8, <1>9 DEF AnsweredOK

(* A link is answered: the invariant, given what it did to the panel. *)
LEMMA AnswerKeepsInv ==
  ASSUME BatchInv, NEW k \in 1..Len(line), Answer(k), handled' = 0, batch' = "none",
         EffectsOK', EffectsInOrder', PicturesOK'
  PROVE  BatchInv'
<1>1. /\ AnsweredOK' /\ Len(answered') = Len(answered) + k
      /\ LineOK(line', Len(answered'))
      /\ arrived' \in Nat /\ arrived' = Len(answered') + Len(line') /\ arrived' <= MaxMessages
  BY AnswerInOrder
<1>2. Len(line') \in Nat
  BY <1>1 DEF LineOK
<1>3. 0 \in 0..Len(line') /\ \A i \in 1..0 : FALSE
  BY <1>2
<1>4. HandledOK'
  BY <1>3 DEF HandledOK
<1> QED
  BY <1>1, <1>4 DEF BatchInv

(* A link that is answered without a new effect keeps it. *)
LEMMA NoEffectKeepsInv ==
  ASSUME BatchInv, NEW k \in 1..Len(line), IsLink(k), Answer(k), batch # "running",
         handled' = 0, batch' = "none", UNCHANGED panelVars
  PROVE  BatchInv'
<1>1. Len(answered') = Len(answered) + k
  BY AnswerInOrder
<1>2. /\ Len(answered) \in Nat /\ handled \in Nat /\ k \in Nat /\ handled <= k
  BY Counts, HandledWithin
<1>3. Len(answered') \in Nat /\ handled' \in Nat
      /\ Len(answered') + handled' >= Len(answered) + handled
  BY <1>1, <1>2
<1>4. effects' = effects
  BY DEF panelVars
<1>5. EffectsOK' /\ EffectsInOrder'
  BY <1>3, <1>4, SameEffects
<1>6. PicturesOK'
  BY SettledSame
<1> QED
  BY <1>5, <1>6, AnswerKeepsInv

(* A single message acts and is answered: in order after everything that did before. *)
LEMMA EffectAnswered ==
  ASSUME BatchInv, 1 \in 1..Len(line), Answer(1), handled = 0, handled' = 0,
         effects' = Append(effects, line[1])
  PROVE  line[1] \in Rows /\ EffectsOK' /\ EffectsInOrder'
<1>1. line[1] \in Rows /\ line[1].n = Len(answered) + 1
  BY EntryOfLine
<1>2. Len(answered') = Len(answered) + 1
  BY AnswerInOrder
<1>3. Len(answered) \in Nat
  BY Counts
<1>4. line[1].n = Len(answered) + handled + 1
  BY <1>1, <1>3
<1>5. Len(answered') \in Nat /\ handled' \in Nat
      /\ Len(answered') + handled' >= Len(answered) + handled + 1
  BY <1>2, <1>3
<1> QED
  BY <1>1, <1>4, <1>5, NextEffect

(* What leaves line and answers alone keeps the invariant, given the rest of it. *)
LEMMA RestKeepsInv ==
  ASSUME BatchInv, UNCHANGED <<arrived, line, answered>>,
         HandledOK', EffectsOK', EffectsInOrder', PicturesOK'
  PROVE  BatchInv'
<1>1. AnsweredOK' /\ LineOK(line', Len(answered'))
  BY DEF BatchInv, AnsweredOK
<1> QED
  BY <1>1 DEF BatchInv

(* The invariant speaks of nothing else. *)
LEMMA SameKeepsInv ==
  ASSUME BatchInv, UNCHANGED <<arrived, line, answered, awaiting, runVars, panelVars>>
  PROVE  BatchInv'
<1>1. /\ UNCHANGED <<arrived, line, answered, awaiting>>
      /\ batch' = batch /\ handled' = handled /\ pendingStp' = pendingStp
      /\ effects' = effects /\ latched' = latched /\ lostStps' = lostStps
  BY DEF runVars, panelVars
<1>2. HandledOK'
  BY <1>1 DEF BatchInv, HandledOK
<1>3. EffectsOK' /\ EffectsInOrder'
  BY <1>1 DEF BatchInv, EffectsOK, EffectsInOrder
<1>4. PicturesOK'
  BY <1>1 DEF BatchInv, PicturesOK, Committed, Owed
<1> QED
  BY <1>1, <1>2, <1>3, <1>4, RestKeepsInv

(* An arrival answers nothing and has no effect of its own. *)
LEMMA ArrivalKeepsInv ==
  ASSUME BatchInv, Arrives, LineOK(line', Len(answered)), Len(line') = Len(line) + 1, HeadKept
  PROVE  BatchInv'
<1>1. /\ arrived' = arrived + 1 /\ arrived < MaxMessages /\ batch = "none"
      /\ answered' = answered /\ awaiting' = awaiting /\ UNCHANGED panelVars
      /\ batch' = batch /\ handled' = handled /\ pendingStp' = pendingStp
  BY DEF Arrives, deviceVars, runVars
<1>2. arrived \in Nat /\ Len(answered) \in Nat /\ Len(line) \in Nat /\ handled \in Nat
      /\ arrived = Len(answered) + Len(line)
  BY Counts
<1>3. arrived' \in Nat /\ arrived' = Len(answered') + Len(line') /\ arrived' <= MaxMessages
  BY <1>1, <1>2, BatchAssumption
<1>4. AnsweredOK' /\ LineOK(line', Len(answered'))
  <2>1. AnsweredOK' BY <1>1 DEF BatchInv, AnsweredOK
  <2> QED BY <1>1, <2>1
<1>5. HandledOK'
  <2>1. CASE handled = 0
    <3>1. 0 \in 0..Len(line') /\ \A i \in 1..0 : FALSE BY <1>2
    <3> QED BY <1>1, <2>1, <3>1 DEF HandledOK
  <2>2. CASE handled # 0
    <3>1. handled = 1 /\ awaiting /\ line[1].type = "close" /\ line[1].link # 0 /\ Len(line) > 0
      BY <1>1, <1>2, <2>2 DEF BatchInv, HandledOK
    <3>2. line'[1].type = "close" /\ line'[1].link # 0
      BY <3>1 DEF HeadKept
    <3>3. 1 \in 0..Len(line') /\ \A i \in 1..1 : line'[i].link = line'[1].link
      BY <1>2
    <3> QED BY <1>1, <3>1, <3>2, <3>3 DEF HandledOK
  <2> QED BY <2>1, <2>2
<1>6. EffectsOK' /\ EffectsInOrder'
  BY <1>1 DEF BatchInv, EffectsOK, EffectsInOrder, panelVars
<1>7. PicturesOK'
  BY <1>1, SettledSame
<1> QED
  BY <1>3, <1>4, <1>5, <1>6, <1>7 DEF BatchInv

(* The end of the collection window leaves the line in order. *)
LEMMA TimerKeepsInv ==
  ASSUME BatchInv, TimerFires
  PROVE  BatchInv' /\ Len(line') = Len(line)
<1>1. /\ line' = Enqueued(line, arrived) /\ batch = "none"
      /\ arrived' = arrived /\ answered' = answered /\ awaiting' = awaiting
      /\ batch' = batch /\ handled' = handled /\ pendingStp' = pendingStp
      /\ UNCHANGED panelVars
  BY DEF TimerFires, deviceVars, runVars
<1>2. arrived \in Nat /\ Len(answered) \in Nat /\ Len(line) \in Nat /\ handled \in Nat
      /\ arrived = Len(answered) + Len(line) /\ LineOK(line, Len(answered))
  BY Counts DEF BatchInv
<1>3. /\ LineOK(line', Len(answered)) /\ Len(line') = Len(line)
      /\ \A i \in 1..Len(line) : /\ line'[i].type = line[i].type
                                 /\ line[i].link # 0 => line'[i].link = line[i].link
  BY <1>1, <1>2, EnqueuedOK
<1>4. AnsweredOK' /\ LineOK(line', Len(answered'))
  <2>1. AnsweredOK' BY <1>1 DEF BatchInv, AnsweredOK
  <2> QED BY <1>1, <1>3, <2>1
<1>5. HandledOK'
  <2>1. CASE handled = 0
    <3>1. 0 \in 0..Len(line') /\ \A i \in 1..0 : FALSE BY <1>2, <1>3
    <3> QED BY <1>1, <2>1, <3>1 DEF HandledOK
  <2>2. CASE handled # 0
    <3>1. handled = 1 /\ awaiting /\ line[1].type = "close" /\ line[1].link # 0 /\ Len(line) > 0
      BY <1>1, <1>2, <2>2 DEF BatchInv, HandledOK
    <3>2. 1 \in 1..Len(line) BY <1>2, <3>1
    <3>3. line'[1].type = "close" /\ line'[1].link # 0
      BY <1>3, <3>1, <3>2
    <3>4. 1 \in 0..Len(line') /\ \A i \in 1..1 : line'[i].link = line'[1].link
      BY <1>3, <3>2
    <3> QED BY <1>1, <3>1, <3>3, <3>4 DEF HandledOK
  <2> QED BY <2>1, <2>2
<1>6. EffectsOK' /\ EffectsInOrder'
  BY <1>1 DEF BatchInv, EffectsOK, EffectsInOrder, panelVars
<1>7. PicturesOK'
  BY <1>1, SettledSame
<1>8. arrived' \in Nat /\ arrived' = Len(answered') + Len(line') /\ arrived' <= MaxMessages
  BY <1>1, <1>2, <1>3 DEF BatchInv
<1> QED
  BY <1>3, <1>4, <1>5, <1>6, <1>7, <1>8 DEF BatchInv

-----------------------------------------------------------------------------
(* At a link's turn nothing of it has been handled. *)
LEMMA TurnStarts ==
  ASSUME BatchInv, NEW k \in DOMAIN line, NEW type, Turn(k, type)
  PROVE  /\ k \in 1..Len(line) /\ IsLink(k) /\ line[1].type = type /\ ~awaiting
         /\ batch = "none" /\ handled = 0 /\ 1 \in 1..Len(line)
<1>1. k \in 1..Len(line) /\ Len(line) \in Nat
  BY DEF BatchInv, LineOK
<1>2. IsLink(k) /\ line[1].type = type /\ ~awaiting /\ batch = "none"
  BY DEF Turn
<1>3. handled = 0
  BY <1>2 DEF BatchInv, HandledOK
<1> QED
  BY <1>1, <1>2, <1>3

(* A picture alone brings its STP, and a control message is no picture. *)
LEMMA ImageKeepsInv ==
  ASSUME BatchInv, NEW k \in DOMAIN line, RunImage(k)
  PROVE  BatchInv'
<1>1. /\ k \in 1..Len(line) /\ IsLink(k) /\ line[1].type = "image"
      /\ batch = "none" /\ handled = 0 /\ 1 \in 1..Len(line)
  BY TurnStarts DEF RunImage
<1>2. Answer(k) /\ batch' = "none" /\ handled' = 0
  BY <1>1 DEF RunImage, runVars
<1>3. k = 1
  BY <1>1, NotBatchedIsAlone
<1>4. CASE UNCHANGED panelVars
  BY <1>1, <1>2, <1>4, NoEffectKeepsInv
<1>5. CASE Acts(1) /\ Latch(Len(effects) + 1)
  <2>1. effects' = Append(effects, line[1])
    BY <1>5 DEF Acts
  <2>2. line[1] \in Rows /\ EffectsOK' /\ EffectsInOrder'
    BY <1>1, <1>2, <1>3, <2>1, EffectAnswered
  <2>3. effects \in Seq(Rows) /\ Len(effects) \in Nat
    BY Counts
  <2>4. Len(effects') = Len(effects) + 1 /\ effects'[Len(effects) + 1] = line[1]
    BY <2>1, <2>2, <2>3
  <2>5. /\ latched \subseteq latched' /\ lostStps \subseteq lostStps'
        /\ latched' \cup lostStps' = (latched \cup lostStps) \cup {Len(effects) + 1}
    BY <1>5 DEF Latch
  <2>6. Grows
    BY <2>1, <2>2, <2>5 DEF Grows
  <2>7. latched' \cup lostStps' \subseteq 0..Len(effects')
    <3>1. latched \cup lostStps \subseteq 0..Len(effects) BY DEF BatchInv, PicturesOK
    <3>2. 0..Len(effects) \subseteq 0..Len(effects') /\ Len(effects) + 1 \in 0..Len(effects')
      BY <2>3, <2>4
    <3> QED BY <2>5, <3>1, <3>2
  <2>8. ASSUME NEW i \in Len(effects) + 1 .. Len(effects') PROVE Committed(i)'
    <3>1. i = Len(effects) + 1 BY <2>3, <2>4
    <3>2. i \in latched' \cup lostStps' BY <2>5, <3>1
    <3>3. \A m \in i..i : IsPicture(effects'[m])
      BY <1>1, <2>3, <2>4, <3>1 DEF IsPicture
    <3>4. i <= i BY <2>3, <3>1
    <3> QED BY <3>2, <3>3, <3>4 DEF Committed
  <2>9. PicturesOK'
    BY <1>1, <2>6, <2>7, <2>8, SettledStays
  <2> QED BY <1>1, <1>2, <2>2, <2>9, AnswerKeepsInv
<1> QED
  BY <1>4, <1>5 DEF RunImage

LEMMA ControlKeepsInv ==
  ASSUME BatchInv, NEW k \in DOMAIN line, RunControl(k)
  PROVE  BatchInv'
<1>1. /\ k \in 1..Len(line) /\ IsLink(k) /\ line[1].type = "control"
      /\ batch = "none" /\ handled = 0 /\ 1 \in 1..Len(line)
  BY TurnStarts DEF RunControl
<1>2. Answer(k) /\ batch' = "none" /\ handled' = 0
      /\ latched' = latched /\ lostStps' = lostStps
  BY <1>1 DEF RunControl, runVars
<1>3. k = 1
  BY <1>1, NotBatchedIsAlone
<1>4. CASE effects' = effects
  BY <1>1, <1>2, <1>4, NoEffectKeepsInv DEF panelVars
<1>5. CASE Acts(1)
  <2>1. effects' = Append(effects, line[1])
    BY <1>5 DEF Acts
  <2>2. line[1] \in Rows /\ EffectsOK' /\ EffectsInOrder'
    BY <1>1, <1>2, <1>3, <2>1, EffectAnswered
  <2>3. PicturesOK'
    BY <1>1, <1>2, <2>1, <2>2, SettledOther DEF IsPicture
  <2> QED BY <1>1, <1>2, <2>2, <2>3, AnswerKeepsInv
<1> QED
  BY <1>4, <1>5 DEF RunControl

(* The end of an open: the panel is initialised, or the open failed. *)
LEMMA OpenEndsKeepsInv ==
  ASSUME BatchInv, NEW k \in DOMAIN line, NEW ok \in BOOLEAN, OpenEnds(k, ok)
  PROVE  BatchInv'
<1>1. /\ k \in 1..Len(line) /\ 1 \in 1..Len(line)
  BY DEF BatchInv, LineOK
<1>2. /\ IsLink(k) /\ awaiting /\ line[1].type = "open" /\ Answer(k)
      /\ batch' = batch /\ handled' = handled /\ latched' = latched /\ lostStps' = lostStps
  BY DEF OpenEnds, runVars
<1>3. batch = "none" /\ handled = 0
  BY <1>2 DEF BatchInv, HandledOK
<1>4. k = 1
  BY <1>1, <1>2, NotBatchedIsAlone
<1>5. CASE effects' = effects
  BY <1>1, <1>2, <1>3, <1>5, NoEffectKeepsInv DEF panelVars
<1>6. CASE effects' = Append(effects, line[1])
  <2>1. line[1] \in Rows /\ EffectsOK' /\ EffectsInOrder'
    BY <1>1, <1>2, <1>3, <1>4, <1>6, EffectAnswered
  <2>2. PicturesOK'
    BY <1>2, <1>3, <1>6, <2>1, SettledOther DEF IsPicture
  <2> QED BY <1>1, <1>2, <1>3, <2>1, <2>2, AnswerKeepsInv
<1> QED
  BY <1>5, <1>6 DEF OpenEnds

(* A close acts before it is answered. *)
LEMMA CloseStartsKeepsInv ==
  ASSUME BatchInv, NEW k \in DOMAIN line, CloseStarts(k)
  PROVE  BatchInv'
<1>1. /\ k \in 1..Len(line) /\ IsLink(k) /\ line[1].type = "close"
      /\ batch = "none" /\ handled = 0 /\ 1 \in 1..Len(line)
  BY TurnStarts DEF CloseStarts
<1>2. /\ arrived' = arrived /\ line' = line /\ answered' = answered
      /\ awaiting' /\ handled' = 1 /\ batch' = "none"
      /\ latched' = latched /\ lostStps' = lostStps
  BY <1>1 DEF CloseStarts, chainVars
<1>3. HandledOK'
  <2>1. line[1].link # 0 BY <1>1 DEF IsLink
  <2>2. 1 \in 0..Len(line) /\ \A i \in 1..1 : line[i].link = line[1].link
    BY <1>1
  <2> QED BY <1>1, <1>2, <2>1, <2>2 DEF HandledOK
<1>4. Len(answered) \in Nat /\ Len(answered') = Len(answered) /\ handled' \in Nat
  BY <1>2, Counts
<1>5. CASE effects' = effects
  <2>1. Len(answered') + handled' >= Len(answered) + handled
    BY <1>1, <1>2, <1>4
  <2>2. EffectsOK' /\ EffectsInOrder'
    BY <1>4, <1>5, <2>1, SameEffects
  <2>3. PicturesOK'
    BY <1>1, <1>2, <1>5, SettledSame DEF panelVars
  <2> QED BY <1>2, <1>3, <2>2, <2>3, RestKeepsInv
<1>6. CASE effects' = Append(effects, line[1])
  <2>1. line[1] \in Rows /\ line[1].n = Len(answered) + 1
    BY <1>1, EntryOfLine
  <2>2. line[1].n = Len(answered) + handled + 1
        /\ Len(answered') + handled' >= Len(answered) + handled + 1
    BY <1>1, <1>2, <1>4, <2>1
  <2>3. EffectsOK' /\ EffectsInOrder'
    BY <1>4, <1>6, <2>1, <2>2, NextEffect
  <2>4. PicturesOK'
    BY <1>1, <1>2, <1>6, <2>1, SettledOther DEF IsPicture
  <2> QED BY <1>2, <1>3, <2>3, <2>4, RestKeepsInv
<1> QED
  BY <1>5, <1>6 DEF CloseStarts

(* A batch begins with nothing owed. *)
LEMMA BatchStartsKeepsInv ==
  ASSUME BatchInv, NEW k \in DOMAIN line, BatchStarts(k)
  PROVE  BatchInv'
<1>1. /\ k \in 1..Len(line) /\ IsLink(k) /\ line[1].type = "batched" /\ ~awaiting
      /\ batch = "none" /\ handled = 0 /\ 1 \in 1..Len(line)
  BY TurnStarts DEF BatchStarts
<1>2. /\ arrived' = arrived /\ line' = line /\ answered' = answered /\ awaiting' = awaiting
      /\ batch' = "running" /\ handled' = handled /\ effects' = effects /\ UNCHANGED panelVars
  BY DEF BatchStarts, chainVars, deviceVars, panelVars
<1>3. HandledOK'
  <2>1. Len(line) \in Nat /\ Len(line) > 0 BY <1>1, Counts
  <2>2. 0 \in 0..Len(line) /\ \A i \in 1..0 : FALSE BY <2>1
  <2> QED BY <1>1, <1>2, <2>1, <2>2 DEF HandledOK
<1>4. EffectsOK' /\ EffectsInOrder'
  BY <1>2 DEF BatchInv, EffectsOK, EffectsInOrder
<1>5. PicturesOK'
  BY <1>1, <1>2, SettledSame
<1> QED
  BY <1>2, <1>3, <1>4, <1>5, RestKeepsInv

(* A picture of the batch: it is owed its STP together with the pictures before it. *)
LEMMA BatchUploadsKeepsInv ==
  ASSUME BatchInv, NEW k \in DOMAIN line, BatchUploads(k)
  PROVE  BatchInv'
<1> DEFINE b == Len(effects)
           i == handled + 1
<1>1. /\ k \in 1..Len(line) /\ Len(line) \in Nat /\ handled \in Nat
      /\ Len(answered) \in Nat /\ effects \in Seq(Rows) /\ b \in Nat
  BY Counts DEF BatchInv, LineOK
<1>2. /\ IsLink(k) /\ batch = "running" /\ handled < k /\ handled' = handled + 1
      /\ arrived' = arrived /\ line' = line /\ answered' = answered /\ awaiting' = awaiting
      /\ batch' = batch /\ latched' = latched /\ lostStps' = lostStps
  BY DEF BatchUploads, chainVars
<1>3. ~awaiting /\ Len(line) > 0 /\ line[1].type = "batched"
  BY <1>2 DEF BatchInv, HandledOK
<1>4. i \in 1..k /\ i \in 1..Len(line)
  BY <1>1, <1>2
<1>5. HandledOK'
  <2>1. \A j \in 1..i : line[j].link = line[1].link
    <3>1. \A j \in 1..i : j \in 1..k BY <1>1, <1>4
    <3> QED BY <1>2, <3>1 DEF IsLink
  <2>2. line[1].link # 0 BY <1>2 DEF IsLink
  <2>3. i \in 0..Len(line) BY <1>1, <1>4
  <2> QED BY <1>2, <1>3, <2>1, <2>2, <2>3 DEF HandledOK
<1>6. Len(answered') \in Nat /\ handled' \in Nat
      /\ Len(answered') + handled' >= Len(answered) + handled + 1
      /\ Len(answered') + handled' >= Len(answered) + handled
  BY <1>1, <1>2
<1>7. latched \cup lostStps \subseteq 0..b
      /\ \A j \in 1..b : IsPicture(effects[j]) => Committed(j) \/ Owed(j)
  BY DEF BatchInv, PicturesOK
<1>8. CASE effects' = effects /\ pendingStp' = pendingStp
  <2>1. EffectsOK' /\ EffectsInOrder'
    BY <1>6, <1>8, SameEffects
  <2>2. PicturesOK'
    BY <1>2, <1>7, <1>8 DEF PicturesOK, Committed, Owed
  <2> QED BY <1>2, <1>5, <2>1, <2>2, RestKeepsInv
<1>9. CASE Acts(handled + 1) /\ pendingStp' = TRUE
  <2>1. effects' = Append(effects, line[i])
    BY <1>9 DEF Acts
  <2>2. line[i] \in Rows /\ line[i].n = Len(answered) + handled + 1
    <3>1. line[i] \in Rows /\ line[i].n = Len(answered) + i BY <1>4, EntryOfLine
    <3> QED BY <1>1, <3>1
  <2>3. EffectsOK' /\ EffectsInOrder'
    BY <1>6, <2>1, <2>2, NextEffect
  <2>4. IsPicture(line[i])
    BY <1>1, <1>2, <1>3, <1>4, BatchedLink DEF IsPicture
  <2>5. /\ Len(effects') = b + 1 /\ effects'[b + 1] = line[i]
        /\ \A j \in 1..b : effects'[j] = effects[j]
    BY <1>1, <2>1, <2>2
  <2>6. Grows
    BY <1>2, <2>1, <2>2 DEF Grows
  <2> HIDE DEF i
  <2>7. ASSUME NEW j \in 1..(b + 1), IsPicture(effects'[j])
        PROVE  Committed(j)' \/ Owed(j)'
    <3>1. CASE j \in 1..b /\ Committed(j)
      BY <2>6, <3>1, CommittedStays
    <3>2. CASE j \in 1..b /\ Owed(j)
      <4>1. effects'[j].n > Len(answered')
        BY <1>2, <2>5, <3>2 DEF Owed
      <4>2. ASSUME NEW m \in j..(b + 1) PROVE IsPicture(effects'[m])
        <5>1. m \in j..b \/ m = b + 1 BY <1>1, <3>2
        <5>2. CASE m \in j..b
          <6>1. m \in 1..b BY <1>1, <3>2, <5>2
          <6>2. IsPicture(effects[m]) BY <3>2, <5>2 DEF Owed
          <6> QED BY <2>5, <6>1, <6>2
        <5>3. CASE m = b + 1 BY <2>4, <2>5, <5>3
        <5> QED BY <5>1, <5>2, <5>3
      <4> QED BY <1>2, <1>9, <2>5, <4>1, <4>2 DEF Owed
    <3>3. CASE j = b + 1
      <4>1. effects'[j].n > Len(answered')
        BY <1>1, <1>2, <2>2, <2>5, <3>3
      <4>2. \A m \in j..(b + 1) : m = b + 1
        BY <1>1, <3>3
      <4>3. \A m \in j..(b + 1) : IsPicture(effects'[m])
        BY <2>4, <2>5, <4>2
      <4> QED BY <1>2, <1>9, <2>5, <4>1, <4>3 DEF Owed
    <3>4. j \in 1..b => Committed(j) \/ Owed(j)
      BY <1>7, <2>5, <2>7
    <3>5. j \in 1..b \/ j = b + 1
      BY <1>1
    <3> QED BY <3>1, <3>2, <3>3, <3>4, <3>5
  <2>8. PicturesOK'
    <3>1. 0..b \subseteq 0..(b + 1) BY <1>1
    <3>2. latched' \cup lostStps' \subseteq 0..Len(effects')
      BY <1>2, <1>7, <2>5, <3>1
    <3> QED BY <2>5, <2>7, <3>2 DEF PicturesOK
  <2> QED BY <1>2, <1>5, <2>3, <2>8, RestKeepsInv
<1> QED
  BY <1>8, <1>9 DEF BatchUploads

(* The batch is over, whole or broken off: what was owed an STP has it. *)
LEMMA BatchEndsKeepsInv ==
  ASSUME BatchInv, NEW k \in DOMAIN line, BatchEnds(k)
  PROVE  BatchInv'
<1> DEFINE b == Len(effects)
<1>1. /\ IsLink(k) /\ batch = "running" /\ batch' = "over"
      /\ arrived' = arrived /\ line' = line /\ answered' = answered /\ awaiting' = awaiting
      /\ handled' = handled /\ effects' = effects
  BY DEF BatchEnds, chainVars
<1>2. b \in Nat
  BY Counts
<1>3. HandledOK'
  BY <1>1 DEF BatchInv, HandledOK
<1>4. EffectsOK' /\ EffectsInOrder'
  BY <1>1 DEF BatchInv, EffectsOK, EffectsInOrder
<1>5. latched \cup lostStps \subseteq 0..b
      /\ \A j \in 1..b : IsPicture(effects[j]) => Committed(j) \/ Owed(j)
  BY DEF BatchInv, PicturesOK
<1>6. CASE ~pendingStp
  <2>1. latched' = latched /\ lostStps' = lostStps
    BY <1>6 DEF BatchEnds
  <2>2. \A j \in 1..b : ~Owed(j)
    BY <1>6 DEF Owed
  <2>3. PicturesOK'
    BY <1>1, <1>5, <2>1, <2>2 DEF PicturesOK, Committed
  <2> QED BY <1>1, <1>3, <1>4, <2>3, RestKeepsInv
<1>7. CASE pendingStp
  <2>1. Latch(b)
    BY <1>7 DEF BatchEnds
  <2>2. /\ latched \subseteq latched' /\ lostStps \subseteq lostStps'
        /\ latched' \cup lostStps' = (latched \cup lostStps) \cup {b}
    BY <2>1 DEF Latch
  <2>3. Grows
    BY <1>1, <2>2 DEF Grows
  <2>4. ASSUME NEW j \in 1..b, IsPicture(effects[j]) PROVE Committed(j)'
    <3>1. CASE Committed(j)
      BY <2>3, <3>1, CommittedStays
    <3>2. CASE Owed(j)
      <4>1. \A m \in j..b : IsPicture(effects'[m]) BY <1>1, <3>2 DEF Owed
      <4>2. j <= b BY <1>2
      <4> QED BY <2>2, <4>1, <4>2 DEF Committed
    <3> QED BY <1>5, <2>4, <3>1, <3>2
  <2>5. PicturesOK'
    <3>1. b \in 0..b BY <1>2
    <3>2. latched' \cup lostStps' \subseteq 0..Len(effects') BY <1>1, <1>5, <2>2, <3>1
    <3> QED BY <1>1, <2>4, <3>2 DEF PicturesOK
  <2> QED BY <1>1, <1>3, <1>4, <2>5, RestKeepsInv
<1> QED
  BY <1>6, <1>7

(* The answer of a batch: nothing is owed any more. *)
LEMMA BatchAnswersKeepsInv ==
  ASSUME BatchInv, NEW k \in DOMAIN line, BatchAnswers(k)
  PROVE  BatchInv'
<1>1. k \in 1..Len(line)
  BY DEF BatchInv, LineOK
<1>2. IsLink(k) /\ batch = "over" /\ batch' = "none" /\ handled' = 0 /\ Answer(k)
      /\ UNCHANGED panelVars
  BY DEF BatchAnswers, deviceVars
<1> QED
  BY <1>1, <1>2, NoEffectKeepsInv

(* A link that starts to wait, does a part of its work or runs to its end keeps the
   invariant. *)
LEMMA LinkKeepsInv ==
  ASSUME BatchInv, NEW k \in DOMAIN line, RunLink(k)
  PROVE  BatchInv'
<1>1. CASE SkipBatch(k)
  <2>1. /\ k \in 1..Len(line) /\ IsLink(k) /\ batch = "none" /\ handled = 0
    BY <1>1, TurnStarts DEF SkipBatch
  <2>2. Answer(k) /\ batch' = "none" /\ handled' = 0 /\ UNCHANGED panelVars
    BY <1>1, <2>1 DEF SkipBatch, deviceVars, runVars
  <2> QED BY <2>1, <2>2, NoEffectKeepsInv
<1>2. ASSUME NEW b \in {"plain", "batching"}, RunSetOverrides(k, b) PROVE BatchInv'
  <2>1. /\ k \in 1..Len(line) /\ IsLink(k) /\ batch = "none" /\ handled = 0
    BY <1>2, TurnStarts DEF RunSetOverrides
  <2>2. Answer(k) /\ batch' = "none" /\ handled' = 0 /\ UNCHANGED panelVars
    BY <1>2, <2>1 DEF RunSetOverrides, runVars
  <2> QED BY <2>1, <2>2, NoEffectKeepsInv
<1>3. CASE OpenUnknownModel(k)
  <2>1. /\ k \in 1..Len(line) /\ IsLink(k) /\ batch = "none" /\ handled = 0
    BY <1>3, TurnStarts DEF OpenUnknownModel
  <2>2. Answer(k) /\ batch' = "none" /\ handled' = 0 /\ UNCHANGED panelVars
    BY <1>3, <2>1 DEF OpenUnknownModel, deviceVars, runVars
  <2> QED BY <2>1, <2>2, NoEffectKeepsInv
<1>4. ASSUME NEW b \in {"plain", "batching"}, OpenStarts(k, b) PROVE BatchInv'
  <2>1. batch = "none" /\ handled = 0 /\ Len(line) \in Nat
    BY <1>4, TurnStarts, Counts DEF OpenStarts
  <2>2. /\ arrived' = arrived /\ line' = line /\ answered' = answered
        /\ batch' = "none" /\ handled' = 0 /\ UNCHANGED panelVars
    BY <1>4, <2>1 DEF OpenStarts, chainVars, runVars
  <2>3. 0 \in 0..Len(line) /\ \A i \in 1..0 : FALSE
    BY <2>1
  <2>4. HandledOK'
    BY <2>2, <2>3 DEF HandledOK
  <2>5. EffectsOK' /\ EffectsInOrder'
    BY <2>1, <2>2 DEF BatchInv, EffectsOK, EffectsInOrder, panelVars
  <2>6. PicturesOK'
    BY <2>1, <2>2, SettledSame
  <2> QED BY <2>2, <2>4, <2>5, <2>6, RestKeepsInv
<1>5. CASE CloseEnds(k)
  <2>1. k \in 1..Len(line)
    BY DEF BatchInv, LineOK
  <2>2. IsLink(k) /\ awaiting /\ Answer(k) /\ handled' = 0 /\ batch' = batch
        /\ UNCHANGED panelVars
    BY <1>5 DEF CloseEnds, deviceVars
  <2>3. batch = "none"
    BY <2>2 DEF BatchInv, HandledOK
  <2> QED BY <2>1, <2>2, <2>3, NoEffectKeepsInv
<1> QED
  BY <1>1, <1>2, <1>3, <1>4, <1>5, ImageKeepsInv, ControlKeepsInv, OpenEndsKeepsInv,
     CloseStartsKeepsInv, BatchStartsKeepsInv, BatchUploadsKeepsInv, BatchEndsKeepsInv,
     BatchAnswersKeepsInv DEF RunLink

-----------------------------------------------------------------------------
LEMMA BatchInvInit == BatchInit => BatchInv
<1> SUFFICES ASSUME BatchInit PROVE BatchInv
  OBVIOUS
<1>1. /\ arrived = 0 /\ line = << >> /\ answered = << >> /\ effects = << >>
      /\ batch = "none" /\ handled = 0 /\ latched = {} /\ lostStps = {}
  BY DEF BatchInit
<1>2. Len(line) = 0 /\ Len(answered) = 0 /\ Len(effects) = 0 /\ DOMAIN effects = {}
  BY <1>1
<1>3. line \in Seq(Rows) /\ answered \in Seq(Nat) /\ effects \in Seq(Rows)
  BY <1>1
<1>4. AnsweredOK /\ LineOK(line, Len(answered)) /\ EffectsOK /\ EffectsInOrder
  BY <1>1, <1>2, <1>3 DEF AnsweredOK, LineOK, EffectsOK, EffectsInOrder
<1>5. HandledOK /\ PicturesOK
  BY <1>1, <1>2 DEF HandledOK, PicturesOK
<1> QED
  BY <1>1, <1>2, <1>4, <1>5, BatchAssumption DEF BatchInv

LEMMA BatchInvStep == BatchInv /\ [BatchNext]_batchVars => BatchInv'
<1> SUFFICES ASSUME BatchInv, [BatchNext]_batchVars PROVE BatchInv'
  OBVIOUS
<1>1. CASE OnImage
  BY <1>1, OnImageLine, ArrivalKeepsInv DEF OnImage
<1>2. ASSUME NEW t \in MessageTypes, OnMessage(t) PROVE BatchInv'
  BY <1>2, OnMessageLine, ArrivalKeepsInv DEF OnMessage
<1>3. CASE TimerFires
  BY <1>3, TimerKeepsInv
<1>4. CASE Step
  BY <1>4, LinkKeepsInv DEF Step
<1>5. CASE Disconnect
  BY <1>5, SameKeepsInv DEF Disconnect, chainVars
<1>6. CASE UNCHANGED batchVars
  BY <1>6, SameKeepsInv DEF batchVars, runVars, panelVars
<1> QED
  BY <1>1, <1>2, <1>3, <1>4, <1>5, <1>6 DEF BatchNext

(* Messages are numbered, kept, answered and acted on in the order they arrived, in every
   reachable state, for every batch size and number of messages. *)
THEOREM BatchInvariance == BatchSpec => []BatchInv
BY BatchInvInit, BatchInvStep, PTL DEF BatchSpec

(* A clear, a brightness or a close is never overtaken by a picture, however pictures are
   batched and whatever fails in between. *)
THEOREM EffectsInOrderHolds == BatchSpec => []EffectsInOrder
<1>1. BatchInv => EffectsInOrder
  BY DEF BatchInv
<1> QED
  BY <1>1, BatchInvariance, PTL

(* An uploaded picture has its STP, with nothing but pictures in between, before its credit
   returns: for every batch size, after whichever upload the batch ended, and whatever
   opened, closed or retuned the device around it. *)
THEOREM PicturesCommitFirstHolds == BatchSpec => []PicturesCommitFirst
<1>1. BatchInv => PicturesCommitFirst
  <2> SUFFICES ASSUME BatchInv, NEW i \in DOMAIN effects, IsPicture(effects[i]),
                      NEW j \in DOMAIN answered, answered[j] = effects[i].n
               PROVE  Committed(i)
    BY DEF PicturesCommitFirst
  <2>1. i \in 1..Len(effects) /\ effects[i].n \in Nat /\ Len(answered) \in Nat
    BY Counts
  <2>2. j \in 1..Len(answered) /\ answered[j] = j
    BY DEF BatchInv, AnsweredOK
  <2>3. ~Owed(i)
    BY <2>1, <2>2 DEF Owed
  <2> QED BY <2>1, <2>3 DEF BatchInv, PicturesOK
<1> QED
  BY <1>1, BatchInvariance, PTL

-----------------------------------------------------------------------------
(* The safety part of WorkerContract's Spec. *)
ContractSafety == Contract!Init /\ [][Contract!Next]_(Contract!vars)

(* A line's numbers go on from the last answered one, without gaps. *)
LEMMA NumbersOfLine ==
  ASSUME NEW s, NEW a, LineOK(s, a)
  PROVE  [i \in DOMAIN s |-> s[i].n] = [i \in 1..Len(s) |-> a + i]
<1>1. s \in Seq(Rows) /\ \A i \in 1..Len(s) : s[i].n = a + i
  BY DEF LineOK
<1>2. DOMAIN s = 1..Len(s)
  BY <1>1
<1> QED
  BY <1>1, <1>2

(* And so do those of the backlog, before and after a step. *)
LEMMA BacklogNumbers ==
  ASSUME BatchInv, BatchInv'
  PROVE  /\ Len(answered) \in Nat /\ Len(line) \in Nat
         /\ Backlog = [i \in 1..Len(line) |-> Len(answered) + i]
         /\ Backlog' = [i \in 1..Len(line') |-> Len(answered') + i]
<1>1. Len(answered) \in Nat /\ Len(line) \in Nat /\ LineOK(line, Len(answered))
  BY DEF BatchInv, AnsweredOK, LineOK
<1>2. LineOK(line', Len(answered'))
  BY DEF BatchInv, LineOK
<1> QED
  BY <1>1, <1>2, NumbersOfLine DEF Backlog

(* An arrival joins the end of the backlog under a number nothing had before. *)
LEMMA ArrivalRefines ==
  ASSUME BatchInv, BatchInv', Arrives, Len(line') = Len(line) + 1
  PROVE  Contract!Next
<1> DEFINE a == Len(answered)
           n == Len(line)
<1>1. /\ a \in Nat /\ n \in Nat /\ Backlog = [i \in 1..n |-> a + i]
  BY BacklogNumbers
<1>2. /\ arrived = a + n /\ arrived < MaxMessages /\ answered' = answered
      /\ \A i \in 1..a : answered[i] = i
      /\ DOMAIN answered = 1..a
  BY DEF BatchInv, AnsweredOK, Arrives
<1>3. Backlog' = [i \in 1..(n + 1) |-> a + i]
  <2>1. Backlog' = [i \in 1..Len(line') |-> Len(answered') + i]
    BY BacklogNumbers
  <2> QED BY <1>2, <2>1
<1> HIDE DEF a, n
<1>4. arrived + 1 \in 1..MaxMessages
  BY <1>1, <1>2, BatchAssumption
<1>5. arrived + 1 \notin Contract!Elements(Backlog) \cup Contract!Elements(answered)
  BY <1>1, <1>2 DEF Contract!Elements
<1>6. Backlog' = Append(Backlog, arrived + 1)
  <2>1. Backlog \in Seq(Nat) /\ Len(Backlog) = n
    BY <1>1
  <2>2. Append(Backlog, arrived + 1) = [i \in 1..(n + 1) |-> a + i]
    BY <1>1, <1>2, <2>1
  <2> QED BY <1>3, <2>2
<1>7. Contract!Arrive(arrived + 1)
  BY <1>2, <1>5, <1>6 DEF Contract!Arrive
<1> QED
  BY <1>4, <1>7 DEF Contract!Next

(* The end of a link answers the first messages of the backlog, in their order. *)
LEMMA AnswerRefines ==
  ASSUME BatchInv, BatchInv', NEW k \in 1..Len(line), Answer(k)
  PROVE  Contract!Next
<1> DEFINE a == Len(answered)
           n == Len(line)
<1>1. /\ a \in Nat /\ n \in Nat /\ Backlog = [i \in 1..n |-> a + i]
  BY BacklogNumbers
<1>2. Len(answered') = a + k /\ Len(line') = n - k
  <2>1. Len(answered') = a + k BY AnswerInOrder
  <2>2. line \in Seq(Rows) /\ line' = SubSeq(line, k + 1, Len(line))
    BY DEF BatchInv, LineOK, Answer
  <2> QED BY <1>1, <2>1, <2>2
<1>3. Backlog' = [i \in 1..(n - k) |-> (a + k) + i]
  <2>1. Backlog' = [i \in 1..Len(line') |-> Len(answered') + i]
    BY BacklogNumbers
  <2> QED BY <1>2, <2>1
<1>4. answered' = answered \o NumbersOf(k)
  BY DEF Answer
<1>5. NumbersOf(k) = [i \in 1..k |-> a + i]
  BY <1>1 DEF NumbersOf, BatchInv, LineOK
<1> HIDE DEF a, n
<1>6. k \in 1..n
  BY DEF n
<1>7. Backlog \in Seq(Nat) /\ Len(Backlog) = n /\ DOMAIN Backlog = 1..n
  BY <1>1
<1>8. SubSeq(Backlog, 1, k) = NumbersOf(k)
  BY <1>1, <1>5, <1>6, <1>7
<1>9. SubSeq(Backlog, k + 1, Len(Backlog)) = Backlog'
  BY <1>1, <1>3, <1>6, <1>7
<1>10. Contract!AnswerFirst(k)
  BY <1>4, <1>8, <1>9 DEF Contract!AnswerFirst
<1> QED
  BY <1>6, <1>7, <1>10 DEF Contract!Next, Contract!AnswerSome

(* Whatever neither arrives nor is answered is invisible to the main thread. *)
LEMMA StutterRefines ==
  ASSUME BatchInv, BatchInv', Len(line') = Len(line), answered' = answered
  PROVE  UNCHANGED Contract!vars
<1>1. Backlog = [i \in 1..Len(line) |-> Len(answered) + i]
  BY BacklogNumbers
<1>2. Backlog' = [i \in 1..Len(line') |-> Len(answered') + i]
  BY BacklogNumbers
<1> QED
  BY <1>1, <1>2 DEF Contract!vars

(* Running a link is an answer, or invisible while it waits or has work left. *)
LEMMA LinkRefines ==
  ASSUME BatchInv, BatchInv', NEW k \in DOMAIN line, RunLink(k)
  PROVE  [Contract!Next]_(Contract!vars)
<1>0. k \in 1..Len(line)
  BY DEF BatchInv, LineOK
<1>1. CASE Answer(k)
  BY <1>0, <1>1, AnswerRefines
<1>2. CASE line' = line /\ answered' = answered
  BY <1>2, StutterRefines
<1>3. ASSUME NEW b \in {"plain", "batching"}, RunSetOverrides(k, b) \/ OpenStarts(k, b)
      PROVE  Answer(k) \/ (line' = line /\ answered' = answered)
  BY <1>3 DEF RunSetOverrides, OpenStarts, chainVars
<1>4. CASE BatchStarts(k) \/ BatchUploads(k) \/ BatchEnds(k) \/ CloseStarts(k)
  <2>1. line' = line /\ answered' = answered
    BY <1>4 DEF BatchStarts, BatchUploads, BatchEnds, CloseStarts, chainVars
  <2> QED BY <1>2, <2>1
<1>5. CASE RunImage(k) \/ RunControl(k) \/ SkipBatch(k) \/ BatchAnswers(k)
  <2>1. Answer(k)
    BY <1>5 DEF RunImage, RunControl, SkipBatch, BatchAnswers
  <2> QED BY <1>1, <2>1
<1>6. ASSUME NEW ok \in BOOLEAN, OpenUnknownModel(k) \/ OpenEnds(k, ok) \/ CloseEnds(k)
      PROVE  Answer(k)
  BY <1>6 DEF OpenUnknownModel, OpenEnds, CloseEnds
<1>7. CASE OpenUnknownModel(k) \/ CloseEnds(k)
  BY <1>1, <1>6, <1>7
<1> QED
  BY <1>1, <1>2, <1>3, <1>4, <1>5, <1>6, <1>7 DEF RunLink

(* The worker thread keeps the safety part of its contract, for every batch size and
   number of messages: every message is answered exactly once, in the order of arrival,
   whatever is batched, fails, closes, reopens or is unplugged. *)
THEOREM ContractRefinement == BatchSpec => ContractSafety
<1>1. BatchInit => Contract!Init
  <2> SUFFICES ASSUME BatchInit PROVE Contract!Init
    OBVIOUS
  <2>1. line = << >> /\ answered = << >>
    BY DEF BatchInit
  <2> QED BY <2>1 DEF Contract!Init, Backlog
<1>2. BatchInv /\ BatchInv' /\ [BatchNext]_batchVars => [Contract!Next]_(Contract!vars)
  <2> SUFFICES ASSUME BatchInv, BatchInv', [BatchNext]_batchVars
               PROVE  [Contract!Next]_(Contract!vars)
    OBVIOUS
  <2>1. CASE OnImage
    <3>1. Arrives BY <2>1 DEF OnImage
    <3> QED BY <2>1, <3>1, OnImageLine, ArrivalRefines
  <2>2. ASSUME NEW t \in MessageTypes, OnMessage(t) PROVE Contract!Next
    <3>1. Arrives BY <2>2 DEF OnMessage
    <3> QED BY <2>2, <3>1, OnMessageLine, ArrivalRefines
  <2>3. CASE TimerFires
    <3>1. answered' = answered BY <2>3 DEF TimerFires
    <3> QED BY <2>3, <3>1, TimerKeepsInv, StutterRefines
  <2>4. CASE Step
    BY <2>4, LinkRefines DEF Step
  <2>5. CASE Disconnect
    BY <2>5, StutterRefines DEF Disconnect, chainVars
  <2>6. CASE UNCHANGED batchVars
    BY <2>6, StutterRefines DEF batchVars
  <2> QED
    BY <2>1, <2>2, <2>3, <2>4, <2>5, <2>6 DEF BatchNext
<1> QED
  BY <1>1, <1>2, BatchInvariance, PTL DEF BatchSpec, ContractSafety
=============================================================================
