---------------------------- MODULE HidPortProofs ----------------------------
(***************************************************************************)
(* Proofs about both ends of the USB worker's port, for all budgets, keys, *)
(* sizes, batch sizes and numbers of messages: the queue keeps its books,  *)
(* sends the app's work in order with no effect and no credit lost, and    *)
(* the thread's batch window always closes.                                *)
(***************************************************************************)
EXTENDS MCHid, HidWorkQueueLemmas, HidWorkerBatchProofs, FiniteSetTheorems, TLAPS

-----------------------------------------------------------------------------
(* Facts about what a drain posts. *)

WaitingOK ==
    /\ waiting \in Seq(Messages)
    /\ \A i \in DOMAIN waiting : waiting[i].bytes <= PostedBytes

(* A waiting message has a size, and it fits the posted budget on its own. *)
LEMMA WaitingBytesType ==
    ASSUME WaitingOK, NEW i \in 1..Len(waiting)
    PROVE  waiting[i].bytes \in Nat /\ waiting[i].bytes <= PostedBytes
<1>1. waiting[i] \in Messages /\ waiting[i].bytes <= PostedBytes
  BY DEF WaitingOK
<1>2. waiting[i].bytes \in Sizes \cup {0}
  BY <1>1 DEF Messages
<1>3. Sizes \cup {0} \subseteq Nat
  BY CallersAssumption
<1> QED
  BY <1>1, <1>2, <1>3

(* The posts of a drain are one per message that leaves and does not fail, under fresh ids. *)
LEMMA DrainedType ==
    ASSUME WaitingOK, nextId \in Nat \ {0},
           NEW n \in 0..Len(waiting), NEW bad \in SUBSET Nat
    PROVE  /\ IsByteMap(DrainedPosts(n, bad))
           /\ DOMAIN DrainedPosts(n, bad) \subseteq nextId..(nextId + n - 1)
           /\ IsFiniteSet((1..n) \ bad)
           /\ Cardinality(DOMAIN DrainedPosts(n, bad)) = Cardinality((1..n) \ bad)
<1> DEFINE good == (1..n) \ bad
           ids  == {nextId + i - 1 : i \in good}
           f    == [i \in good |-> nextId + i - 1]
<1>0. Len(waiting) \in Nat
  BY DEF WaitingOK
<1>1. IsFiniteSet(good)
  <2>1. IsFiniteSet(1..n)
    BY <1>0, FS_Interval
  <2> QED BY <2>1, FS_Difference
<1>2. f \in Bijection(good, ids)
  BY <1>0, SMTT(30) DEF Bijection, Injection, Surjection, IsInjective
<1>3. IsFiniteSet(ids) /\ Cardinality(ids) = Cardinality(good)
  <2>1. ExistsBijection(good, ids)
    BY <1>2 DEF ExistsBijection
  <2> HIDE DEF good, ids
  <2> QED BY <1>1, <2>1, FS_Bijection
<1>4. DOMAIN DrainedPosts(n, bad) = ids
  BY DEF DrainedPosts
<1>5. \A id \in ids : id - nextId + 1 \in 1..Len(waiting)
  BY <1>0
<1>6. \A id \in ids : DrainedPosts(n, bad)[id] = waiting[id - nextId + 1].bytes
  BY DEF DrainedPosts
<1>7. \A id \in ids : DrainedPosts(n, bad)[id] \in Nat
  BY <1>5, <1>6, WaitingBytesType
<1>8. DrainedPosts(n, bad) = [id \in DOMAIN DrainedPosts(n, bad) |-> DrainedPosts(n, bad)[id]]
  BY DEF DrainedPosts
<1>9. ids \subseteq nextId..(nextId + n - 1)
  BY <1>0
<1> QED
  BY <1>1, <1>3, <1>4, <1>7, <1>8, <1>9 DEF IsByteMap

(* One more message leaving the waiting list adds its bytes, unless its post fails. *)
LEMMA DrainedStep ==
    ASSUME WaitingOK, nextId \in Nat \ {0},
           NEW n \in 1..Len(waiting), NEW bad \in SUBSET Nat
    PROVE  /\ Weight(DrainedPosts(n, bad)) <=
                 Weight(DrainedPosts(n - 1, bad)) + waiting[n].bytes
           /\ Cardinality((1..n) \ bad) <= Cardinality((1..(n - 1)) \ bad) + 1
<1> DEFINE less == DrainedPosts(n - 1, bad)
           all  == DrainedPosts(n, bad)
           one  == Entry(nextId + n - 1, waiting[n].bytes)
           good == (1..n) \ bad
           prev == (1..(n - 1)) \ bad
<1>0. Len(waiting) \in Nat /\ n - 1 \in 0..Len(waiting) /\ n \in 0..Len(waiting)
  BY DEF WaitingOK
<1>1. waiting[n].bytes \in Nat
  BY WaitingBytesType
<1>2. /\ IsByteMap(less) /\ IsByteMap(all)
      /\ DOMAIN less \subseteq nextId..(nextId + (n - 1) - 1)
      /\ IsFiniteSet(prev)
  BY <1>0, DrainedType
<1>3. Weight(less) \in Nat /\ Weight(all) \in Nat
  BY <1>2, WeightType
<1>4. Cardinality(prev) \in Nat
  BY <1>2, FS_CardinalityType
<1>5. CASE n \in bad
  <2>1. good = prev
    BY <1>5
  <2>2. all = less
    BY <2>1 DEF DrainedPosts
  <2>3. Cardinality(good) <= Cardinality(prev) + 1
    <3> HIDE DEF good, prev
    <3> QED BY <2>1, <1>4
  <2>4. Weight(all) <= Weight(less) + waiting[n].bytes
    <3> HIDE DEF all, less
    <3> QED BY <2>2, <1>1, <1>3
  <2> QED BY <2>3, <2>4
<1>6. CASE n \notin bad
  <2>1. good = prev \cup {n}
    BY <1>6, <1>0
  <2>2. Cardinality(good) <= Cardinality(prev) + 1
    <3> HIDE DEF good, prev
    <3>1. Cardinality(prev \cup {n}) =
            IF n \in prev THEN Cardinality(prev) ELSE Cardinality(prev) + 1
      BY <1>2, FS_AddElement
    <3> QED BY <2>1, <1>4, <3>1
  <2>3. /\ IsByteMap(one) /\ Weight(one) = waiting[n].bytes
        /\ DOMAIN one = {nextId + n - 1}
    BY <1>1, WeightOne DEF Entry
  <2>4. DOMAIN less \cap DOMAIN one = {}
    BY <1>0, <1>2, <2>3
  <2>5. /\ DOMAIN all = DOMAIN less \cup DOMAIN one
        /\ \A id \in DOMAIN less : all[id] = less[id]
        /\ \A id \in DOMAIN one : all[id] = one[id]
    <3>1. DOMAIN all = {nextId + i - 1 : i \in (1..n) \ bad}
      BY DEF DrainedPosts
    <3>2. DOMAIN less = {nextId + i - 1 : i \in (1..(n - 1)) \ bad}
      BY DEF DrainedPosts
    <3>3. DOMAIN all = DOMAIN less \cup DOMAIN one
      BY <3>1, <3>2, <2>1, <2>3
    <3>4. \A id \in DOMAIN less : all[id] = less[id]
      BY <3>1, <3>2, <3>3 DEF DrainedPosts
    <3>5. nextId + n - 1 - nextId + 1 = n
      BY <1>0
    <3>6. \A id \in DOMAIN one : all[id] = one[id]
      <4>1. nextId + n - 1 \in DOMAIN all
        BY <3>3, <2>3
      <4>2. all[nextId + n - 1] = waiting[n].bytes
        BY <4>1, <3>1, <3>5 DEF DrainedPosts
      <4>3. one[nextId + n - 1] = waiting[n].bytes
        BY DEF Entry
      <4> QED BY <2>3, <4>2, <4>3
    <3> QED BY <3>3, <3>4, <3>6
  <2>6. Weight(all) = Weight(less) + Weight(one)
    <3> HIDE DEF all, less, one
    <3> QED BY <1>2, <2>3, <2>4, <2>5, WeightUnion
  <2> QED BY <2>2, <2>3, <2>6, <1>1, <1>3
<1> QED
  BY <1>5, <1>6

-----------------------------------------------------------------------------
(***************************************************************************)
(* The inductive invariant.  NoStall by itself is not inductive: that a    *)
(* drain stops only with something posted needs the running total          *)
(* postedBytes to be the weight of posted (so that it is 0 when nothing is *)
(* posted) and every waiting message to fit the posted budget on its own.  *)
(***************************************************************************)
PostedOK ==
    /\ nextId \in Nat \ {0}
    /\ IsByteMap(posted)
    /\ DOMAIN posted \subseteq 1..(nextId - 1)
    /\ postedBytes = Weight(posted)
    /\ Cardinality(DOMAIN posted) <= PostedCount
    /\ postedBytes <= PostedBytes

QueueInv ==
    /\ PostedOK
    /\ WaitingOK
    /\ NoStall
    /\ seq \in 0..MaxSubmits
    /\ gen \in 0..MaxResets

(* With nothing posted, every message within the posted budget fits. *)
LEMMA EmptyFits ==
    ASSUME NEW f, IsByteMap(f), NEW b \in Nat, b <= PostedBytes, DOMAIN f = {}
    PROVE  FitsBeside(Cardinality(DOMAIN f), Weight(f), b)
<1>1. Cardinality(DOMAIN f) = 0
  BY FS_EmptySet
<1>2. Weight(f) = 0
  BY WeightEmpty
<1> QED
  BY <1>1, <1>2, BudgetsAssumption DEF FitsBeside

(* drain() keeps the posted budget and its accounting, and stops only with something posted. *)
LEMMA DrainKeepsInv ==
    ASSUME WaitingOK, nextId \in Nat \ {0},
           NEW kept, IsByteMap(kept), DOMAIN kept \subseteq 1..(nextId - 1),
           Cardinality(DOMAIN kept) <= PostedCount, Weight(kept) <= PostedBytes,
           NEW n \in 0..Len(waiting), NEW bad \in SUBSET (1..n),
           Drain(kept, Weight(kept), n, bad)
    PROVE  PostedOK' /\ WaitingOK' /\ NoStall'
<1> DEFINE add == DrainedPosts(n, bad)
<1>0. Len(waiting) \in Nat /\ n \in Nat /\ bad \in SUBSET Nat
  BY DEF WaitingOK
<1>1. /\ IsByteMap(add)
      /\ DOMAIN add \subseteq nextId..(nextId + n - 1)
      /\ IsFiniteSet((1..n) \ bad)
      /\ Cardinality(DOMAIN add) = Cardinality((1..n) \ bad)
  BY <1>0, DrainedType
<1>2. Weight(kept) \in Nat /\ Weight(add) \in Nat
  BY <1>1, WeightType
<1>3. /\ Cardinality(DOMAIN kept) \in Nat /\ Cardinality(DOMAIN add) \in Nat
      /\ IsFiniteSet(DOMAIN kept) /\ IsFiniteSet(DOMAIN add)
  BY <1>1, FS_CardinalityType DEF IsByteMap
<1>4. /\ posted' = Merge(kept, add)
      /\ postedBytes' = Weight(kept) + Weight(add)
      /\ nextId' = nextId + n
      /\ waiting' = SubSeq(waiting, n + 1, Len(waiting))
  BY DEF Drain
<1>5. DOMAIN kept \cap DOMAIN add = {}
  BY <1>0, <1>1
<1>6. DOMAIN posted' = DOMAIN kept \cup DOMAIN add
  BY <1>4 DEF Merge
<1>7. IsByteMap(posted') /\ postedBytes' = Weight(posted')
  <2> HIDE DEF add
  <2> QED BY <1>1, <1>4, <1>5, WeightMerge
<1>8. Cardinality(DOMAIN posted') = Cardinality(DOMAIN kept) + Cardinality(DOMAIN add)
  <2>1. Cardinality(DOMAIN kept \cup DOMAIN add) = Cardinality(DOMAIN kept) + Cardinality(DOMAIN add)
    <3> HIDE DEF add
    <3> QED BY <1>3, <1>5, CardinalityDisjoint
  <2> QED BY <1>6, <2>1
<1>9. /\ Cardinality(DOMAIN posted') <= PostedCount
      /\ postedBytes' <= PostedBytes
  <2>1. CASE n = 0
    <3>1. DOMAIN add = {}
      <4>1. nextId..(nextId + n - 1) = {}
        BY <2>1
      <4> HIDE DEF add
      <4> QED BY <1>1, <4>1
    <3>2. Weight(add) = 0 /\ Cardinality(DOMAIN add) = 0
      BY <3>1, WeightEmpty, FS_EmptySet
    <3> HIDE DEF add
    <3> QED BY <1>2, <1>3, <1>4, <1>8, <3>2
  <2>2. CASE n # 0
    <3> DEFINE prev == (1..(n - 1)) \ bad
               less == DrainedPosts(n - 1, bad)
    <3>1. n \in 1..Len(waiting) /\ n - 1 \in 0..Len(waiting)
      BY <1>0, <2>2
    <3>2. waiting[n].bytes \in Nat
      BY <3>1, WaitingBytesType
    <3>3. HeadFits(kept, Weight(kept), n, bad)
      BY <3>1 DEF Drain
    <3>4. /\ Cardinality(DOMAIN kept) + Cardinality(prev) < PostedCount
          /\ Weight(kept) + Weight(less) + waiting[n].bytes <= PostedBytes
      BY <3>3 DEF HeadFits, FitsBeside
    <3>5. /\ Weight(add) <= Weight(less) + waiting[n].bytes
          /\ Cardinality((1..n) \ bad) <= Cardinality(prev) + 1
      BY <1>0, <3>1, DrainedStep
    <3>6. IsByteMap(less) /\ IsFiniteSet(prev)
      BY <1>0, <3>1, DrainedType
    <3>7. Weight(less) \in Nat /\ Cardinality(prev) \in Nat
      BY <3>6, WeightType, FS_CardinalityType
    <3>8. Cardinality(DOMAIN add) <= Cardinality(prev) + 1
      BY <1>1, <3>5
    <3> HIDE DEF add, prev, less
    <3>9. Cardinality(DOMAIN kept) + Cardinality(DOMAIN add) <= PostedCount
      BY <1>3, <3>4, <3>7, <3>8, BudgetsAssumption
    <3>10. Weight(kept) + Weight(add) <= PostedBytes
      BY <1>2, <3>2, <3>4, <3>5, <3>7, BudgetsAssumption
    <3> QED BY <1>4, <1>8, <3>9, <3>10
  <2> QED BY <2>1, <2>2
<1>10. PostedOK'
  <2>1. DOMAIN posted' \subseteq 1..(nextId' - 1)
    BY <1>0, <1>1, <1>4, <1>6
  <2>2. nextId' \in Nat \ {0}
    BY <1>0, <1>4
  <2> QED BY <2>1, <2>2, <1>7, <1>9 DEF PostedOK, IsByteMap, Weight, ByteTokens
<1>11. WaitingOK'
  <2>1. waiting' \in Seq(Messages)
    BY <1>0, <1>4 DEF WaitingOK
  <2>2. ASSUME NEW i \in DOMAIN waiting' PROVE waiting'[i].bytes <= PostedBytes
    <3>1. waiting'[i] = waiting[n + i] /\ n + i \in 1..Len(waiting)
      BY <1>0, <1>4 DEF WaitingOK
    <3> QED BY <3>1, WaitingBytesType
  <2> QED BY <2>1, <2>2 DEF WaitingOK, Messages
<1>12. NoStall'
  <2> SUFFICES ASSUME waiting' # << >>, DOMAIN posted' = {} PROVE FALSE
    BY DEF NoStall
  <2>1. n < Len(waiting)
    BY <1>0, <1>4 DEF WaitingOK
  <2>2. ~HeadFits(kept, Weight(kept), n + 1, bad)
    BY <2>1 DEF Drain
  <2>3. DOMAIN kept = {} /\ DOMAIN add = {}
    BY <1>6
  <2>4. (n + 1) - 1 = n
    BY <1>0
  <2>5. waiting[n + 1].bytes \in Nat /\ waiting[n + 1].bytes <= PostedBytes
    BY <1>0, <2>1, WaitingBytesType
  <2>6. FitsBeside(Cardinality(DOMAIN kept), Weight(kept), waiting[n + 1].bytes)
    BY <2>3, <2>5, EmptyFits
  <2>7. Weight(add) = 0 /\ Cardinality((1..n) \ bad) = 0
    BY <1>1, <2>3, WeightEmpty, FS_EmptySet
  <2> QED BY <1>2, <1>3, <2>2, <2>4, <2>6, <2>7 DEF HeadFits, FitsBeside
<1> QED
  BY <1>10, <1>11, <1>12

(* What a caller submits is a message of the current generation, and has a size. *)
LEMMA MessageType ==
    ASSUME seq \in 0..MaxSubmits, seq < MaxSubmits, gen \in 0..MaxResets, NEW w \in Works
    PROVE  Message(w) \in Messages /\ Message(w).bytes \in Nat
<1>1. seq + 1 \in 1..MaxSubmits
  BY CallersAssumption
<1>2. /\ w.kind \in {"image", "touch", "control"}
      /\ w.key \in Keys \cup {NoKey}
      /\ w.bytes \in Sizes \cup {0}
  BY DEF Works
<1>3. Sizes \cup {0} \subseteq Nat
  BY CallersAssumption
<1> QED
  BY <1>1, <1>2, <1>3 DEF Message, Messages

(* A message posted at once keeps the posted budget and its accounting. *)
LEMMA PostKeepsInv ==
    ASSUME QueueInv, NEW m, m.bytes \in Nat, SubmitPosted(m)
    PROVE  PostedOK' /\ WaitingOK' /\ NoStall'
<1> DEFINE one == Entry(nextId, m.bytes)
<1>1. /\ IsByteMap(one) /\ Weight(one) = m.bytes /\ DOMAIN one = {nextId}
  BY WeightOne DEF Entry
<1>2. /\ posted' = Merge(posted, one)
      /\ postedBytes' = postedBytes + m.bytes
      /\ nextId' = nextId + 1
      /\ waiting' = waiting
      /\ waiting = << >>
      /\ Cardinality(DOMAIN posted) < PostedCount
      /\ postedBytes + m.bytes <= PostedBytes
  BY DEF SubmitPosted, CanPostNow, FitsPosted, FitsBeside
<1>3. /\ nextId \in Nat \ {0} /\ IsByteMap(posted) /\ DOMAIN posted \subseteq 1..(nextId - 1)
      /\ postedBytes = Weight(posted)
  BY DEF QueueInv, PostedOK
<1>4. nextId \notin DOMAIN posted
  BY <1>3
<1>5. DOMAIN posted' = DOMAIN posted \cup {nextId}
  BY <1>1, <1>2 DEF Merge
<1>6. IsByteMap(posted') /\ Weight(posted') = Weight(posted) + Weight(one)
  <2>1. DOMAIN posted \cap DOMAIN one = {}
    BY <1>1, <1>4
  <2> HIDE DEF one
  <2> QED BY <1>1, <1>2, <1>3, <2>1, WeightMerge
<1>7. Cardinality(DOMAIN posted') <= PostedCount
  <2>1. IsFiniteSet(DOMAIN posted) /\ Cardinality(DOMAIN posted) \in Nat
    BY <1>3, FS_CardinalityType DEF IsByteMap
  <2>2. Cardinality(DOMAIN posted \cup {nextId}) = Cardinality(DOMAIN posted) + 1
    BY <1>4, <2>1, FS_AddElement
  <2> QED BY <1>2, <1>5, <2>1, <2>2, BudgetsAssumption
<1>8. PostedOK'
  <2>1. DOMAIN posted' \subseteq 1..(nextId' - 1) /\ nextId' \in Nat \ {0}
    BY <1>2, <1>3, <1>5
  <2>2. postedBytes' = Weight(posted') /\ postedBytes' <= PostedBytes
    BY <1>1, <1>2, <1>3, <1>6
  <2> QED BY <1>6, <1>7, <2>1, <2>2 DEF PostedOK, IsByteMap, Weight, ByteTokens
<1>9. WaitingOK' /\ NoStall'
  BY <1>2 DEF QueueInv, WaitingOK, NoStall, Messages
<1> QED
  BY <1>8, <1>9

(* A message that has to wait finds something posted. *)
LEMMA WaitKeepsInv ==
    ASSUME QueueInv, NEW m \in Messages, m.bytes \in Nat, SubmitWaiting(m)
    PROVE  PostedOK' /\ WaitingOK' /\ NoStall'
<1> DEFINE i == SupersededIndex(m.key)
<1>1. /\ UNCHANGED <<nextId, posted, postedBytes>>
      /\ waiting' = Append(Without(i), m)
      /\ m.bytes <= PostedBytes
      /\ ~CanPostNow(m)
  BY DEF SubmitWaiting
<1>2. PostedOK'
  BY <1>1 DEF QueueInv, PostedOK, IsByteMap, Weight, ByteTokens
<1>3. i \in {0} \cup DOMAIN waiting
  <2>1. waiting \in Seq(Messages)  BY DEF QueueInv, WaitingOK
  <2> QED BY <2>1, SupersededType
<1>4. /\ waiting \in Seq(Messages) /\ Len(waiting) \in Nat
      /\ \A j \in DOMAIN waiting : waiting[j].bytes <= PostedBytes
  BY DEF QueueInv, WaitingOK
<1>5. /\ Without(i) \in Seq(Messages)
      /\ \A j \in DOMAIN Without(i) : Without(i)[j].bytes <= PostedBytes
  <2> HIDE DEF i
  <2>1. CASE i = 0
    BY <1>4, <2>1 DEF Without
  <2>2. CASE i \in DOMAIN waiting
    <3> DEFINE a == SubSeq(waiting, 1, i - 1)
               b == SubSeq(waiting, i + 1, Len(waiting))
    <3>1. i \in 1..Len(waiting)
      BY <1>4, <2>2
    <3>2. Without(i) = a \o b
      <4>1. i # 0
        BY <1>4, <3>1
      <4> QED BY <4>1, Zenon DEF Without
    <3>3. /\ a \in Seq(Messages) /\ Len(a) = i - 1
          /\ \A j \in 1..(i - 1) : a[j] = waiting[j]
      BY <1>4, <3>1
    <3>4. /\ b \in Seq(Messages) /\ Len(b) = Len(waiting) - i
          /\ \A j \in 1..(Len(waiting) - i) : b[j] = waiting[i + j]
      <4>1. i + 1 \in 1..(Len(waiting) + 1)
        BY <1>4, <3>1
      <4>2. b \in Seq(Messages) /\ Len(b) = Len(waiting) - i
        BY <1>4, <3>1, <4>1
      <4>3. ASSUME NEW j \in 1..(Len(waiting) - i) PROVE b[j] = waiting[i + j]
        <5>1. j \in 1..Len(b) /\ b[j] = waiting[(i + 1) + j - 1]
          BY <1>4, <3>1, <4>2
        <5>2. (i + 1) + j - 1 = i + j
          BY <3>1
        <5> QED BY <5>1, <5>2
      <4> QED BY <4>2, <4>3
    <3>5. \A j \in 1..Len(a) : a[j].bytes <= PostedBytes
      BY <1>4, <3>1, <3>3
    <3>6. \A j \in 1..Len(b) : b[j].bytes <= PostedBytes
      BY <1>4, <3>1, <3>4
    <3> HIDE DEF a, b
    <3>7. /\ a \o b \in Seq(Messages) /\ Len(a \o b) = Len(a) + Len(b)
          /\ \A j \in 1..Len(a) : (a \o b)[j] = a[j]
          /\ \A j \in (Len(a) + 1)..(Len(a) + Len(b)) : (a \o b)[j] = b[j - Len(a)]
      BY <3>3, <3>4
    <3>8. ASSUME NEW j \in 1..(Len(a) + Len(b)) PROVE (a \o b)[j].bytes <= PostedBytes
      <4>1. CASE j \in 1..Len(a)
        BY <4>1, <3>5, <3>7
      <4>2. CASE j \notin 1..Len(a)
        <5>1. j - Len(a) \in 1..Len(b) /\ j \in (Len(a) + 1)..(Len(a) + Len(b))
          BY <4>2, <3>3, <3>4
        <5> QED BY <5>1, <3>6, <3>7
      <4> QED BY <4>1, <4>2
    <3> QED BY <3>2, <3>7, <3>8
  <2> QED BY <1>3, <2>1, <2>2
<1>6. WaitingOK'
  <2> DEFINE s == Without(i)
  <2> HIDE DEF s
  <2>1. s \in Seq(Messages) /\ \A j \in DOMAIN s : s[j].bytes <= PostedBytes
    BY <1>5 DEF s
  <2>2. waiting' = Append(s, m)
    BY <1>1 DEF s
  <2>3. /\ waiting' \in Seq(Messages)
        /\ \A j \in DOMAIN waiting' : waiting'[j] = m \/ (j \in DOMAIN s /\ waiting'[j] = s[j])
    BY <2>1, <2>2
  <2> QED BY <1>1, <2>1, <2>3 DEF WaitingOK, Messages
<1>7. DOMAIN posted # {}
  <2>1. CASE waiting # << >>
    BY <2>1 DEF QueueInv, NoStall
  <2>2. CASE waiting = << >>
    <3>1. ~FitsBeside(Cardinality(DOMAIN posted), Weight(posted), m.bytes)
      BY <1>1, <2>2 DEF CanPostNow, FitsPosted, QueueInv, PostedOK
    <3> QED BY <1>1, <3>1, EmptyFits DEF QueueInv, PostedOK
  <2> QED BY <2>1, <2>2
<1>8. NoStall'
  BY <1>1, <1>7 DEF NoStall
<1> QED
  BY <1>2, <1>6, <1>8

(* Acknowledgements, old and repeated ones included, release exactly their credits. *)
LEMMA CompleteKeepsInv ==
    ASSUME QueueInv, NEW ids, Complete(ids)
    PROVE  PostedOK' /\ WaitingOK' /\ NoStall'
<1>0. PICK n \in 0..Len(waiting) : \E bad \in SUBSET (1..n) : CompleteWith(ids, n, bad)
  BY DEF Complete
<1>1. PICK bad \in SUBSET (1..n) : CompleteWith(ids, n, bad)
  BY <1>0
<1> DEFINE kept  == [id \in DOMAIN posted \ ids |-> posted[id]]
           freed == [id \in ids \cap DOMAIN posted |-> posted[id]]
<1>2. /\ IsByteMap(posted) /\ DOMAIN posted \subseteq 1..(nextId - 1) /\ nextId \in Nat \ {0}
      /\ postedBytes = Weight(posted) /\ postedBytes <= PostedBytes
      /\ Cardinality(DOMAIN posted) <= PostedCount /\ WaitingOK
  BY DEF QueueInv, PostedOK
<1>3. /\ IsByteMap(kept) /\ IsByteMap(freed)
      /\ Weight(posted) = Weight(kept) + Weight(freed)
  BY <1>2, WeightSplit
<1>4. Weight(kept) \in Nat /\ Weight(freed) \in Nat
  BY <1>3, WeightType
<1>5. postedBytes - Weight(freed) = Weight(kept) /\ Weight(kept) <= PostedBytes
  <2> HIDE DEF kept, freed
  <2> QED BY <1>2, <1>3, <1>4, BudgetsAssumption
<1>6. Drain(kept, postedBytes - Weight(freed), n, bad)
  BY <1>1 DEF CompleteWith, Released
<1>7. Drain(kept, Weight(kept), n, bad)
  BY <1>5, <1>6
<1>8. DOMAIN kept \subseteq DOMAIN posted
  OBVIOUS
<1>9. Cardinality(DOMAIN kept) <= PostedCount
  <2>1. /\ IsFiniteSet(DOMAIN posted) /\ Cardinality(DOMAIN posted) \in Nat
    BY <1>2, FS_CardinalityType DEF IsByteMap
  <2>2. Cardinality(DOMAIN kept) <= Cardinality(DOMAIN posted) /\ IsFiniteSet(DOMAIN kept)
    BY <1>8, <2>1, FS_Subset
  <2>3. Cardinality(DOMAIN kept) \in Nat
    BY <2>2, FS_CardinalityType
  <2> HIDE DEF kept
  <2> QED BY <1>2, <2>1, <2>2, <2>3, BudgetsAssumption
<1> QED
  <2> HIDE DEF kept
  <2> QED BY <1>2, <1>3, <1>5, <1>7, <1>8, <1>9, DrainKeepsInv

-----------------------------------------------------------------------------
LEMMA QueueInvInit == Init => QueueInv
<1> SUFFICES ASSUME Init PROVE QueueInv
  OBVIOUS
<1>1. /\ nextId = 1 /\ posted = << >> /\ postedBytes = 0 /\ waiting = << >>
      /\ gen = 0 /\ seq = 0
  BY DEF Init, InitQueue
<1>2. DOMAIN posted = {}
  BY <1>1
<1>3. IsByteMap(posted)
  BY <1>1, <1>2, FS_EmptySet DEF IsByteMap
<1>4. Weight(posted) = 0 /\ Cardinality(DOMAIN posted) = 0
  BY <1>2, WeightEmpty, FS_EmptySet
<1>5. PostedOK
  BY <1>1, <1>2, <1>3, <1>4, BudgetsAssumption DEF PostedOK
<1>6. WaitingOK /\ NoStall
  BY <1>1 DEF WaitingOK, NoStall
<1> QED BY <1>1, <1>5, <1>6, CallersAssumption DEF QueueInv

LEMMA QueueInvStep == QueueInv /\ [Next]_vars => QueueInv'
<1> SUFFICES ASSUME QueueInv, [Next]_vars PROVE QueueInv'
  OBVIOUS
<1>0. /\ seq \in 0..MaxSubmits /\ gen \in 0..MaxResets
      /\ MaxSubmits \in Nat /\ MaxResets \in Nat
  BY CallersAssumption DEF QueueInv
<1>a. ASSUME UNCHANGED queueVars PROVE PostedOK' /\ WaitingOK' /\ NoStall'
  BY <1>a DEF queueVars, QueueInv, PostedOK, WaitingOK, NoStall, IsByteMap, Weight,
              ByteTokens, Messages
<1>1. ASSUME NEW w \in Works, SubmitAndPost(w) PROVE QueueInv'
  <2>1. seq < MaxSubmits /\ seq' = seq + 1 /\ gen' = gen /\ SubmitPosted(Message(w))
    BY <1>1 DEF SubmitAndPost, Submitting
  <2>2. Message(w).bytes \in Nat
    BY <1>0, <2>1, MessageType
  <2>3. PostedOK' /\ WaitingOK' /\ NoStall'
    BY <2>1, <2>2, PostKeepsInv
  <2> QED BY <1>0, <2>1, <2>3 DEF QueueInv
<1>2. ASSUME NEW w \in Works, SubmitAndFail(w) PROVE QueueInv'
  <2>1. /\ seq < MaxSubmits /\ seq' = seq + 1 /\ gen' = gen /\ nextId' = nextId + 1
        /\ UNCHANGED <<posted, postedBytes, waiting>>
    BY <1>2 DEF SubmitAndFail, Submitting, SubmitFailed
  <2>2. /\ nextId \in Nat \ {0} /\ DOMAIN posted \subseteq 1..(nextId - 1)
    BY DEF QueueInv, PostedOK
  <2>3. nextId' \in Nat \ {0} /\ DOMAIN posted' \subseteq 1..(nextId' - 1)
    BY <2>1, <2>2
  <2>4. PostedOK'
    BY <2>1, <2>3 DEF QueueInv, PostedOK, IsByteMap, Weight, ByteTokens
  <2>5. WaitingOK' /\ NoStall'
    BY <2>1 DEF QueueInv, WaitingOK, NoStall, Messages
  <2> QED BY <1>0, <2>1, <2>4, <2>5 DEF QueueInv
<1>3. ASSUME NEW w \in Works, SubmitAndWait(w) PROVE QueueInv'
  <2>1. seq < MaxSubmits /\ seq' = seq + 1 /\ gen' = gen /\ SubmitWaiting(Message(w))
    BY <1>3 DEF SubmitAndWait, Submitting
  <2>2. Message(w) \in Messages /\ Message(w).bytes \in Nat
    BY <1>0, <2>1, MessageType
  <2>3. PostedOK' /\ WaitingOK' /\ NoStall'
    BY <2>1, <2>2, WaitKeepsInv
  <2> QED BY <1>0, <2>1, <2>3 DEF QueueInv
<1>4. ASSUME NEW w \in Works, SubmitAndReject(w) PROVE QueueInv'
  <2>1. seq < MaxSubmits /\ seq' = seq + 1 /\ gen' = gen /\ UNCHANGED queueVars
    BY <1>4 DEF SubmitAndReject, Submitting, SubmitRejected
  <2> QED BY <1>0, <1>a, <2>1 DEF QueueInv
<1>5. CASE WorkerFinishes
  <2>1. UNCHANGED <<gen, seq>> /\ UNCHANGED queueVars
    BY <1>5 DEF WorkerFinishes
  <2> QED BY <1>0, <1>a, <2>1 DEF QueueInv
<1>6. CASE AcknowledgeSome
  <2>1. PICK ids \in Batches : Acknowledge(ids)
    BY <1>6 DEF AcknowledgeSome
  <2>2. Complete(ids) /\ UNCHANGED <<gen, seq>>
    BY <2>1 DEF Acknowledge, envVars
  <2>3. PostedOK' /\ WaitingOK' /\ NoStall'
    BY <2>2, CompleteKeepsInv
  <2> QED BY <1>0, <2>2, <2>3 DEF QueueInv
<1>7. CASE ChangeGeneration
  <2>1. /\ gen < MaxResets /\ gen' = gen + 1 /\ seq' = seq /\ nextId' = nextId
        /\ posted' = << >> /\ postedBytes' = 0 /\ waiting' = << >>
    BY <1>7 DEF ChangeGeneration, Reset
  <2>2. DOMAIN posted' = {}
    BY <2>1
  <2>3. IsByteMap(posted')
    BY <2>1, <2>2, FS_EmptySet DEF IsByteMap
  <2>4. Weight(posted') = 0 /\ Cardinality(DOMAIN posted') = 0
    BY <2>2, WeightEmpty, FS_EmptySet
  <2>5. PostedOK'
    BY <2>1, <2>2, <2>3, <2>4, BudgetsAssumption
    DEF QueueInv, PostedOK, IsByteMap, Weight, ByteTokens
  <2>6. WaitingOK' /\ NoStall'
    BY <2>1 DEF WaitingOK, NoStall
  <2> QED BY <1>0, <2>1, <2>5, <2>6 DEF QueueInv
<1>8. CASE UNCHANGED vars
  <2>1. UNCHANGED <<gen, seq>> /\ UNCHANGED queueVars
    BY <1>8 DEF vars, envVars
  <2> QED BY <1>0, <1>a, <2>1 DEF QueueInv
<1> QED BY <1>1, <1>2, <1>3, <1>4, <1>5, <1>6, <1>7, <1>8 DEF Next

(***************************************************************************)
(* The queue's inductive invariant holds in every reachable state, for all *)
(* budgets, coalesce keys, payload sizes and bounds.                       *)
(***************************************************************************)
THEOREM QueueInvariance == Spec => []QueueInv
BY QueueInvInit, QueueInvStep, PTL DEF Spec

(* The worker is never given more than its budget of messages or bytes, whatever is
   submitted, acknowledged late or twice, failed or reset. *)
THEOREM PostedBudgetHolds == Spec => []PostedWithinBudget
<1>1. QueueInv => PostedWithinBudget
  BY DEF QueueInv, PostedOK, PostedWithinBudget
<1> QED
  BY <1>1, QueueInvariance, PTL

(* Nothing ever waits on the main thread without an outstanding acknowledgement that
   will drain it. *)
THEOREM NoStallHolds == Spec => []NoStall
<1>1. QueueInv => NoStall
  BY DEF QueueInv
<1> QED
  BY <1>1, QueueInvariance, PTL

-----------------------------------------------------------------------------
(* Bytes of a sequence of messages. *)

BytesOf(s) == [i \in DOMAIN s |-> s[i].bytes]

LEMMA MessageFields ==
  ASSUME NEW m \in Messages
  PROVE  /\ m.bytes \in Nat /\ m.seq \in 1..MaxSubmits /\ m.seq \in Nat /\ m.gen \in 0..MaxResets
         /\ m.gen \in Nat /\ m.kind \in {"image", "touch", "control"}
<1>1. m.bytes \in Sizes \cup {0} /\ m.seq \in 1..MaxSubmits /\ m.gen \in 0..MaxResets
      /\ m.kind \in {"image", "touch", "control"}
  BY DEF Messages
<1>2. Sizes \cup {0} \subseteq Nat /\ MaxSubmits \in Nat /\ MaxResets \in Nat
  BY CallersAssumption
<1>3. m.bytes \in Nat  BY <1>1, <1>2
<1> QED BY ONLY <1>1, <1>2, <1>3

LEMMA BytesOfType ==
  ASSUME NEW s \in Seq(Messages)
  PROVE  /\ IsByteMap(BytesOf(s)) /\ DOMAIN BytesOf(s) = 1..Len(s) /\ Weight(BytesOf(s)) \in Nat
         /\ \A i \in 1..Len(s) : BytesOf(s)[i] = s[i].bytes
<1>1. Len(s) \in Nat /\ DOMAIN s = 1..Len(s) /\ \A i \in 1..Len(s) : s[i] \in Messages  OBVIOUS
<1>2. IsFiniteSet(1..Len(s))  BY <1>1, FS_Interval
<1>3. DOMAIN BytesOf(s) = 1..Len(s) /\ \A i \in 1..Len(s) : BytesOf(s)[i] = s[i].bytes
  BY <1>1 DEF BytesOf
<1>4. \A i \in 1..Len(s) : BytesOf(s)[i] \in Nat  BY <1>1, <1>3, MessageFields
<1>5. BytesOf(s) = [i \in DOMAIN BytesOf(s) |-> BytesOf(s)[i]]  BY DEF BytesOf
<1>6. IsByteMap(BytesOf(s))  BY <1>2, <1>3, <1>4, <1>5 DEF IsByteMap
<1> QED BY <1>3, <1>6, WeightType

(* The ids of a map do not matter to its weight, only how many bytes each has. *)
LEMMA WeightReindexed ==
  ASSUME NEW f, NEW h, IsByteMap(f), IsByteMap(h), NEW g \in Bijection(DOMAIN f, DOMAIN h),
         \A i \in DOMAIN f : h[g[i]] = f[i]
  PROVE  Weight(f) = Weight(h)
<1> DEFINE b == [t \in ByteTokens(f) |-> <<g[t[1]], t[2]>>]
<1>1. /\ g \in [DOMAIN f -> DOMAIN h]
      /\ \A i, j \in DOMAIN f : g[i] = g[j] => i = j
      /\ \A x \in DOMAIN h : \E i \in DOMAIN f : g[i] = x
  BY DEF Bijection, Injection, Surjection, IsInjective
<1>2. \A t \in ByteTokens(f) : t[1] \in DOMAIN f /\ t[2] \in 1..f[t[1]] /\ t = <<t[1], t[2]>>
  BY DEF ByteTokens
<1>3. \A i \in DOMAIN f : \A x \in 1..f[i] : <<i, x>> \in ByteTokens(f)
  BY DEF ByteTokens
<1>4. \A i \in DOMAIN h : \A x \in 1..h[i] : <<i, x>> \in ByteTokens(h)
  BY DEF ByteTokens
<1>5. \A t \in ByteTokens(h) : t[1] \in DOMAIN h /\ t[2] \in 1..h[t[1]] /\ t = <<t[1], t[2]>>
  BY DEF ByteTokens
<1>6. b \in [ByteTokens(f) -> ByteTokens(h)]  BY <1>1, <1>2, <1>4
<1>7. ASSUME NEW s \in ByteTokens(f), NEW t \in ByteTokens(f), b[s] = b[t]  PROVE s = t
  <2>1. g[s[1]] = g[t[1]] /\ s[2] = t[2]  BY <1>7
  <2>2. s[1] = t[1]  BY <2>1, <1>1, <1>2
  <2> QED BY <2>1, <2>2, <1>2
<1>8. ASSUME NEW t \in ByteTokens(h)  PROVE \E s \in ByteTokens(f) : b[s] = t
  <2>1. t[1] \in DOMAIN h /\ t[2] \in 1..h[t[1]] /\ t = <<t[1], t[2]>>  BY <1>5
  <2>2. PICK i \in DOMAIN f : g[i] = t[1]  BY <2>1, <1>1
  <2>3. t[2] \in 1..f[i]  BY <2>1, <2>2
  <2>4. <<i, t[2]>> \in ByteTokens(f)  BY <2>3, <1>3
  <2>5. b[<<i, t[2]>>] = <<g[i], t[2]>>  BY <2>4
  <2>6. b[<<i, t[2]>>] = t  BY <2>1, <2>2, <2>5
  <2> QED BY <2>4, <2>6
<1>9. b \in Bijection(ByteTokens(f), ByteTokens(h))
  <2> HIDE DEF b
  <2> QED BY <1>6, <1>7, <1>8 DEF Bijection, Injection, Surjection, IsInjective
<1>10. ExistsBijection(ByteTokens(f), ByteTokens(h))  BY <1>9 DEF ExistsBijection
<1>11. Cardinality(ByteTokens(h)) = Cardinality(ByteTokens(f))
  BY <1>10, WeightType, FS_Bijection
<1> QED BY <1>11 DEF Weight

(* A message at the end adds its bytes. *)
LEMMA BytesOfAppend ==
  ASSUME NEW s \in Seq(Messages), NEW m \in Messages
  PROVE  Weight(BytesOf(Append(s, m))) = Weight(BytesOf(s)) + m.bytes
<1> DEFINE t == Append(s, m)
           e == Entry(Len(s) + 1, m.bytes)
<1>1. t \in Seq(Messages) /\ Len(t) = Len(s) + 1 /\ Len(s) \in Nat /\ t[Len(s) + 1] = m
      /\ \A i \in 1..Len(s) : t[i] = s[i]
  OBVIOUS
<1>2. m.bytes \in Nat  BY MessageFields
<1>3. IsByteMap(e) /\ Weight(e) = m.bytes  BY <1>2, WeightOne
<1>4. DOMAIN e = {Len(s) + 1} /\ e[Len(s) + 1] = m.bytes  BY DEF Entry
<1> HIDE DEF t, e
<1>5. /\ IsByteMap(BytesOf(s)) /\ DOMAIN BytesOf(s) = 1..Len(s)
      /\ \A i \in 1..Len(s) : BytesOf(s)[i] = s[i].bytes
  BY BytesOfType
<1>6. /\ IsByteMap(BytesOf(t)) /\ DOMAIN BytesOf(t) = 1..Len(t)
      /\ \A i \in 1..Len(t) : BytesOf(t)[i] = t[i].bytes
  BY <1>1, BytesOfType
<1>7. 1..Len(t) = (1..Len(s)) \cup {Len(s) + 1} /\ (1..Len(s)) \cap {Len(s) + 1} = {}
  BY <1>1
<1>8. /\ DOMAIN BytesOf(s) \cap DOMAIN e = {} /\ DOMAIN BytesOf(t) = DOMAIN BytesOf(s) \cup DOMAIN e
      /\ \A i \in DOMAIN BytesOf(s) : BytesOf(t)[i] = BytesOf(s)[i]
      /\ \A i \in DOMAIN e : BytesOf(t)[i] = e[i]
  BY <1>1, <1>4, <1>5, <1>6, <1>7
<1>9. Weight(BytesOf(t)) = Weight(BytesOf(s)) + Weight(e)
  BY <1>3, <1>5, <1>6, <1>8, WeightUnion
<1> QED BY <1>3, <1>9 DEF t

(* Taking the first n away takes their bytes away. *)
LEMMA BytesOfRest ==
  ASSUME NEW s \in Seq(Messages), NEW n \in 0..Len(s)
  PROVE  /\ Weight([i \in 1..n |-> s[i].bytes]) \in Nat
         /\ Weight(BytesOf(s))
              = Weight([i \in 1..n |-> s[i].bytes]) + Weight(BytesOf(SubSeq(s, n + 1, Len(s))))
<1> DEFINE r == SubSeq(s, n + 1, Len(s))
           f == BytesOf(s)
           kept  == [i \in DOMAIN f \ (1..n) |-> f[i]]
           freed == [i \in (1..n) \cap DOMAIN f |-> f[i]]
           g == [i \in 1..Len(r) |-> n + i]
<1>1. Len(s) \in Nat /\ n \in Nat /\ r \in Seq(Messages) /\ Len(r) = Len(s) - n
      /\ \A i \in 1..Len(r) : r[i] = s[n + i]
  OBVIOUS
<1> HIDE DEF r
<1>2. /\ IsByteMap(f) /\ DOMAIN f = 1..Len(s)
      /\ \A i \in 1..Len(s) : f[i] = s[i].bytes
  BY BytesOfType
<1> HIDE DEF f
<1>3. IsByteMap(kept) /\ IsByteMap(freed) /\ Weight(f) = Weight(kept) + Weight(freed)
  BY <1>2, WeightSplit
<1>4. /\ IsByteMap(BytesOf(r)) /\ DOMAIN BytesOf(r) = 1..Len(r)
      /\ \A i \in 1..Len(r) : BytesOf(r)[i] = r[i].bytes
  BY <1>1, BytesOfType
<1>5. freed = [i \in 1..n |-> s[i].bytes]
  <2>1. (1..n) \cap DOMAIN f = 1..n /\ \A i \in 1..n : f[i] = s[i].bytes  BY <1>1, <1>2
  <2> QED BY <2>1
<1>6. DOMAIN kept = (n + 1)..Len(s) /\ \A i \in (n + 1)..Len(s) : kept[i] = s[i].bytes
  BY <1>1, <1>2
<1> HIDE DEF kept, freed
<1>7. g \in Bijection(DOMAIN BytesOf(r), DOMAIN kept)
  <2>1. g \in [1..Len(r) -> (n + 1)..Len(s)]  BY <1>1
  <2>2. \A i, j \in 1..Len(r) : g[i] = g[j] => i = j  BY <1>1
  <2>3. ASSUME NEW x \in (n + 1)..Len(s)  PROVE \E i \in 1..Len(r) : g[i] = x
    <3>1. x - n \in 1..Len(r) /\ n + (x - n) = x  BY <1>1
    <3> QED BY <3>1
  <2> HIDE DEF g
  <2> QED BY <2>1, <2>2, <2>3, <1>4, <1>6 DEF Bijection, Injection, Surjection, IsInjective
<1>8. \A i \in DOMAIN BytesOf(r) : kept[g[i]] = BytesOf(r)[i]
  <2> SUFFICES ASSUME NEW i \in 1..Len(r)  PROVE kept[g[i]] = BytesOf(r)[i]  BY <1>4
  <2>1. g[i] = n + i /\ n + i \in (n + 1)..Len(s)  BY <1>1
  <2> QED BY <2>1, <1>1, <1>4, <1>6
<1>9. Weight(BytesOf(r)) = Weight(kept)
  <2> HIDE DEF g
  <2> QED BY <1>3, <1>4, <1>7, <1>8, WeightReindexed
<1>10. Weight(freed) \in Nat /\ Weight(kept) \in Nat  BY <1>3, WeightType
<1> QED BY <1>3, <1>5, <1>9, <1>10 DEF r, f

(* The waiting list without one of its messages. *)
LEMMA WithoutOne ==
  ASSUME waiting \in Seq(Messages), NEW i \in 1..Len(waiting)
  PROVE  /\ Without(i) \in Seq(Messages) /\ Len(Without(i)) = Len(waiting) - 1
         /\ \A j \in 1..Len(waiting) - 1 :
              Without(i)[j] = waiting[IF j < i THEN j ELSE j + 1]
<1> DEFINE a == SubSeq(waiting, 1, i - 1)
           b == SubSeq(waiting, i + 1, Len(waiting))
<1>0. Len(waiting) \in Nat /\ i \in Nat /\ i # 0  OBVIOUS
<1>1. Without(i) = a \o b  BY <1>0, Zenon DEF Without
<1>2. a \in Seq(Messages) /\ Len(a) = i - 1 /\ \A j \in 1..(i - 1) : a[j] = waiting[j]
  BY <1>0
<1>3. b \in Seq(Messages) /\ Len(b) = Len(waiting) - i
      /\ \A j \in 1..(Len(waiting) - i) : b[j] = waiting[i + j]
  <2>1. b \in Seq(Messages) /\ Len(b) = Len(waiting) - i  BY <1>0
  <2>2. ASSUME NEW j \in 1..(Len(waiting) - i)  PROVE b[j] = waiting[i + j]
    <3>1. j \in 1..Len(b) /\ b[j] = waiting[(i + 1) + j - 1]  BY <1>0, <2>1
    <3>2. (i + 1) + j - 1 = i + j  BY <1>0
    <3> QED BY <3>1, <3>2
  <2> QED BY <2>1, <2>2
<1> HIDE DEF a, b
<1>4. /\ a \o b \in Seq(Messages) /\ Len(a \o b) = Len(a) + Len(b)
      /\ \A j \in 1 .. Len(a) + Len(b) :
           (a \o b)[j] = IF j <= Len(a) THEN a[j] ELSE b[j - Len(a)]
  BY <1>2, <1>3, ConcatProperties
<1>5. Len(a \o b) = Len(waiting) - 1  BY <1>0, <1>2, <1>3, <1>4
<1>6. ASSUME NEW j \in 1..Len(waiting) - 1
      PROVE  (a \o b)[j] = waiting[IF j < i THEN j ELSE j + 1]
  <2>1. CASE j < i
    <3>1. j \in 1 .. Len(a) + Len(b) /\ j <= Len(a) /\ j \in 1..(i - 1)  BY <2>1, <1>0, <1>2, <1>3
    <3> QED BY <3>1, <2>1, <1>2, <1>4
  <2>2. CASE ~(j < i)
    <3>1. j \in 1 .. Len(a) + Len(b) /\ ~(j <= Len(a)) /\ j - Len(a) \in 1..(Len(waiting) - i)
          /\ i + (j - Len(a)) = j + 1
      BY <2>2, <1>0, <1>2, <1>3
    <3> QED BY <3>1, <2>2, <1>3, <1>4
  <2> QED BY <2>1, <2>2
<1> QED BY <1>1, <1>4, <1>5, <1>6

LEMMA WithoutBytes ==
  ASSUME waiting \in Seq(Messages), NEW i \in 1..Len(waiting)
  PROVE  Weight(BytesOf(Without(i))) = Weight(BytesOf(waiting)) - waiting[i].bytes
<1> DEFINE f == BytesOf(waiting)
           h == BytesOf(Without(i))
           kept  == [j \in DOMAIN f \ {i} |-> f[j]]
           freed == [j \in {i} \cap DOMAIN f |-> f[j]]
           g == [j \in 1..Len(waiting) - 1 |-> IF j < i THEN j ELSE j + 1]
<1>0. Len(waiting) \in Nat /\ i \in Nat /\ waiting[i] \in Messages  OBVIOUS
<1>1. /\ Without(i) \in Seq(Messages) /\ Len(Without(i)) = Len(waiting) - 1
      /\ \A j \in 1..Len(waiting) - 1 : Without(i)[j] = waiting[IF j < i THEN j ELSE j + 1]
  BY WithoutOne
<1>2. /\ IsByteMap(f) /\ DOMAIN f = 1..Len(waiting) /\ Weight(f) \in Nat
      /\ \A j \in 1..Len(waiting) : f[j] = waiting[j].bytes
  BY BytesOfType
<1>3. /\ IsByteMap(h) /\ DOMAIN h = 1..Len(waiting) - 1
      /\ \A j \in 1..Len(waiting) - 1 : h[j] = Without(i)[j].bytes
  BY <1>1, BytesOfType
<1> HIDE DEF f, h
<1>4. IsByteMap(kept) /\ IsByteMap(freed) /\ Weight(f) = Weight(kept) + Weight(freed)
  BY <1>2, WeightSplit
<1>5. freed = Entry(i, waiting[i].bytes)  BY <1>2 DEF Entry
<1>6. Weight(freed) = waiting[i].bytes /\ waiting[i].bytes \in Nat
  BY <1>0, <1>5, WeightOne, MessageFields
<1>7. DOMAIN kept = (1..Len(waiting)) \ {i}
      /\ \A j \in (1..Len(waiting)) \ {i} : kept[j] = waiting[j].bytes
  BY <1>2
<1> HIDE DEF kept, freed
<1>8. g \in Bijection(DOMAIN h, DOMAIN kept)
  <2>1. g \in [1..Len(waiting) - 1 -> (1..Len(waiting)) \ {i}]  BY <1>0
  <2>2. \A j, k \in 1..Len(waiting) - 1 : g[j] = g[k] => j = k  BY <1>0
  <2>3. ASSUME NEW x \in (1..Len(waiting)) \ {i}  PROVE \E j \in 1..Len(waiting) - 1 : g[j] = x
    <3>1. CASE x < i
      <4>1. x \in 1..Len(waiting) - 1  BY <3>1, <1>0
      <4> QED BY <4>1, <3>1
    <3>2. CASE x > i
      <4>1. x - 1 \in 1..Len(waiting) - 1 /\ ~(x - 1 < i) /\ (x - 1) + 1 = x  BY <3>2, <1>0
      <4> QED BY <4>1
    <3> QED BY <3>1, <3>2, <1>0
  <2> HIDE DEF g
  <2> QED BY <2>1, <2>2, <2>3, <1>3, <1>7 DEF Bijection, Injection, Surjection, IsInjective
<1>9. \A j \in DOMAIN h : kept[g[j]] = h[j]
  <2> SUFFICES ASSUME NEW j \in 1..Len(waiting) - 1  PROVE kept[g[j]] = h[j]  BY <1>3
  <2>1. g[j] \in (1..Len(waiting)) \ {i} /\ g[j] = IF j < i THEN j ELSE j + 1  BY <1>0
  <2> HIDE DEF g
  <2> QED BY <2>1, <1>1, <1>3, <1>7
<1>10. Weight(h) = Weight(kept)
  <2> HIDE DEF g
  <2> QED BY <1>3, <1>4, <1>8, <1>9, WeightReindexed
<1>11. Weight(kept) \in Nat  BY <1>4, WeightType
<1> QED BY <1>4, <1>6, <1>10, <1>11 DEF f, h

(* What reaches the worker's port: under ids that grow, later than every finished one, of no
   generation to come. *)
SentRecs == [id : Nat \ {0}, msg : Messages]

PortOK ==
  /\ toWorker \in Seq(SentRecs)
  /\ \A i \in 1..Len(toWorker) : toWorker[i].id < nextId /\ toWorker[i].msg.gen <= gen
  /\ \A i, j \in 1..Len(toWorker) : i < j => toWorker[i].id < toWorker[j].id
  /\ finished \subseteq [gen : 0..gen, id : 1..(nextId - 1)]
  /\ \A f \in finished : \A i \in 1..Len(toWorker) : f.id < toWorker[i].id

(* The line of this generation's messages, sent and waiting, in the order of submission. *)
InOrder(s) == \A i, j \in 1..Len(s) : i < j => s[i].seq < s[j].seq

LineKept ==
  /\ sent \in Seq(Messages)
  /\ InOrder(sent) /\ InOrder(waiting)
  /\ \A i \in 1..Len(sent) : \A j \in 1..Len(waiting) : sent[i].seq < waiting[j].seq
  /\ \A i \in 1..Len(waiting) : waiting[i].gen = gen

(* The history of admissions: each message once; what was lost was ahead of all that waits. *)
AdmittedKept ==
  /\ admitted \subseteq Messages
  /\ \A m \in admitted : m.seq <= seq
  /\ \A m, q \in admitted : m.seq = q.seq => m = q
  /\ \A i \in 1..Len(sent) : sent[i] \in admitted
  /\ \A i \in 1..Len(waiting) : waiting[i] \in admitted
  /\ lost \subseteq 1..seq
  /\ \A x \in lost : \A i \in 1..Len(waiting) : x < waiting[i].seq

(* The main thread's budget. *)
NotControl(s) == {i \in 1..Len(s) : s[i].kind # "control"}

BooksKept ==
  /\ waitingBytes = Weight(BytesOf(waiting))
  /\ waitingBytes <= PendingBytes
  /\ Len(waiting) <= PendingCount + ControlReserve
  /\ Cardinality(NotControl(waiting)) <= PendingCount

(* The inductive invariant of the queue and its worker. *)
SystemInv ==
  /\ QueueInv /\ PortOK /\ CreditsMatchWorker /\ LineKept /\ AdmittedKept
  /\ CoalescingIsInvisible /\ BooksKept

-----------------------------------------------------------------------------
(* The messages in line, and those that left it for another's sake. *)
InLine == {sent[i] : i \in DOMAIN sent} \cup {waiting[i] : i \in DOMAIN waiting}
Gone == {m \in admitted : m \notin InLine /\ m.seq \notin lost}

(* A message that is gone was superseded with no effect in between. *)
Superseded(m, c) ==
  /\ c.kind = "image" /\ c.key = m.key /\ m.seq < c.seq
  /\ \A b \in admitted : b.kind # "image" => ~(m.seq < b.seq /\ b.seq < c.seq)

LEMMA InvisibleMeans ==
  CoalescingIsInvisible <=>
    \A m \in Gone : m.kind = "image" /\ \E c \in admitted \ Gone : Superseded(m, c)
BY DEF CoalescingIsInvisible, Gone, InLine, Superseded

(* What keeps more in line than before loses no effect. *)
LEMMA InvisibleKeeps ==
  ASSUME SystemInv, admitted \subseteq admitted', Gone' \subseteq Gone,
         \A a \in admitted' : a \in admitted \/ a.seq = seq + 1
  PROVE  CoalescingIsInvisible'
<1>1. \A m \in Gone : m.kind = "image" /\ \E c \in admitted \ Gone : Superseded(m, c)
  BY InvisibleMeans DEF SystemInv
<1>2. ASSUME NEW m \in Gone'
      PROVE  m.kind = "image" /\ \E c \in admitted' \ Gone' : Superseded(m, c)'
  <2>1. m \in Gone /\ m \in admitted  BY DEF Gone
  <2>2. PICK c \in admitted \ Gone : Superseded(m, c)  BY <2>1, <1>1
  <2>3. c.seq <= seq /\ c.seq \in Nat /\ m.seq \in Nat /\ seq \in Nat
    <3>1. c \in Messages /\ m \in Messages /\ c.seq <= seq /\ seq \in 0..MaxSubmits
      BY <2>1, <2>2 DEF SystemInv, AdmittedKept, QueueInv
    <3> QED BY <3>1, MessageFields, CallersAssumption
  <2>4. ASSUME NEW b \in admitted', b.kind # "image"  PROVE ~(m.seq < b.seq /\ b.seq < c.seq)
    <3>1. CASE b \in admitted  BY <3>1, <2>2, <2>4 DEF Superseded
    <3>2. CASE b.seq = seq + 1  BY <3>2, <2>3
    <3> QED BY <3>1, <3>2
  <2>5. Superseded(m, c)'  BY <2>2, <2>4 DEF Superseded
  <2> QED BY <2>1, <2>2, <2>5, <1>1
<1>3. \A m \in Gone' : m.kind = "image" /\ \E c \in admitted' \ Gone' : Superseded(m, c)'
  BY <1>2
<1> QED BY <1>3 DEF CoalescingIsInvisible, Gone, InLine, Superseded

-----------------------------------------------------------------------------
(* The invariant, spelled out for the lemmas below. *)
LEMMA SystemFacts ==
  ASSUME SystemInv
  PROVE  /\ waiting \in Seq(Messages) /\ Len(waiting) \in Nat /\ DOMAIN waiting = 1..Len(waiting)
         /\ sent \in Seq(Messages) /\ Len(sent) \in Nat /\ DOMAIN sent = 1..Len(sent)
         /\ toWorker \in Seq(SentRecs) /\ Len(toWorker) \in Nat
         /\ DOMAIN toWorker = 1..Len(toWorker)
         /\ \A i \in 1..Len(toWorker) :
              toWorker[i].id \in Nat \ {0} /\ toWorker[i].msg \in Messages /\ toWorker[i].id < nextId
         /\ nextId \in Nat \ {0} /\ seq \in Nat /\ gen \in Nat
         /\ DOMAIN posted \subseteq 1..(nextId - 1)
<1>1. waiting \in Seq(Messages) /\ sent \in Seq(Messages) /\ toWorker \in Seq(SentRecs)
  BY DEF SystemInv, QueueInv, WaitingOK, LineKept, PortOK
<1>2. \A i \in 1..Len(toWorker) : toWorker[i] \in SentRecs /\ toWorker[i].id < nextId
  BY <1>1 DEF SystemInv, PortOK
<1>3. nextId \in Nat \ {0} /\ DOMAIN posted \subseteq 1..(nextId - 1)
  BY DEF SystemInv, QueueInv, PostedOK
<1>4. seq \in Nat /\ gen \in Nat  BY CallersAssumption DEF SystemInv, QueueInv
<1> QED BY <1>1, <1>2, <1>3, <1>4 DEF SentRecs

(* A new message is newer than everything in the history. *)
LEMMA NewMessage ==
  ASSUME SystemInv, NEW w \in Works, seq < MaxSubmits
  PROVE  /\ Message(w) \in Messages /\ Message(w).seq = seq + 1 /\ Message(w).gen = gen
         /\ Message(w).bytes \in Nat
         /\ Message(w).key # NoKey => Message(w).kind = "image"
         /\ Message(w).kind = "control" => Message(w).key = NoKey
         /\ \A m \in admitted : m.seq < seq + 1 /\ m.seq \in Nat
         /\ \A i \in 1..Len(sent) : sent[i].seq < seq + 1
         /\ \A i \in 1..Len(waiting) : waiting[i].seq < seq + 1
         /\ \A x \in lost : x < seq + 1
<1>1. seq \in 0..MaxSubmits /\ gen \in 0..MaxResets  BY DEF SystemInv, QueueInv
<1>2. Message(w) \in Messages /\ Message(w).bytes \in Nat  BY <1>1, MessageType
<1>3. /\ Message(w).seq = seq + 1 /\ Message(w).gen = gen
      /\ Message(w).key # NoKey => Message(w).kind = "image"
      /\ Message(w).kind = "control" => Message(w).key = NoKey
  <2>1. /\ Message(w).seq = seq + 1 /\ Message(w).gen = gen /\ Message(w).key = w.key
        /\ Message(w).kind = w.kind
    BY DEF Message
  <2>2. w.key # NoKey => w.kind = "image"  BY DEF Works
  <2>3. w.kind = "control" => w.key = NoKey  BY DEF Works
  <2> QED BY <2>1, <2>2, <2>3
<1>4. seq \in Nat /\ \A m \in admitted : m.seq <= seq /\ m \in Messages
  BY SystemFacts DEF SystemInv, AdmittedKept
<1>5. \A m \in admitted : m.seq < seq + 1 /\ m.seq \in Nat  BY <1>4, MessageFields
<1>6. lost \subseteq 1..seq  BY DEF SystemInv, AdmittedKept
<1> QED BY <1>2, <1>3, <1>4, <1>5, <1>6 DEF SystemInv, AdmittedKept

(* Steps that leave messages and credits alone. *)
LEMMA QuietKeeps ==
  ASSUME SystemInv, QueueInv',
         UNCHANGED <<posted, waiting, waitingBytes, toWorker, finished, gen, admitted, sent, lost>>,
         nextId' \in Nat, nextId' >= nextId, seq' \in Nat, seq' >= seq
  PROVE  SystemInv'
<1>1. PortOK'
  <2>1. \A i \in 1..Len(toWorker) : toWorker[i].id < nextId'  BY SystemFacts
  <2>2. finished \subseteq [gen : 0..gen, id : 1..(nextId' - 1)]
    <3>1. 1..(nextId - 1) \subseteq 1..(nextId' - 1)  BY SystemFacts
    <3> QED BY <3>1 DEF SystemInv, PortOK
  <2> QED BY <2>1, <2>2 DEF SystemInv, PortOK, SentRecs, Messages
<1>2. CreditsMatchWorker'  BY DEF SystemInv, CreditsMatchWorker
<1>3. LineKept'  BY DEF SystemInv, LineKept, InOrder, Messages
<1>4. AdmittedKept'
  <2>1. \A m \in admitted : m.seq <= seq'
    BY SystemFacts, MessageFields DEF SystemInv, AdmittedKept
  <2>2. lost \subseteq 1..seq'  BY SystemFacts DEF SystemInv, AdmittedKept
  <2> QED BY <2>1, <2>2 DEF SystemInv, AdmittedKept, Messages
<1>5. CoalescingIsInvisible'  BY DEF SystemInv, CoalescingIsInvisible
<1>6. BooksKept'  BY DEF SystemInv, BooksKept, NotControl, BytesOf, Weight, ByteTokens
<1> QED BY <1>1, <1>2, <1>3, <1>4, <1>5, <1>6 DEF SystemInv

(* A message posted at once: the next id, the end of the line. *)
LEMMA SubmitAndPostKeeps ==
  ASSUME SystemInv, QueueInv', NEW w \in Works, SubmitAndPost(w)
  PROVE  SystemInv'
<1> DEFINE m == Message(w)
<1>1. /\ seq < MaxSubmits /\ seq' = seq + 1 /\ UNCHANGED <<finished, gen, lost>>
      /\ waiting = << >> /\ UNCHANGED <<waiting, waitingBytes>>
      /\ nextId' = nextId + 1 /\ posted' = Merge(posted, Entry(nextId, m.bytes))
      /\ toWorker' = Append(toWorker, Sent(m, nextId))
      /\ admitted' = admitted \cup {m} /\ sent' = Append(sent, m)
  BY DEF SubmitAndPost, Submitting, SubmitPosted, CanPostNow
<1>2. DOMAIN posted' = DOMAIN posted \cup {nextId}  BY <1>1 DEF Merge, Entry
<1>3. /\ m \in Messages /\ m.seq = seq + 1 /\ m.gen = gen
      /\ \A a \in admitted : a.seq < seq + 1 /\ a.seq \in Nat
      /\ \A i \in 1..Len(sent) : sent[i].seq < seq + 1
  BY <1>1, NewMessage
<1> HIDE DEF m
<1>4. Sent(m, nextId) \in SentRecs /\ Sent(m, nextId).id = nextId /\ Sent(m, nextId).msg = m
  BY <1>3, SystemFacts DEF Sent, SentRecs
<1>5. /\ toWorker' \in Seq(SentRecs) /\ Len(toWorker') = Len(toWorker) + 1
      /\ toWorker'[Len(toWorker) + 1] = Sent(m, nextId)
      /\ \A i \in 1..Len(toWorker) : toWorker'[i] = toWorker[i]
  BY <1>1, <1>4, SystemFacts
<1>6. /\ sent' \in Seq(Messages) /\ Len(sent') = Len(sent) + 1 /\ sent'[Len(sent) + 1] = m
      /\ \A i \in 1..Len(sent) : sent'[i] = sent[i]
  BY <1>1, <1>3, SystemFacts
<1>7. Len(waiting) = 0  BY <1>1
<1>8. PortOK'
  <2>1. ASSUME NEW i \in 1..Len(toWorker')
        PROVE  toWorker'[i].id < nextId' /\ toWorker'[i].msg.gen <= gen'
    <3>1. CASE i \in 1..Len(toWorker)
      BY <3>1, <1>1, <1>5, SystemFacts DEF SystemInv, PortOK
    <3>2. CASE i = Len(toWorker) + 1
      BY <3>2, <1>1, <1>3, <1>4, <1>5, SystemFacts
    <3> QED BY <3>1, <3>2, <1>5, SystemFacts
  <2>2. ASSUME NEW i \in 1..Len(toWorker'), NEW j \in 1..Len(toWorker'), i < j
        PROVE  toWorker'[i].id < toWorker'[j].id
    <3>1. i \in 1..Len(toWorker)  BY <2>2, <1>5, SystemFacts
    <3>2. CASE j \in 1..Len(toWorker)
      BY <2>2, <3>1, <3>2, <1>5 DEF SystemInv, PortOK
    <3>3. CASE j = Len(toWorker) + 1
      BY <3>1, <3>3, <1>4, <1>5, SystemFacts
    <3> QED BY <3>2, <3>3, <1>5, SystemFacts
  <2>3. finished' \subseteq [gen : 0..gen', id : 1..(nextId' - 1)]
    <3>1. 1..(nextId - 1) \subseteq 1..(nextId' - 1)  BY <1>1, SystemFacts
    <3> QED BY <3>1, <1>1 DEF SystemInv, PortOK
  <2>4. ASSUME NEW f \in finished', NEW i \in 1..Len(toWorker')  PROVE f.id < toWorker'[i].id
    <3>1. f \in finished /\ f.id \in 1..(nextId - 1)  BY <1>1 DEF SystemInv, PortOK
    <3>2. CASE i \in 1..Len(toWorker)  BY <3>1, <3>2, <1>5 DEF SystemInv, PortOK
    <3>3. CASE i = Len(toWorker) + 1  BY <3>1, <3>3, <1>4, <1>5, SystemFacts
    <3> QED BY <3>2, <3>3, <1>5, SystemFacts
  <2> QED BY <2>1, <2>2, <2>3, <2>4, <1>5 DEF PortOK, SentRecs, Messages
<1>9. CreditsMatchWorker'
  <2>1. ASSUME NEW i \in 1..Len(toWorker'), toWorker'[i].msg.gen = gen'
        PROVE  toWorker'[i].id \in DOMAIN posted'
    <3>1. CASE i \in 1..Len(toWorker)
      BY <2>1, <3>1, <1>1, <1>2, <1>5, SystemFacts DEF SystemInv, CreditsMatchWorker
    <3>2. CASE i = Len(toWorker) + 1
      BY <3>2, <1>2, <1>4, <1>5
    <3> QED BY <3>1, <3>2, <1>5, SystemFacts
  <2>2. ASSUME NEW id \in DOMAIN posted'
        PROVE  \/ \E i \in 1..Len(toWorker') : toWorker'[i].id = id /\ toWorker'[i].msg.gen = gen'
               \/ [gen |-> gen', id |-> id] \in finished'
    <3>1. CASE id \in DOMAIN posted
      <4>1. CASE [gen |-> gen, id |-> id] \in finished  BY <4>1, <1>1
      <4>2. CASE \E i \in DOMAIN toWorker : toWorker[i].id = id /\ toWorker[i].msg.gen = gen
        <5>1. PICK i \in 1..Len(toWorker) : toWorker[i].id = id /\ toWorker[i].msg.gen = gen
          BY <4>2, SystemFacts
        <5>2. i \in 1..Len(toWorker') /\ toWorker'[i] = toWorker[i]  BY <1>5, SystemFacts
        <5> QED BY <5>1, <5>2, <1>1
      <4> QED BY <3>1, <4>1, <4>2 DEF SystemInv, CreditsMatchWorker
    <3>2. CASE id = nextId
      <4>1. Len(toWorker) + 1 \in 1..Len(toWorker')  BY <1>5, SystemFacts
      <4> QED BY <3>2, <4>1, <1>1, <1>3, <1>4, <1>5
    <3> QED BY <3>1, <3>2, <1>2
  <2>3. DOMAIN toWorker' = 1..Len(toWorker')  BY <1>5
  <2> QED BY <2>1, <2>2, <2>3 DEF CreditsMatchWorker
<1>10. LineKept'
  <2>1. ASSUME NEW i \in 1..Len(sent'), NEW j \in 1..Len(sent'), i < j
        PROVE  sent'[i].seq < sent'[j].seq
    <3>1. i \in 1..Len(sent)  BY <2>1, <1>6, SystemFacts
    <3>2. CASE j \in 1..Len(sent)
      BY <2>1, <3>1, <3>2, <1>6 DEF SystemInv, LineKept, InOrder
    <3>3. CASE j = Len(sent) + 1  BY <3>1, <3>3, <1>3, <1>6
    <3> QED BY <3>2, <3>3, <1>6, SystemFacts
  <2>2. InOrder(sent)'  BY <2>1 DEF InOrder
  <2>3. 1..Len(waiting) = {}  BY <1>7
  <2> QED BY <2>2, <2>3, <1>1, <1>6 DEF LineKept, InOrder, Messages
<1>11. AdmittedKept'
  <2>1. admitted' \subseteq Messages  BY <1>1, <1>3 DEF SystemInv, AdmittedKept
  <2>2. \A a \in admitted' : a.seq <= seq'  BY <1>1, <1>3, SystemFacts
  <2>3. \A a, b \in admitted' : a.seq = b.seq => a = b
    BY <1>1, <1>3, SystemFacts DEF SystemInv, AdmittedKept
  <2>4. ASSUME NEW i \in 1..Len(sent')  PROVE sent'[i] \in admitted'
    <3>1. CASE i \in 1..Len(sent)  BY <3>1, <1>1, <1>6 DEF SystemInv, AdmittedKept
    <3>2. CASE i = Len(sent) + 1  BY <3>2, <1>1, <1>6
    <3> QED BY <3>1, <3>2, <1>6, SystemFacts
  <2>5. 1..Len(waiting) = {}  BY <1>7
  <2>6. lost' \subseteq 1..seq'  BY <1>1, SystemFacts DEF SystemInv, AdmittedKept
  <2> QED BY <2>1, <2>2, <2>3, <2>4, <2>5, <2>6, <1>1 DEF AdmittedKept, Messages
<1>12. CoalescingIsInvisible'
  <2>1. InLine \subseteq InLine' /\ m \in InLine'
    <3>1. \A i \in 1..Len(sent) : i \in 1..Len(sent') /\ sent'[i] = sent[i]
      BY <1>6, SystemFacts
    <3>2. Len(sent) + 1 \in 1..Len(sent') /\ DOMAIN sent' = 1..Len(sent')
      BY <1>6, SystemFacts
    <3> QED BY <3>1, <3>2, <1>1, <1>6, SystemFacts DEF InLine
  <2>2. Gone' \subseteq Gone  BY <2>1, <1>1 DEF Gone
  <2> QED BY <2>2, <1>1, <1>3, InvisibleKeeps
<1>13. BooksKept'
  BY <1>1 DEF SystemInv, BooksKept, NotControl, BytesOf, Weight, ByteTokens
<1> QED BY <1>8, <1>9, <1>10, <1>11, <1>12, <1>13 DEF SystemInv

-----------------------------------------------------------------------------
(* The waiting list without what a new image supersedes, if anything. *)
LEMMA WithoutFacts ==
  ASSUME SystemInv, NEW i \in {0} \cup (1..Len(waiting))
  PROVE  LET t == Without(i)
         IN  /\ t \in Seq(Messages) /\ Len(t) \in Nat /\ Len(t) <= Len(waiting) /\ InOrder(t)
             /\ \A j \in 1..Len(t) : \E k \in 1..Len(waiting) : k # i /\ t[j] = waiting[k]
             /\ \A k \in 1..Len(waiting) : k # i => \E j \in 1..Len(t) : t[j] = waiting[k]
             /\ Weight(BytesOf(t)) = waitingBytes - FreedBytes(i)
             /\ Weight(BytesOf(t)) \in Nat
<1> DEFINE t == Without(i)
<1>0. /\ waiting \in Seq(Messages) /\ Len(waiting) \in Nat /\ InOrder(waiting)
      /\ waitingBytes = Weight(BytesOf(waiting))
  BY SystemFacts DEF SystemInv, LineKept, BooksKept
<1>1. CASE i = 0
  <2>1. t = waiting /\ FreedBytes(i) = 0  BY <1>1 DEF Without, FreedBytes
  <2>2. Weight(BytesOf(waiting)) \in Nat  BY <1>0, BytesOfType
  <2>3. Weight(BytesOf(t)) = waitingBytes - FreedBytes(i)  BY <2>1, <2>2, <1>0
  <2>4. \A k \in 1..Len(waiting) : k # i  BY <1>1
  <2> HIDE DEF t
  <2> QED BY <2>1, <2>2, <2>3, <2>4, <1>0 DEF t
<1>2. CASE i \in 1..Len(waiting)
  <2>1. /\ t \in Seq(Messages) /\ Len(t) = Len(waiting) - 1
        /\ \A j \in 1..Len(waiting) - 1 : t[j] = waiting[IF j < i THEN j ELSE j + 1]
    BY <1>0, <1>2, WithoutOne
  <2>2. Weight(BytesOf(t)) = Weight(BytesOf(waiting)) - waiting[i].bytes
    BY <1>0, <1>2, WithoutBytes
  <2>3. FreedBytes(i) = waiting[i].bytes  BY <1>0, <1>2 DEF FreedBytes
  <2> HIDE DEF t
  <2>4. Weight(BytesOf(t)) \in Nat  BY <2>1, BytesOfType
  <2>5. Len(t) \in Nat /\ i \in Nat  BY <1>0, <1>2, <2>1
  <2>6. ASSUME NEW j \in 1..Len(t)
        PROVE  LET k == IF j < i THEN j ELSE j + 1
               IN  k \in 1..Len(waiting) /\ k # i /\ t[j] = waiting[k]
    BY <1>0, <2>1, <2>5
  <2>7. \A j \in 1..Len(t) : \E k \in 1..Len(waiting) : k # i /\ t[j] = waiting[k]
    BY <2>6
  <2>8. ASSUME NEW k \in 1..Len(waiting), k # i  PROVE \E j \in 1..Len(t) : t[j] = waiting[k]
    <3>1. CASE k < i
      <4>1. k \in 1..Len(t) /\ t[k] = waiting[k]  BY <3>1, <1>0, <1>2, <2>1, <2>5
      <4> QED BY <4>1
    <3>2. CASE k > i
      <4>1. k - 1 \in 1..Len(t) /\ ~(k - 1 < i) /\ (k - 1) + 1 = k
        BY <3>2, <1>0, <1>2, <2>1, <2>5
      <4>2. t[k - 1] = waiting[k]  BY <4>1, <2>1
      <4> QED BY <4>1, <4>2
    <3> QED BY <3>1, <3>2, <2>8, <2>5, <1>0
  <2>9. ASSUME NEW j \in 1..Len(t), NEW l \in 1..Len(t), j < l  PROVE t[j].seq < t[l].seq
    <3> DEFINE a == IF j < i THEN j ELSE j + 1
               b == IF l < i THEN l ELSE l + 1
    <3>1. a \in 1..Len(waiting) /\ b \in 1..Len(waiting) /\ a < b  BY <1>0, <2>1, <2>5, <2>9
    <3>2. t[j] = waiting[a] /\ t[l] = waiting[b]  BY <2>6
    <3> HIDE DEF a, b
    <3> QED BY <3>1, <3>2, <1>0 DEF InOrder
  <2>10. InOrder(t)  BY <2>9 DEF InOrder
  <2>11. Len(t) <= Len(waiting)  BY <2>1, <1>0
  <2> QED BY <1>0, <2>1, <2>2, <2>3, <2>4, <2>5, <2>7, <2>8, <2>10, <2>11 DEF t
<1> QED BY <1>1, <1>2

(* A superseded message is an image with the key, and only images were submitted after it. *)
LEMMA SupersededFacts ==
  ASSUME SystemInv, NEW key
  PROVE  LET i == SupersededIndex(key)
         IN  /\ i \in {0} \cup (1..Len(waiting))
             /\ key = NoKey => i = 0
             /\ i # 0 => /\ waiting[i].kind = "image" /\ waiting[i].key = key
                         /\ \A j \in i..Len(waiting) : waiting[j].kind = "image"
<1> DEFINE run == {i \in DOMAIN waiting : \A j \in i..Len(waiting) : waiting[j].kind = "image"}
           match == {i \in run : waiting[i].key = key}
<1>1. CASE key = NoKey \/ match = {}
  <2>1. SupersededIndex(key) = 0  BY <1>1 DEF SupersededIndex
  <2> QED BY <2>1
<1>2. CASE ~(key = NoKey \/ match = {})
  <2> DEFINE last == CHOOSE i \in match : \A j \in match : j <= i
  <2>1. SupersededIndex(key) = last  BY <1>2 DEF SupersededIndex
  <2>2. \E i \in match : \A j \in match : j <= i
    <3>1. match \subseteq 1..Len(waiting) /\ Len(waiting) \in Nat  BY SystemFacts
    <3> HIDE DEF match
    <3> QED BY <3>1, <1>2, GreatestOfSome
  <2>3. last \in match
    <3> HIDE DEF match
    <3> QED BY <2>2
  <2> HIDE DEF last
  <2>4. last \in 1..Len(waiting) /\ last # 0  BY <2>3, SystemFacts
  <2>5. last \in last..Len(waiting)  BY <2>4, SystemFacts
  <2> QED BY <2>1, <2>3, <2>4, <2>5, <1>2
<1> QED BY <1>1, <1>2

(* A message that waits, in place of the image it supersedes. *)
LEMMA SubmitAndWaitKeeps ==
  ASSUME SystemInv, QueueInv', NEW w \in Works, SubmitAndWait(w)
  PROVE  SystemInv'
<1>0. PICK m : m = Message(w)  OBVIOUS
<1> DEFINE i == SupersededIndex(m.key)
           t == Without(i)
<1>1. /\ seq < MaxSubmits /\ seq' = seq + 1
      /\ UNCHANGED <<finished, gen, lost, sent, nextId, posted, toWorker>>
      /\ waiting' = Append(t, m) /\ waitingBytes' = waitingBytes - FreedBytes(i) + m.bytes
      /\ Len(t) < CountLimit(m) /\ waitingBytes - FreedBytes(i) + m.bytes <= PendingBytes
      /\ admitted' = admitted \cup {m}
  BY <1>0 DEF SubmitAndWait, Submitting, SubmitWaiting, FitsWaiting
<1>2. /\ m \in Messages /\ m.seq = seq + 1 /\ m.gen = gen /\ m.bytes \in Nat
      /\ m.key # NoKey => m.kind = "image"
      /\ m.kind = "control" => m.key = NoKey
      /\ \A a \in admitted : a.seq < seq + 1 /\ a.seq \in Nat
      /\ \A j \in 1..Len(sent) : sent[j].seq < seq + 1
      /\ \A j \in 1..Len(waiting) : waiting[j].seq < seq + 1
      /\ \A x \in lost : x < seq + 1
  BY <1>0, <1>1, NewMessage
<1>3. /\ i \in {0} \cup (1..Len(waiting)) /\ (m.key = NoKey => i = 0)
      /\ i # 0 => /\ waiting[i].kind = "image" /\ waiting[i].key = m.key
                  /\ \A j \in i..Len(waiting) : waiting[j].kind = "image"
  BY SupersededFacts
<1> HIDE DEF i
<1>4. /\ t \in Seq(Messages) /\ Len(t) \in Nat /\ Len(t) <= Len(waiting) /\ InOrder(t)
      /\ \A j \in 1..Len(t) : \E k \in 1..Len(waiting) : k # i /\ t[j] = waiting[k]
      /\ \A k \in 1..Len(waiting) : k # i => \E j \in 1..Len(t) : t[j] = waiting[k]
      /\ Weight(BytesOf(t)) = waitingBytes - FreedBytes(i)
      /\ Weight(BytesOf(t)) \in Nat
  BY <1>3, WithoutFacts
<1>5. i = 0 => t = waiting  BY DEF Without
<1> HIDE DEF t
<1>6. /\ waiting' \in Seq(Messages) /\ Len(waiting') = Len(t) + 1 /\ waiting'[Len(t) + 1] = m
      /\ DOMAIN waiting' = 1 .. Len(t) + 1
      /\ \A j \in 1..Len(t) : waiting'[j] = t[j]
  BY <1>1, <1>2, <1>4
<1>7. \A j \in 1..Len(waiting') : j \in 1..Len(t) \/ j = Len(t) + 1
  BY <1>4, <1>6
<1>8. PortOK' /\ CreditsMatchWorker'
  BY <1>1 DEF SystemInv, PortOK, CreditsMatchWorker, SentRecs, Messages
<1>9. \A j \in 1..Len(t) : t[j].seq < seq + 1 /\ t[j].gen = gen /\ t[j] \in admitted
  BY <1>2, <1>4 DEF SystemInv, LineKept, AdmittedKept
<1>10. LineKept'
  <2>1. ASSUME NEW j \in 1..Len(waiting'), NEW l \in 1..Len(waiting'), j < l
        PROVE  waiting'[j].seq < waiting'[l].seq
    <3>1. j \in 1..Len(t)  BY <2>1, <1>4, <1>6
    <3>2. CASE l \in 1..Len(t)  BY <2>1, <3>1, <3>2, <1>4, <1>6 DEF InOrder
    <3>3. CASE l = Len(t) + 1  BY <3>1, <3>3, <1>2, <1>6, <1>9
    <3> QED BY <3>2, <3>3, <1>7
  <2>2. ASSUME NEW j \in 1..Len(sent), NEW l \in 1..Len(waiting')
        PROVE  sent[j].seq < waiting'[l].seq
    <3>1. CASE l \in 1..Len(t)
      <4>1. PICK k \in 1..Len(waiting) : t[l] = waiting[k]  BY <3>1, <1>4
      <4> QED BY <3>1, <4>1, <1>6 DEF SystemInv, LineKept
    <3>2. CASE l = Len(t) + 1  BY <3>2, <1>2, <1>6
    <3> QED BY <3>1, <3>2, <1>7
  <2>3. \A l \in 1..Len(waiting') : waiting'[l].gen = gen  BY <1>2, <1>6, <1>7, <1>9
  <2>4. InOrder(waiting)'  BY <2>1 DEF InOrder
  <2> QED BY <2>2, <2>3, <2>4, <1>1 DEF SystemInv, LineKept, InOrder, Messages
<1>11. AdmittedKept'
  <2>1. admitted' \subseteq Messages  BY <1>1, <1>2 DEF SystemInv, AdmittedKept
  <2>2. \A a \in admitted' : a.seq <= seq'  BY <1>1, <1>2, SystemFacts
  <2>3. \A a, b \in admitted' : a.seq = b.seq => a = b
    BY <1>1, <1>2, SystemFacts DEF SystemInv, AdmittedKept
  <2>4. \A j \in 1..Len(waiting') : waiting'[j] \in admitted'  BY <1>1, <1>6, <1>7, <1>9
  <2>5. \A j \in 1..Len(sent') : sent'[j] \in admitted'  BY <1>1 DEF SystemInv, AdmittedKept
  <2>6. lost' \subseteq 1..seq'  BY <1>1, SystemFacts DEF SystemInv, AdmittedKept
  <2>7. ASSUME NEW x \in lost', NEW j \in 1..Len(waiting')  PROVE x < waiting'[j].seq
    <3>1. CASE j \in 1..Len(t)
      <4>1. PICK k \in 1..Len(waiting) : t[j] = waiting[k]  BY <3>1, <1>4
      <4> QED BY <3>1, <4>1, <1>1, <1>6 DEF SystemInv, AdmittedKept
    <3>2. CASE j = Len(t) + 1  BY <3>2, <1>1, <1>2, <1>6
    <3> QED BY <3>1, <3>2, <1>7
  <2> QED BY <2>1, <2>2, <2>3, <2>4, <2>5, <2>6, <2>7 DEF AdmittedKept, Messages
<1>12. /\ \A x \in InLine : x \in InLine' \/ (i # 0 /\ x = waiting[i])
       /\ m \in InLine'
  <2>1. ASSUME NEW k \in 1..Len(waiting), k # i  PROVE waiting[k] \in InLine'
    <3>1. PICK j \in 1..Len(t) : t[j] = waiting[k]  BY <2>1, <1>4
    <3>2. j \in DOMAIN waiting' /\ waiting'[j] = waiting[k]  BY <3>1, <1>4, <1>6
    <3> QED BY <3>2 DEF InLine
  <2>2. m \in InLine'
    <3>1. Len(t) + 1 \in DOMAIN waiting' /\ waiting'[Len(t) + 1] = m  BY <1>4, <1>6
    <3> QED BY <3>1 DEF InLine
  <2>3. \A j \in DOMAIN sent : sent[j] \in InLine'  BY <1>1 DEF InLine
  <2>4. ASSUME NEW x \in InLine  PROVE x \in InLine' \/ (i # 0 /\ x = waiting[i])
    <3>1. CASE \E j \in DOMAIN sent : x = sent[j]  BY <3>1, <2>3
    <3>2. CASE \E k \in 1..Len(waiting) : x = waiting[k]
      <4>1. PICK k \in 1..Len(waiting) : x = waiting[k]  BY <3>2
      <4> QED BY <4>1, <2>1, SystemFacts
    <3> QED BY <3>1, <3>2, SystemFacts DEF InLine
  <2> QED BY <2>2, <2>4
<1>13. CoalescingIsInvisible'
  <2>1. CASE i = 0
    <3>1. Gone' \subseteq Gone  BY <2>1, <1>1, <1>12 DEF Gone
    <3> QED BY <3>1, <1>1, <1>2, InvisibleKeeps
  <2>2. CASE i # 0
    <3>0. PICK s : s = waiting[i]  OBVIOUS
    <3>1. /\ i \in 1..Len(waiting) /\ s \in Messages /\ s \in admitted /\ s.kind = "image"
          /\ s.key = m.key /\ s.seq \in Nat /\ m.kind = "image"
      BY <3>0, <2>2, <1>2, <1>3, SystemFacts, MessageFields DEF SystemInv, AdmittedKept
    <3>2. \A j \in i..Len(waiting) : waiting[j].kind = "image"  BY <2>2, <1>3
    <3>3. \A j \in 1..Len(waiting) : j < i => waiting[j].seq < s.seq
      BY <3>0, <3>1 DEF SystemInv, LineKept, InOrder
    <3>4. \A j \in 1..Len(sent) : sent[j].seq < s.seq
      BY <3>0, <3>1 DEF SystemInv, LineKept
    <3>5. \A x \in lost : x < s.seq  BY <3>0, <3>1 DEF SystemInv, AdmittedKept
    <3>6. \A x \in Gone : x.kind = "image" /\ \E c \in admitted \ Gone : Superseded(x, c)
      BY InvisibleMeans DEF SystemInv
    <3>7. Gone' \subseteq Gone \cup {s}
      BY <3>0, <1>1, <1>12 DEF Gone
    <3>8. m \in admitted' \ Gone'  BY <1>1, <1>12 DEF Gone
    <3>9. ASSUME NEW b \in admitted, b.kind # "image"  PROVE ~(s.seq < b.seq)
      <4> SUFFICES ASSUME s.seq < b.seq  PROVE FALSE  OBVIOUS
      <4>0. b.seq \in Nat  BY <1>2
      <4>1. b \in InLine \/ b.seq \in lost  BY <3>6, <3>9 DEF Gone
      <4>2. CASE b.seq \in lost  BY <4>0, <4>2, <3>1, <3>5
      <4>3. CASE b \in InLine
        <5>1. CASE \E j \in 1..Len(sent) : b = sent[j]  BY <4>0, <5>1, <3>1, <3>4
        <5>2. CASE \E j \in 1..Len(waiting) : b = waiting[j]
          <6>1. PICK j \in 1..Len(waiting) : b = waiting[j]  BY <5>2
          <6>2. CASE j < i  BY <4>0, <6>1, <6>2, <3>1, <3>3
          <6>3. CASE ~(j < i)
            <7>1. j \in i..Len(waiting)  BY <6>3, <3>1, SystemFacts
            <7> QED BY <7>1, <6>1, <3>2, <3>9
          <6> QED BY <6>2, <6>3
        <5> QED BY <4>3, <5>1, <5>2, SystemFacts DEF InLine
      <4> QED BY <4>1, <4>2, <4>3
    <3>10. ASSUME NEW x \in Gone'
           PROVE  x.kind = "image" /\ \E c \in admitted' \ Gone' : Superseded(x, c)'
      <4>1. CASE x = s
        <5>1. s.seq < m.seq /\ m.seq \in Nat  BY <1>2, <3>1, SystemFacts
        <5>2. ASSUME NEW b \in admitted', b.kind # "image"
              PROVE  ~(s.seq < b.seq /\ b.seq < m.seq)
          <6>1. CASE b \in admitted  BY <6>1, <5>2, <3>9
          <6>2. CASE b = m  BY <6>2, <5>2, <3>1
          <6> QED BY <5>2, <6>1, <6>2, <1>1
        <5>3. Superseded(s, m)'  BY <5>1, <5>2, <3>1 DEF Superseded
        <5> QED BY <4>1, <5>3, <3>1, <3>8
      <4>2. CASE x \in Gone
        <5>1. PICK c \in admitted \ Gone : x.kind = "image" /\ Superseded(x, c)  BY <4>2, <3>6
        <5>2. /\ x \in admitted /\ x.seq \in Nat /\ c.seq \in Nat /\ c.seq < seq + 1
              /\ seq \in Nat
          BY <5>1, <4>2, <1>2, SystemFacts DEF Gone
        <5>3. CASE c # s
          <6>1. c \in admitted' \ Gone'  BY <5>1, <5>3, <3>7, <1>1
          <6>2. ASSUME NEW b \in admitted', b.kind # "image"
                PROVE  ~(x.seq < b.seq /\ b.seq < c.seq)
            <7>1. CASE b \in admitted  BY <7>1, <6>2, <5>1 DEF Superseded
            <7>2. CASE b = m  BY <7>2, <5>2, <1>2
            <7> QED BY <6>2, <7>1, <7>2, <1>1
          <6>3. Superseded(x, c)'  BY <6>2, <5>1 DEF Superseded
          <6> QED BY <6>1, <6>3, <5>1
        <5>4. CASE c = s
          <6>1. x.seq < s.seq /\ s.key = x.key  BY <5>1, <5>4 DEF Superseded
          <6>2. x.seq < m.seq /\ m.key = x.key  BY <6>1, <5>2, <1>2, <3>1
          <6>3. ASSUME NEW b \in admitted', b.kind # "image"
                PROVE  ~(x.seq < b.seq /\ b.seq < m.seq)
            <7>1. CASE b \in admitted
              <8>1. ~(x.seq < b.seq /\ b.seq < s.seq) /\ ~(s.seq < b.seq)
                BY <7>1, <6>3, <5>1, <5>4, <3>9 DEF Superseded
              <8>2. b.seq # s.seq
                BY <7>1, <6>3, <3>1 DEF SystemInv, AdmittedKept
              <8>3. b.seq \in Nat  BY <7>1, <1>2
              <8> QED BY <8>1, <8>2, <8>3, <3>1
            <7>2. CASE b = m  BY <7>2, <6>3, <3>1
            <7> QED BY <6>3, <7>1, <7>2, <1>1
          <6>4. Superseded(x, m)'  BY <6>2, <6>3, <3>1 DEF Superseded
          <6> QED BY <6>4, <5>1, <3>8
        <5> QED BY <5>3, <5>4
      <4> QED BY <4>1, <4>2, <3>7
    <3>11. \A x \in Gone' : x.kind = "image" /\ \E c \in admitted' \ Gone' : Superseded(x, c)'
      BY <3>10
    <3> QED BY <3>11 DEF CoalescingIsInvisible, Gone, InLine, Superseded
  <2> QED BY <2>1, <2>2
<1>14. BooksKept'
  <2>1. Weight(BytesOf(waiting')) = Weight(BytesOf(t)) + m.bytes
    BY <1>1, <1>2, <1>4, BytesOfAppend
  <2>2. waitingBytes' = Weight(BytesOf(waiting')) /\ waitingBytes' <= PendingBytes
    BY <2>1, <1>1, <1>4
  <2>3. PendingCount \in Nat /\ ControlReserve \in Nat  BY BudgetsAssumption
  <2>4. CASE m.kind = "control"
    <3>1. t = waiting  BY <2>4, <1>2, <1>3, <1>5
    <3>2. Len(waiting') <= PendingCount + ControlReserve
      BY <2>3, <2>4, <1>1, <1>4, <1>6 DEF CountLimit
    <3>3. NotControl(waiting') = NotControl(waiting)
      BY <2>4, <3>1, <1>4, <1>6, <1>7 DEF NotControl
    <3> QED BY <2>2, <3>2, <3>3 DEF SystemInv, BooksKept, BytesOf, Weight, ByteTokens, NotControl
  <2>5. CASE m.kind # "control"
    <3>1. Len(waiting') <= PendingCount /\ Len(waiting') \in Nat
      BY <2>3, <2>5, <1>1, <1>4, <1>6 DEF CountLimit
    <3>2. IsFiniteSet(1..Len(waiting')) /\ Cardinality(1..Len(waiting')) = Len(waiting')
      BY <3>1, FS_Interval, SMTT(30)
    <3>3. NotControl(waiting') \subseteq 1..Len(waiting')  BY DEF NotControl
    <3>4. Cardinality(NotControl(waiting')) <= Len(waiting')
          /\ Cardinality(NotControl(waiting')) \in Nat
      BY <3>2, <3>3, FS_Subset, FS_CardinalityType
    <3>5. /\ Cardinality(NotControl(waiting')) <= PendingCount
          /\ Len(waiting') <= PendingCount + ControlReserve
      BY <2>3, <3>1, <3>4
    <3> QED BY <2>2, <3>5 DEF BooksKept, BytesOf, Weight, ByteTokens, NotControl
  <2> QED BY <2>4, <2>5
<1> QED BY <1>8, <1>10, <1>11, <1>13, <1>14 DEF SystemInv


-----------------------------------------------------------------------------
(* A reset empties the queue; what it sent before is of an older generation. *)
LEMMA ChangeGenerationKeeps ==
  ASSUME SystemInv, QueueInv', ChangeGeneration
  PROVE  SystemInv'
<1>1. /\ gen' = gen + 1 /\ posted' = << >> /\ waiting' = << >> /\ waitingBytes' = 0
      /\ nextId' = nextId /\ admitted' = {} /\ sent' = << >> /\ lost' = {}
      /\ UNCHANGED <<toWorker, finished, seq>>
  BY DEF ChangeGeneration, Reset
<1>2. gen \in Nat /\ \A i \in 1..Len(toWorker) : toWorker[i].msg.gen <= gen /\ toWorker[i].msg.gen \in Nat
  BY SystemFacts, MessageFields DEF SystemInv, PortOK
<1>3. Len(waiting') = 0 /\ DOMAIN waiting' = {} /\ Len(sent') = 0 /\ DOMAIN posted' = {}
      /\ 1..Len(waiting') = {} /\ 1..Len(sent') = {} /\ DOMAIN sent' = {}
  BY <1>1
<1>4. PortOK'
  <2>1. \A i \in 1..Len(toWorker') : toWorker'[i].id < nextId' /\ toWorker'[i].msg.gen <= gen'
    BY <1>1, <1>2 DEF SystemInv, PortOK
  <2>2. finished' \subseteq [gen : 0..gen', id : 1..(nextId' - 1)]
    <3>1. 0..gen \subseteq 0..gen'  BY <1>1, <1>2
    <3> QED BY <3>1, <1>1 DEF SystemInv, PortOK
  <2> QED BY <2>1, <2>2, <1>1 DEF SystemInv, PortOK, SentRecs, Messages
<1>5. CreditsMatchWorker'
  <2>1. \A i \in DOMAIN toWorker : toWorker[i].msg.gen # gen'
    BY <1>1, <1>2, SystemFacts
  <2> QED BY <2>1, <1>1, <1>3 DEF CreditsMatchWorker
<1>6. LineKept'
  BY <1>1, <1>3 DEF LineKept, InOrder
<1>7. AdmittedKept'
  BY <1>1, <1>3 DEF AdmittedKept
<1>8. CoalescingIsInvisible'
  BY <1>1 DEF CoalescingIsInvisible
<1>9. BooksKept'
  <2>1. DOMAIN BytesOf(waiting') = {}  BY <1>3 DEF BytesOf
  <2>2. Weight(BytesOf(waiting')) = 0  BY <2>1, WeightEmpty
  <2>3. NotControl(waiting') = {}  BY <1>3 DEF NotControl
  <2>4. Cardinality(NotControl(waiting')) = 0  BY <2>3, FS_EmptySet
  <2> QED BY <2>2, <2>4, <1>1, <1>3, BudgetsAssumption
          DEF BooksKept, NotControl, BytesOf, Weight, ByteTokens
<1> QED BY <1>4, <1>5, <1>6, <1>7, <1>8, <1>9 DEF SystemInv

(* The worker finishes its messages in the order they were posted. *)
LEMMA WorkerFinishesKeeps ==
  ASSUME SystemInv, QueueInv', WorkerFinishes
  PROVE  SystemInv'
<1>0. PICK h : h = Head(toWorker)  OBVIOUS
<1>1. /\ toWorker # << >> /\ toWorker' = Tail(toWorker)
      /\ finished' = finished \cup {[gen |-> h.msg.gen, id |-> h.id]}
      /\ UNCHANGED <<nextId, posted, waiting, waitingBytes, gen, seq, admitted, sent, lost>>
  BY <1>0 DEF WorkerFinishes, queueVars, history
<1>2. /\ toWorker' \in Seq(SentRecs) /\ Len(toWorker') = Len(toWorker) - 1
      /\ 1 \in 1..Len(toWorker) /\ h = toWorker[1]
      /\ DOMAIN toWorker' = 1..Len(toWorker')
      /\ \A i \in 1..Len(toWorker') : i + 1 \in 1..Len(toWorker) /\ toWorker'[i] = toWorker[i + 1]
  BY <1>0, <1>1, SystemFacts
<1>3. /\ h.id \in Nat \ {0} /\ h.id < nextId /\ h.msg.gen <= gen /\ h.msg.gen \in Nat
      /\ nextId \in Nat /\ gen \in Nat
  BY <1>2, SystemFacts, MessageFields DEF SystemInv, PortOK
<1>4. PortOK'
  <2>1. \A i \in 1..Len(toWorker') : toWorker'[i].id < nextId' /\ toWorker'[i].msg.gen <= gen'
    BY <1>1, <1>2 DEF SystemInv, PortOK
  <2>2. ASSUME NEW i \in 1..Len(toWorker'), NEW j \in 1..Len(toWorker'), i < j
        PROVE  toWorker'[i].id < toWorker'[j].id
    <3>1. i + 1 < j + 1  BY <2>2
    <3> QED BY <3>1, <1>2 DEF SystemInv, PortOK
  <2>3. finished' \subseteq [gen : 0..gen', id : 1..(nextId' - 1)]
    <3>1. h.id \in 1..(nextId - 1) /\ h.msg.gen \in 0..gen  BY <1>3
    <3> QED BY <3>1, <1>1 DEF SystemInv, PortOK
  <2>4. ASSUME NEW f \in finished', NEW i \in 1..Len(toWorker')  PROVE f.id < toWorker'[i].id
    <3>1. CASE f \in finished  BY <3>1, <1>2 DEF SystemInv, PortOK
    <3>2. CASE f.id = h.id
      <4>1. 1 < i + 1  BY <1>2
      <4> QED BY <3>2, <4>1, <1>2 DEF SystemInv, PortOK
    <3> QED BY <3>1, <3>2, <1>1
  <2> QED BY <2>1, <2>2, <2>3, <2>4, <1>2 DEF PortOK, SentRecs, Messages
<1>5. CreditsMatchWorker'
  <2>1. \A i \in 1..Len(toWorker') : toWorker'[i].msg.gen = gen' => toWorker'[i].id \in DOMAIN posted'
    BY <1>1, <1>2, SystemFacts DEF SystemInv, CreditsMatchWorker
  <2>2. ASSUME NEW id \in DOMAIN posted'
        PROVE  \/ \E i \in 1..Len(toWorker') : toWorker'[i].id = id /\ toWorker'[i].msg.gen = gen'
               \/ [gen |-> gen', id |-> id] \in finished'
    <3>1. CASE [gen |-> gen, id |-> id] \in finished  BY <3>1, <1>1
    <3>2. CASE \E i \in DOMAIN toWorker : toWorker[i].id = id /\ toWorker[i].msg.gen = gen
      <4>1. PICK i \in 1..Len(toWorker) : toWorker[i].id = id /\ toWorker[i].msg.gen = gen
        BY <3>2, SystemFacts
      <4>2. CASE i = 1  BY <4>1, <4>2, <1>1, <1>2
      <4>3. CASE i # 1
        <5>1. i - 1 \in 1..Len(toWorker') /\ (i - 1) + 1 = i  BY <4>3, <1>2, SystemFacts
        <5>2. toWorker'[i - 1] = toWorker[i]  BY <5>1, <1>2
        <5> QED BY <5>1, <5>2, <4>1, <1>1
      <4> QED BY <4>2, <4>3
    <3> QED BY <3>1, <3>2, <1>1 DEF SystemInv, CreditsMatchWorker
  <2> QED BY <2>1, <2>2, <1>2 DEF CreditsMatchWorker
<1>6. LineKept'  BY <1>1 DEF SystemInv, LineKept, InOrder, Messages
<1>7. AdmittedKept'  BY <1>1 DEF SystemInv, AdmittedKept, Messages
<1>8. CoalescingIsInvisible'  BY <1>1 DEF SystemInv, CoalescingIsInvisible
<1>9. BooksKept'  BY <1>1 DEF SystemInv, BooksKept, NotControl, BytesOf, Weight, ByteTokens
<1> QED BY <1>4, <1>5, <1>6, <1>7, <1>8, <1>9 DEF SystemInv

(* What an acknowledgement changes: p numbers the messages that leave and do not fail. *)
AckStep(ids, n, good, c, p) ==
  /\ Numbering(p, good, c)
  /\ nextId' = nextId + n
  /\ DOMAIN posted' = (DOMAIN posted \ ids) \cup {nextId + i - 1 : i \in good}
  /\ waiting' \in Seq(Messages) /\ Len(waiting') = Len(waiting) - n
  /\ \A j \in 1..Len(waiting') : n + j \in 1..Len(waiting) /\ waiting'[j] = waiting[n + j]
  /\ waitingBytes' = Weight(BytesOf(waiting')) /\ waitingBytes' <= waitingBytes
  /\ toWorker' \in Seq(SentRecs) /\ Len(toWorker') = Len(toWorker) + c
  /\ \A i \in 1..Len(toWorker) : toWorker'[i] = toWorker[i]
  /\ \A k \in 1..c : /\ toWorker'[Len(toWorker) + k].msg = waiting[p[k]]
                     /\ toWorker'[Len(toWorker) + k].id = nextId + p[k] - 1
  /\ sent' \in Seq(Messages) /\ Len(sent') = Len(sent) + c
  /\ \A i \in 1..Len(sent) : sent'[i] = sent[i]
  /\ \A k \in 1..c : sent'[Len(sent) + k] = waiting[p[k]]
  /\ lost' = lost \cup ({waiting[i].seq : i \in 1..n} \ {waiting[p[k]].seq : k \in 1..c})
  /\ UNCHANGED <<finished, gen, seq, admitted>>

LEMMA AcknowledgeSteps ==
  ASSUME SystemInv, NEW ids, Acknowledge(ids)
  PROVE  \E n \in 0..Len(waiting) : \E good \in SUBSET (1..n) : \E c \in Nat : \E p :
           AckStep(ids, n, good, c, p)
<1>0. waiting \in Seq(Messages) /\ toWorker \in Seq(SentRecs) /\ nextId \in Nat \ {0}
      /\ Len(waiting) \in Nat /\ Len(toWorker) \in Nat
  BY SystemFacts
<1>1. PICK n \in 0..Len(waiting) : \E bad \in SUBSET (1..n) : CompleteWith(ids, n, bad)
  BY DEF Acknowledge, Complete
<1>2. PICK bad \in SUBSET (1..n) : CompleteWith(ids, n, bad)  BY <1>1
<1> DEFINE kept == [id \in DOMAIN posted \ ids |-> posted[id]]
<1>3. PICK keptBytes : Drain(kept, keptBytes, n, bad)  BY <1>2 DEF CompleteWith
<1>4. DOMAIN kept = DOMAIN posted \ ids  OBVIOUS
<1> HIDE DEF kept
<1>a. n \in Nat  BY <1>0
<1>5. PICK c \in Nat : \E p :
           /\ Numbering(p, (1..n) \ bad, c)
           /\ toWorker' = toWorker \o InOrderSent(p, c)
  <2>1. HandsOver(n, bad)  BY <1>3, <1>a, DrainSends
  <2> QED BY <2>1 DEF HandsOver
<1>b. PICK p :
           /\ Numbering(p, (1..n) \ bad, c)
           /\ toWorker' = toWorker \o InOrderSent(p, c)
  BY <1>5
<1> DEFINE add == InOrderSent(p, c)
<1>c. \A k \in 1..c : /\ p[k] \in (1..n) \ bad /\ p[k] \in 1..Len(waiting)
                      /\ waiting[p[k]] \in Messages /\ nextId + p[k] - 1 \in Nat \ {0}
  <2> SUFFICES ASSUME NEW k \in 1..c
               PROVE  /\ p[k] \in (1..n) \ bad /\ p[k] \in 1..Len(waiting)
                      /\ waiting[p[k]] \in Messages /\ nextId + p[k] - 1 \in Nat \ {0}
    OBVIOUS
  <2>1. p[k] \in (1..n) \ bad  BY <1>b DEF Numbering
  <2>2. p[k] \in 1..Len(waiting)  BY <2>1, <1>0, <1>a
  <2> QED BY <2>1, <2>2, <1>0, <1>a
<1>d. \A k \in 1..c : add[k] \in SentRecs /\ add[k] = Sent(waiting[p[k]], nextId + p[k] - 1)
  BY <1>c DEF Sent, SentRecs, InOrderSent
<1>e. add = [k \in 1..c |-> add[k]] /\ toWorker' = toWorker \o add  BY <1>b DEF InOrderSent
<1> HIDE DEF add
<1>6. /\ Numbering(p, (1..n) \ bad, c)
      /\ toWorker' \in Seq(SentRecs) /\ Len(toWorker') = Len(toWorker) + c
      /\ \A i \in 1..Len(toWorker) : toWorker'[i] = toWorker[i]
      /\ \A k \in 1..c : toWorker'[Len(toWorker) + k]
                           = Sent(waiting[p[k]], nextId + p[k] - 1)
  BY <1>0, <1>b, <1>d, <1>e, Behind
<1>7. /\ nextId' = nextId + n /\ waiting' = SubSeq(waiting, n + 1, Len(waiting))
      /\ waitingBytes' = waitingBytes - Weight([i \in 1..n |-> waiting[i].bytes])
      /\ posted' = Merge(kept, DrainedPosts(n, bad))
  BY <1>3 DEF Drain
<1>8. DOMAIN posted' = (DOMAIN posted \ ids) \cup {nextId + i - 1 : i \in (1..n) \ bad}
  BY <1>4, <1>7 DEF Merge, DrainedPosts
<1>9. /\ waiting' \in Seq(Messages) /\ Len(waiting') = Len(waiting) - n /\ n \in Nat
      /\ \A j \in 1..Len(waiting') : n + j \in 1..Len(waiting) /\ waiting'[j] = waiting[n + j]
  <2>1. n \in Nat /\ n <= Len(waiting)  BY <1>0
  <2>2. waiting' \in Seq(Messages) /\ Len(waiting') = Len(waiting) - n  BY <1>0, <1>7, <2>1
  <2>3. ASSUME NEW j \in 1..Len(waiting')
        PROVE  n + j \in 1..Len(waiting) /\ waiting'[j] = waiting[n + j]
    <3>1. n + j \in 1..Len(waiting) /\ (n + 1) + j - 1 = n + j  BY <1>0, <2>1, <2>2
    <3>2. waiting'[j] = waiting[(n + 1) + j - 1]  BY <1>0, <1>7, <2>1, <2>2
    <3> QED BY <3>1, <3>2
  <2> QED BY <2>1, <2>2, <2>3
<1>10. waitingBytes' = Weight(BytesOf(waiting')) /\ waitingBytes' <= waitingBytes
  <2>1. /\ Weight([i \in 1..n |-> waiting[i].bytes]) \in Nat
        /\ Weight(BytesOf(waiting)) = Weight([i \in 1..n |-> waiting[i].bytes])
             + Weight(BytesOf(SubSeq(waiting, n + 1, Len(waiting))))
    BY SystemFacts, BytesOfRest
  <2>2. waitingBytes = Weight(BytesOf(waiting))  BY DEF SystemInv, BooksKept
  <2>3. Weight(BytesOf(waiting)) \in Nat /\ Weight(BytesOf(waiting')) \in Nat
    BY <1>9, SystemFacts, BytesOfType
  <2> QED BY <2>1, <2>2, <2>3, <1>7
<1> DEFINE new == [k \in 1..c |-> toWorker'[Len(toWorker) + k].msg]
<1>11. /\ Len(waiting) - Len(waiting') = n /\ Len(toWorker') - Len(toWorker) = c
  BY <1>6, <1>9, SystemFacts
<1>12. /\ sent' = sent \o new
       /\ lost' = lost \cup ({waiting[i].seq : i \in 1..n} \ {new[k].seq : k \in 1..c})
       /\ UNCHANGED <<finished, gen, seq, admitted>>
  BY <1>11 DEF Acknowledge, envVars
<1>14. \A k \in 1..c : /\ toWorker'[Len(toWorker) + k].msg = waiting[p[k]]
                       /\ toWorker'[Len(toWorker) + k].id = nextId + p[k] - 1
  <2> SUFFICES ASSUME NEW k \in 1..c
               PROVE  /\ toWorker'[Len(toWorker) + k].msg = waiting[p[k]]
                      /\ toWorker'[Len(toWorker) + k].id = nextId + p[k] - 1
    OBVIOUS
  <2>1. toWorker'[Len(toWorker) + k] = Sent(waiting[p[k]], nextId + p[k] - 1)  BY <1>6
  <2> QED BY <2>1 DEF Sent
<1>15. new \in Seq(Messages) /\ Len(new) = c /\ \A k \in 1..c : new[k] = waiting[p[k]]
  <2>1. \A k \in 1..c : new[k] = waiting[p[k]] /\ new[k] \in Messages  BY <1>c, <1>14
  <2>2. new = [k \in 1..c |-> new[k]]  OBVIOUS
  <2> HIDE DEF new
  <2> QED BY <2>1, <2>2
<1> HIDE DEF new
<1>b16. \A k \in 1..c : new[k].seq = waiting[p[k]].seq  BY <1>15
<1>16. {new[k].seq : k \in 1..c} = {waiting[p[k]].seq : k \in 1..c}
  BY ONLY <1>b16
<1>17. /\ sent' \in Seq(Messages) /\ Len(sent') = Len(sent) + c
       /\ \A i \in 1..Len(sent) : sent'[i] = sent[i]
       /\ \A k \in 1..c : sent'[Len(sent) + k] = waiting[p[k]]
  <2>1. sent \in Seq(Messages) /\ new = [k \in 1..c |-> new[k]] /\ \A k \in 1..c : new[k] \in Messages
    BY <1>15, SystemFacts
  <2> QED BY <2>1, <1>12, <1>15, Behind
<1>20. AckStep(ids, n, (1..n) \ bad, c, p)
  BY <1>6, <1>7, <1>8, <1>9, <1>10, <1>12, <1>14, <1>16, <1>17 DEF AckStep
<1> QED BY <1>20

(* An acknowledgement releases no credit of a message that is still in the port, and what the
   drain posts goes behind everything sent before. *)
LEMMA AcknowledgeKeeps ==
  ASSUME SystemInv, QueueInv', NEW ids \in Batches, Acknowledge(ids)
  PROVE  SystemInv'
<1>1. PICK n \in 0..Len(waiting) : \E good \in SUBSET (1..n) : \E c \in Nat : \E p :
           AckStep(ids, n, good, c, p)
  BY AcknowledgeSteps
<1>2. PICK good \in SUBSET (1..n) : \E c \in Nat : \E p : AckStep(ids, n, good, c, p)  BY <1>1
<1>3. PICK c \in Nat : \E p : AckStep(ids, n, good, c, p)  BY <1>2
<1>4. PICK p : AckStep(ids, n, good, c, p)  BY <1>3
<1>n. n \in Nat /\ Len(waiting) \in Nat /\ n <= Len(waiting)  BY SystemFacts
<1>5. /\ \A k \in 1..c : p[k] \in good /\ p[k] \in 1..n /\ p[k] \in Nat /\ p[k] \in 1..Len(waiting)
      /\ \A k, l \in 1..c : k < l => p[k] < p[l]
      /\ \A i \in good : \E k \in 1..c : p[k] = i
  <2>1. Numbering(p, good, c)  BY <1>4 DEF AckStep
  <2>2. /\ \A k \in 1..c : p[k] \in good
        /\ \A k, l \in 1..c : k < l => p[k] < p[l]
        /\ \A i \in good : \E k \in 1..c : p[k] = i
    BY <2>1 DEF Numbering
  <2>3. \A i \in good : i \in 1..n /\ i \in Nat /\ i \in 1..Len(waiting)  BY <1>n
  <2> QED BY <2>2, <2>3
<1>6. /\ nextId' = nextId + n
      /\ DOMAIN posted' = (DOMAIN posted \ ids) \cup {nextId + i - 1 : i \in good}
      /\ UNCHANGED <<finished, gen, seq, admitted>>
  BY <1>4 DEF AckStep
<1>7. /\ toWorker' \in Seq(SentRecs) /\ Len(toWorker') = Len(toWorker) + c
      /\ \A i \in 1..Len(toWorker) : toWorker'[i] = toWorker[i]
      /\ \A k \in 1..c : /\ toWorker'[Len(toWorker) + k].msg = waiting[p[k]]
                         /\ toWorker'[Len(toWorker) + k].id = nextId + p[k] - 1
  BY <1>4 DEF AckStep
<1>8. /\ sent' \in Seq(Messages) /\ Len(sent') = Len(sent) + c
      /\ \A i \in 1..Len(sent) : sent'[i] = sent[i]
      /\ \A k \in 1..c : sent'[Len(sent) + k] = waiting[p[k]]
      /\ waiting' \in Seq(Messages) /\ Len(waiting') = Len(waiting) - n
      /\ \A j \in 1..Len(waiting') : n + j \in 1..Len(waiting) /\ waiting'[j] = waiting[n + j]
      /\ lost' = lost \cup ({waiting[i].seq : i \in 1..n} \ {waiting[p[k]].seq : k \in 1..c})
  BY <1>4 DEF AckStep
<1>9. /\ \A i \in 1..Len(toWorker') :
           i \in 1..Len(toWorker) \/ \E k \in 1..c : i = Len(toWorker) + k
      /\ \A i \in 1..Len(sent') : i \in 1..Len(sent) \/ \E k \in 1..c : i = Len(sent) + k
  <2>1. ASSUME NEW i \in 1..Len(toWorker'), i \notin 1..Len(toWorker)
        PROVE  i - Len(toWorker) \in 1..c /\ i = Len(toWorker) + (i - Len(toWorker))
    BY <2>1, <1>7, SystemFacts
  <2>2. ASSUME NEW i \in 1..Len(sent'), i \notin 1..Len(sent)
        PROVE  i - Len(sent) \in 1..c /\ i = Len(sent) + (i - Len(sent))
    BY <2>2, <1>8, SystemFacts
  <2> QED BY <2>1, <2>2
<1>10. \A i \in 1..Len(waiting) : /\ waiting[i] \in Messages /\ waiting[i].gen = gen
                                  /\ waiting[i].seq \in Nat /\ waiting[i].seq \in 1..seq
                                  /\ waiting[i] \in admitted
  <2> SUFFICES ASSUME NEW i \in 1..Len(waiting)
               PROVE  /\ waiting[i] \in Messages /\ waiting[i].gen = gen
                      /\ waiting[i].seq \in Nat /\ waiting[i].seq \in 1..seq
                      /\ waiting[i] \in admitted
    OBVIOUS
  <2>1. waiting[i] \in Messages /\ waiting[i].gen = gen /\ waiting[i] \in admitted
        /\ waiting[i].seq <= seq
    BY SystemFacts DEF SystemInv, LineKept, AdmittedKept
  <2>2. waiting[i].seq \in 1..MaxSubmits /\ waiting[i].seq \in Nat  BY <2>1, MessageFields
  <2>3. waiting[i].seq \in 1..seq  BY <2>1, <2>2, SystemFacts, CallersAssumption
  <2> QED BY <2>1, <2>2, <2>3
<1>11. \A i \in 1..Len(toWorker) : toWorker[i].id \notin ids
  <2>1. ids \subseteq {f.id : f \in finished}  BY DEF Batches
  <2> SUFFICES ASSUME NEW i \in 1..Len(toWorker), toWorker[i].id \in ids  PROVE FALSE  OBVIOUS
  <2>2. PICK f \in finished : f.id = toWorker[i].id  BY <2>1
  <2>3. f.id < toWorker[i].id /\ toWorker[i].id \in Nat  BY SystemFacts DEF SystemInv, PortOK
  <2> QED BY <2>2, <2>3
<1>12. PortOK'
  <2>1. ASSUME NEW i \in 1..Len(toWorker')
        PROVE  toWorker'[i].id < nextId' /\ toWorker'[i].msg.gen <= gen'
    <3>1. CASE i \in 1..Len(toWorker)
      <4>1. toWorker[i].id < nextId /\ toWorker[i].msg.gen <= gen /\ toWorker[i].id \in Nat
            /\ nextId \in Nat
        BY <3>1, SystemFacts DEF SystemInv, PortOK
      <4>2. toWorker'[i] = toWorker[i]  BY <3>1, <1>7
      <4> QED BY <4>1, <4>2, <1>6, <1>n
    <3>2. ASSUME NEW k \in 1..c, i = Len(toWorker) + k
          PROVE  toWorker'[i].id < nextId' /\ toWorker'[i].msg.gen <= gen'
      <4>1. toWorker'[i].msg = waiting[p[k]] /\ toWorker'[i].id = nextId + p[k] - 1
        BY <3>2, <1>7
      <4>2. waiting[p[k]].gen = gen /\ p[k] \in 1..n  BY <1>5, <1>10
      <4>3. nextId \in Nat /\ gen \in Nat  BY SystemFacts
      <4> QED BY <4>1, <4>2, <4>3, <1>6, <1>n
    <3> QED BY <3>1, <3>2, <1>9
  <2>2. ASSUME NEW i \in 1..Len(toWorker'), NEW j \in 1..Len(toWorker'), i < j
        PROVE  toWorker'[i].id < toWorker'[j].id
    <3>1. CASE j \in 1..Len(toWorker)
      <4>1. i \in 1..Len(toWorker)  BY <2>2, <3>1, <1>7, SystemFacts
      <4> QED BY <2>2, <3>1, <4>1, <1>7 DEF SystemInv, PortOK
    <3>2. ASSUME NEW l \in 1..c, j = Len(toWorker) + l  PROVE toWorker'[i].id < toWorker'[j].id
      <4>1. CASE i \in 1..Len(toWorker)
        <5>1. toWorker'[i].id < nextId /\ toWorker'[i].id \in Nat  BY <4>1, <1>7, SystemFacts
        <5>2. toWorker'[j].id = nextId + p[l] - 1 /\ p[l] \in 1..n  BY <3>2, <1>5, <1>7
        <5> QED BY <5>1, <5>2, <1>n, SystemFacts, SMTT(30)
      <4>2. ASSUME NEW k \in 1..c, i = Len(toWorker) + k  PROVE toWorker'[i].id < toWorker'[j].id
        <5>1. k < l  BY <2>2, <3>2, <4>2, SystemFacts
        <5>2. p[k] < p[l] /\ p[k] \in Nat /\ p[l] \in Nat  BY <5>1, <1>5
        <5>3. /\ toWorker'[j].id = nextId + p[l] - 1
              /\ toWorker'[i].id = nextId + p[k] - 1
          BY <3>2, <4>2, <1>7
        <5> QED BY <5>2, <5>3, SystemFacts, SMTT(30)
      <4> QED BY <4>1, <4>2, <1>9
    <3> QED BY <3>1, <3>2, <1>9
  <2>3. finished' \subseteq [gen : 0..gen', id : 1..(nextId' - 1)]
    <3>1. 1..(nextId - 1) \subseteq 1..(nextId' - 1)  BY <1>6, <1>n, SystemFacts
    <3> QED BY <3>1, <1>6 DEF SystemInv, PortOK
  <2>4. ASSUME NEW f \in finished', NEW i \in 1..Len(toWorker')  PROVE f.id < toWorker'[i].id
    <3>1. f \in finished /\ f.id \in 1..(nextId - 1)  BY <1>6 DEF SystemInv, PortOK
    <3>2. CASE i \in 1..Len(toWorker)  BY <3>1, <3>2, <1>7 DEF SystemInv, PortOK
    <3>3. ASSUME NEW k \in 1..c, i = Len(toWorker) + k  PROVE f.id < toWorker'[i].id
      <4>1. toWorker'[i].id = nextId + p[k] - 1 /\ p[k] \in 1..n  BY <3>3, <1>5, <1>7
      <4> QED BY <3>1, <4>1, <1>n, SystemFacts, SMTT(30)
    <3> QED BY <3>2, <3>3, <1>9
  <2> QED BY <2>1, <2>2, <2>3, <2>4, <1>7 DEF PortOK, SentRecs, Messages
<1>13. CreditsMatchWorker'
  <2>1. ASSUME NEW i \in 1..Len(toWorker'), toWorker'[i].msg.gen = gen'
        PROVE  toWorker'[i].id \in DOMAIN posted'
    <3>1. CASE i \in 1..Len(toWorker)
      <4>1. toWorker[i].id \in DOMAIN posted
        BY <2>1, <3>1, <1>6, <1>7, SystemFacts DEF SystemInv, CreditsMatchWorker
      <4> QED BY <3>1, <4>1, <1>6, <1>7, <1>11
    <3>2. ASSUME NEW k \in 1..c, i = Len(toWorker) + k  PROVE toWorker'[i].id \in DOMAIN posted'
      <4>1. toWorker'[i].id = nextId + p[k] - 1 /\ p[k] \in good  BY <3>2, <1>5, <1>7
      <4> QED BY <4>1, <1>6
    <3> QED BY <3>1, <3>2, <1>9
  <2>2. ASSUME NEW id \in DOMAIN posted'
        PROVE  \/ \E i \in 1..Len(toWorker') : toWorker'[i].id = id /\ toWorker'[i].msg.gen = gen'
               \/ [gen |-> gen', id |-> id] \in finished'
    <3>1. CASE id \in DOMAIN posted
      <4>1. CASE [gen |-> gen, id |-> id] \in finished  BY <4>1, <1>6
      <4>2. CASE \E i \in DOMAIN toWorker : toWorker[i].id = id /\ toWorker[i].msg.gen = gen
        <5>1. PICK i \in 1..Len(toWorker) : toWorker[i].id = id /\ toWorker[i].msg.gen = gen
          BY <4>2, SystemFacts
        <5>2. i \in 1..Len(toWorker') /\ toWorker'[i] = toWorker[i]  BY <1>7, SystemFacts
        <5> QED BY <5>1, <5>2, <1>6
      <4> QED BY <3>1, <4>1, <4>2 DEF SystemInv, CreditsMatchWorker
    <3>2. ASSUME NEW i \in good, id = nextId + i - 1
          PROVE  \E j \in 1..Len(toWorker') : toWorker'[j].id = id /\ toWorker'[j].msg.gen = gen'
      <4>1. PICK k \in 1..c : p[k] = i  BY <1>5
      <4>2. Len(toWorker) + k \in 1..Len(toWorker')  BY <1>7, SystemFacts
      <4>3. toWorker'[Len(toWorker) + k].id = id /\ toWorker'[Len(toWorker) + k].msg.gen = gen'
        BY <3>2, <4>1, <1>5, <1>6, <1>7, <1>10, SMTT(30)
      <4> QED BY <4>2, <4>3
    <3> QED BY <3>1, <3>2, <1>6
  <2>3. DOMAIN toWorker' = 1..Len(toWorker')  BY <1>7
  <2> QED BY <2>1, <2>2, <2>3 DEF CreditsMatchWorker
<1>14. /\ InOrder(waiting) /\ InOrder(sent)
       /\ \A i \in 1..Len(sent) : \A j \in 1..Len(waiting) : sent[i].seq < waiting[j].seq
  BY DEF SystemInv, LineKept
<1>15. LineKept'
  <2>1. ASSUME NEW i \in 1..Len(sent'), NEW j \in 1..Len(sent'), i < j
        PROVE  sent'[i].seq < sent'[j].seq
    <3>1. CASE j \in 1..Len(sent)
      <4>1. i \in 1..Len(sent)  BY <2>1, <3>1, <1>8, SystemFacts
      <4> QED BY <2>1, <3>1, <4>1, <1>8, <1>14 DEF InOrder
    <3>2. ASSUME NEW l \in 1..c, j = Len(sent) + l  PROVE sent'[i].seq < sent'[j].seq
      <4>1. CASE i \in 1..Len(sent)  BY <3>2, <4>1, <1>5, <1>8, <1>14
      <4>2. ASSUME NEW k \in 1..c, i = Len(sent) + k  PROVE sent'[i].seq < sent'[j].seq
        <5>1. k < l  BY <2>1, <3>2, <4>2, SystemFacts
        <5>2. p[k] < p[l] /\ p[k] \in 1..Len(waiting) /\ p[l] \in 1..Len(waiting)  BY <5>1, <1>5
        <5>3. sent'[j] = waiting[p[l]] /\ sent'[i] = waiting[p[k]]  BY <3>2, <4>2, <1>8
        <5> QED BY <5>2, <5>3, <1>14 DEF InOrder
      <4> QED BY <4>1, <4>2, <1>9
    <3> QED BY <3>1, <3>2, <1>9
  <2>2. ASSUME NEW i \in 1..Len(waiting'), NEW j \in 1..Len(waiting'), i < j
        PROVE  waiting'[i].seq < waiting'[j].seq
    <3>1. n + i < n + j  BY <2>2, <1>n, <1>8
    <3> QED BY <3>1, <1>8, <1>14 DEF InOrder
  <2>3. ASSUME NEW i \in 1..Len(sent'), NEW j \in 1..Len(waiting')
        PROVE  sent'[i].seq < waiting'[j].seq
    <3>1. CASE i \in 1..Len(sent)  BY <3>1, <1>8, <1>14
    <3>2. ASSUME NEW k \in 1..c, i = Len(sent) + k  PROVE sent'[i].seq < waiting'[j].seq
      <4>1. p[k] < n + j  BY <1>5, <1>8, <1>n
      <4> QED BY <3>2, <4>1, <1>5, <1>8, <1>14 DEF InOrder
    <3> QED BY <3>1, <3>2, <1>9
  <2>4. ASSUME NEW j \in 1..Len(waiting')  PROVE waiting'[j].gen = gen'
    <3>1. n + j \in 1..Len(waiting) /\ waiting'[j] = waiting[n + j]  BY <1>8
    <3> QED BY <3>1, <1>6, <1>10
  <2>5. InOrder(sent)' /\ InOrder(waiting)'  BY <2>1, <2>2 DEF InOrder
  <2> QED BY <2>3, <2>4, <2>5, <1>8 DEF LineKept, Messages
<1>16. AdmittedKept'
  <2>1. ASSUME NEW i \in 1..Len(sent')  PROVE sent'[i] \in admitted'
    <3>1. CASE i \in 1..Len(sent)
      <4>1. sent[i] \in admitted  BY <3>1 DEF SystemInv, AdmittedKept
      <4> QED BY <3>1, <4>1, <1>6, <1>8
    <3>2. ASSUME NEW k \in 1..c, i = Len(sent) + k  PROVE sent'[i] \in admitted'
      <4>1. sent'[i] = waiting[p[k]] /\ waiting[p[k]] \in admitted  BY <3>2, <1>5, <1>8, <1>10
      <4> QED BY <4>1, <1>6
    <3> QED BY <3>1, <3>2, <1>9
  <2>2. \A j \in 1..Len(waiting') : waiting'[j] \in admitted'  BY <1>6, <1>8, <1>10
  <2>3. lost' \subseteq 1..seq'
    <3>1. 1..n \subseteq 1..Len(waiting)  BY <1>n
    <3>2. \A i \in 1..n : waiting[i].seq \in 1..seq  BY <3>1, <1>10
    <3>3. lost \subseteq 1..seq  BY DEF SystemInv, AdmittedKept
    <3>4. ASSUME NEW x \in lost'  PROVE x \in 1..seq
      <4>1. CASE x \in lost  BY <4>1, <3>3
      <4>2. CASE \E i \in 1..n : x = waiting[i].seq  BY <4>2, <3>2
      <4> QED BY <4>1, <4>2, <1>8
    <3> QED BY <3>4, <1>6
  <2>4. ASSUME NEW x \in lost', NEW j \in 1..Len(waiting')  PROVE x < waiting'[j].seq
    <3>1. CASE x \in lost  BY <3>1, <1>8 DEF SystemInv, AdmittedKept
    <3>2. ASSUME NEW i \in 1..n, x = waiting[i].seq  PROVE x < waiting'[j].seq
      <4>1. i < n + j /\ i \in 1..Len(waiting)  BY <1>n, <1>8
      <4> QED BY <3>2, <4>1, <1>8, <1>14 DEF InOrder
    <3> QED BY <3>1, <3>2, <1>8
  <2> QED BY <2>1, <2>2, <2>3, <2>4, <1>6 DEF SystemInv, AdmittedKept, Messages
<1>17. CoalescingIsInvisible'
  <2>1. ASSUME NEW m \in InLine  PROVE m \in InLine' \/ m.seq \in lost'
    <3>1. CASE \E i \in 1..Len(sent) : m = sent[i]
      <4>1. PICK i \in 1..Len(sent) : m = sent[i]  BY <3>1
      <4>2. i \in DOMAIN sent' /\ sent'[i] = m  BY <4>1, <1>8, SystemFacts
      <4> QED BY <4>2 DEF InLine
    <3>2. CASE \E i \in 1..Len(waiting) : m = waiting[i]
      <4>1. PICK i \in 1..Len(waiting) : m = waiting[i]  BY <3>2
      <4>2. CASE i > n
        <5>1. i - n \in 1..Len(waiting') /\ n + (i - n) = i  BY <4>2, <1>8, <1>n
        <5>2. i - n \in DOMAIN waiting' /\ waiting'[i - n] = m  BY <5>1, <4>1, <1>8
        <5> QED BY <5>2 DEF InLine
      <4>3. CASE i \in good
        <5>1. PICK k \in 1..c : p[k] = i  BY <4>3, <1>5
        <5>2. sent'[Len(sent) + k] = m  BY <5>1, <4>1, <1>8
        <5>3. Len(sent) + k \in 1..Len(sent')  BY <1>8, SystemFacts
        <5>4. Len(sent) + k \in DOMAIN sent'  BY <5>3, <1>8
        <5> QED BY <5>2, <5>4 DEF InLine
      <4>4. CASE i \notin good /\ i <= n
        <5>1. i \in 1..n  BY <4>4, <1>n
        <5>2. ASSUME NEW k \in 1..c  PROVE m.seq # waiting[p[k]].seq
          <6>1. p[k] # i /\ p[k] \in 1..Len(waiting)  BY <4>4, <1>5
          <6>2. p[k] < i \/ i < p[k]  BY <6>1, <1>n
          <6>3. waiting[p[k]].seq < waiting[i].seq \/ waiting[i].seq < waiting[p[k]].seq
            BY <6>1, <6>2, <1>14 DEF InOrder
          <6> QED BY <6>1, <6>3, <4>1, <1>10
        <5> QED BY <5>1, <5>2, <4>1, <1>8
      <4> QED BY <4>2, <4>3, <4>4, <1>n
    <3> QED BY <3>1, <3>2, SystemFacts DEF InLine
  <2>2. Gone' \subseteq Gone
    BY <2>1, <1>6, <1>8 DEF Gone
  <2> QED BY <2>2, <1>6, InvisibleKeeps
<1>18. BooksKept'
  <2>1. /\ waitingBytes' = Weight(BytesOf(waiting')) /\ waitingBytes' <= waitingBytes
        /\ Weight(BytesOf(waiting')) \in Nat
    BY <1>4, <1>8, BytesOfType DEF AckStep
  <2>2. waitingBytes <= PendingBytes /\ waitingBytes \in Nat /\ PendingBytes \in Nat
    <3>1. Weight(BytesOf(waiting)) \in Nat  BY SystemFacts, BytesOfType
    <3> QED BY <3>1, BudgetsAssumption DEF SystemInv, BooksKept
  <2>3. waitingBytes' <= PendingBytes  BY <2>1, <2>2
  <2>4. Len(waiting) <= PendingCount + ControlReserve /\ PendingCount \in Nat /\ ControlReserve \in Nat
        /\ Cardinality(NotControl(waiting)) <= PendingCount
    BY BudgetsAssumption DEF SystemInv, BooksKept
  <2>5. Len(waiting') <= PendingCount + ControlReserve  BY <2>4, <1>8, <1>n
  <2>6. Cardinality(NotControl(waiting')) <= PendingCount
    <3> DEFINE f == [j \in NotControl(waiting') |-> n + j]
    <3>1. f \in [NotControl(waiting') -> NotControl(waiting)]
      <4>1. ASSUME NEW j \in NotControl(waiting')  PROVE n + j \in NotControl(waiting)
        BY <1>8 DEF NotControl
      <4> QED BY <4>1
    <3>2. \A i, j \in NotControl(waiting') : f[i] = f[j] => i = j
      BY <1>n, <1>8 DEF NotControl
    <3>3. IsFiniteSet(NotControl(waiting'))
      <4>1. IsFiniteSet(1..Len(waiting')) /\ NotControl(waiting') \subseteq 1..Len(waiting')
        BY <1>8, <1>n, FS_Interval DEF NotControl
      <4> QED BY <4>1, FS_Subset
    <3>4. IsFiniteSet(NotControl(waiting))
      <4>1. IsFiniteSet(1..Len(waiting)) /\ NotControl(waiting) \subseteq 1..Len(waiting)
        BY <1>n, FS_Interval DEF NotControl
      <4> QED BY <4>1, FS_Subset
    <3>5. f \in Injection(NotControl(waiting'), NotControl(waiting))
      <4> HIDE DEF f
      <4> QED BY <3>1, <3>2 DEF Injection, IsInjective
    <3>6. Cardinality(NotControl(waiting')) <= Cardinality(NotControl(waiting))
      <4> HIDE DEF f
      <4> QED BY <3>3, <3>4, <3>5, FS_Injection
    <3>7. Cardinality(NotControl(waiting')) \in Nat /\ Cardinality(NotControl(waiting)) \in Nat
      BY <3>3, <3>4, FS_CardinalityType
    <3> HIDE DEF f
    <3> QED BY <3>6, <3>7, <2>4
  <2> QED BY <2>1, <2>3, <2>5, <2>6 DEF BooksKept, BytesOf, Weight, ByteTokens, NotControl
<1> QED BY <1>12, <1>13, <1>15, <1>16, <1>17, <1>18 DEF SystemInv

-----------------------------------------------------------------------------
LEMMA SystemInvInit == Init => SystemInv
<1> SUFFICES ASSUME Init  PROVE SystemInv  OBVIOUS
<1>1. /\ nextId = 1 /\ posted = << >> /\ waiting = << >> /\ waitingBytes = 0 /\ toWorker = << >>
      /\ finished = {} /\ gen = 0 /\ seq = 0 /\ admitted = {} /\ sent = << >> /\ lost = {}
  BY DEF Init, InitQueue
<1>2. /\ Len(waiting) = 0 /\ Len(sent) = 0 /\ Len(toWorker) = 0 /\ DOMAIN posted = {}
      /\ 1..Len(waiting) = {} /\ 1..Len(sent) = {} /\ 1..Len(toWorker) = {}
      /\ DOMAIN waiting = {} /\ DOMAIN toWorker = {}
  BY <1>1
<1>3. QueueInv  BY QueueInvInit
<1>4. PortOK  BY <1>1, <1>2 DEF PortOK
<1>5. CreditsMatchWorker  BY <1>2 DEF CreditsMatchWorker
<1>6. LineKept  BY <1>1, <1>2 DEF LineKept, InOrder
<1>7. AdmittedKept  BY <1>1, <1>2 DEF AdmittedKept
<1>8. CoalescingIsInvisible  BY <1>1 DEF CoalescingIsInvisible
<1>9. BooksKept
  <2>1. DOMAIN BytesOf(waiting) = {}  BY <1>2 DEF BytesOf
  <2>2. Weight(BytesOf(waiting)) = 0  BY <2>1, WeightEmpty
  <2>3. NotControl(waiting) = {}  BY <1>2 DEF NotControl
  <2>4. Cardinality(NotControl(waiting)) = 0  BY <2>3, FS_EmptySet
  <2> QED BY <2>2, <2>4, <1>1, <1>2, BudgetsAssumption DEF BooksKept
<1> QED BY <1>3, <1>4, <1>5, <1>6, <1>7, <1>8, <1>9 DEF SystemInv

LEMMA SystemInvStep == SystemInv /\ [Next]_vars => SystemInv'
<1> SUFFICES ASSUME SystemInv, [Next]_vars  PROVE SystemInv'  OBVIOUS
<1>1. QueueInv'  BY QueueInvStep DEF SystemInv
<1>2. nextId \in Nat /\ seq \in Nat  BY SystemFacts
<1>3. ASSUME NEW w \in Works, SubmitAndPost(w)  PROVE SystemInv'
  BY <1>1, <1>3, SubmitAndPostKeeps
<1>4. ASSUME NEW w \in Works, SubmitAndFail(w)  PROVE SystemInv'
  <2>1. /\ UNCHANGED <<posted, waiting, waitingBytes, toWorker, finished, gen, admitted, sent, lost>>
        /\ nextId' = nextId + 1 /\ seq' = seq + 1
    BY <1>4 DEF SubmitAndFail, Submitting, SubmitFailed, history
  <2> QED BY <2>1, <1>1, <1>2, QuietKeeps
<1>5. ASSUME NEW w \in Works, SubmitAndWait(w)  PROVE SystemInv'
  BY <1>1, <1>5, SubmitAndWaitKeeps
<1>6. ASSUME NEW w \in Works, SubmitAndReject(w)  PROVE SystemInv'
  <2>1. /\ UNCHANGED <<posted, waiting, waitingBytes, toWorker, finished, gen, admitted, sent, lost>>
        /\ nextId' = nextId /\ seq' = seq + 1
    BY <1>6 DEF SubmitAndReject, Submitting, SubmitRejected, history, queueVars
  <2> QED BY <2>1, <1>1, <1>2, QuietKeeps
<1>7. CASE WorkerFinishes  BY <1>1, <1>7, WorkerFinishesKeeps
<1>8. CASE AcknowledgeSome  BY <1>1, <1>8, AcknowledgeKeeps DEF AcknowledgeSome
<1>9. CASE ChangeGeneration  BY <1>1, <1>9, ChangeGenerationKeeps
<1>10. CASE UNCHANGED vars
  <2>1. /\ UNCHANGED <<posted, waiting, waitingBytes, toWorker, finished, gen, admitted, sent, lost>>
        /\ nextId' = nextId /\ seq' = seq
    BY <1>10 DEF vars, queueVars, envVars, history
  <2> QED BY <2>1, <1>1, <1>2, QuietKeeps
<1> QED BY <1>3, <1>4, <1>5, <1>6, <1>7, <1>8, <1>9, <1>10 DEF Next

(* The invariant gives what the runs check. *)
LEMMA SystemInvServes == SystemInv => WorkReachesWorker
<1> SUFFICES ASSUME SystemInv  PROVE WorkReachesWorker  OBVIOUS
<1>1. BytesOf(waiting) = [i \in DOMAIN waiting |-> waiting[i].bytes]  BY DEF BytesOf
<1>2. WaitingWeight = Weight(BytesOf(waiting)) /\ WaitingWeight \in Nat
  BY <1>1, SystemFacts, BytesOfType DEF WaitingWeight
<1>3. BytesAccountedFor
  BY <1>2 DEF BytesAccountedFor, SystemInv, BooksKept, QueueInv, PostedOK
<1>4. WaitingWithinBudget
  <2>1. {i \in DOMAIN waiting : waiting[i].kind # "control"} = NotControl(waiting)
    BY SystemFacts DEF NotControl
  <2> QED BY <2>1, <1>2 DEF WaitingWithinBudget, SystemInv, BooksKept
<1>5. TypeOK
  <2>1. /\ nextId \in Nat \ {0} /\ DOMAIN posted \in SUBSET (1..(nextId - 1))
        /\ waiting \in Seq(Messages) /\ sent \in Seq(Messages)
    BY SystemFacts
  <2>2. \A id \in DOMAIN posted : posted[id] \in Nat
    BY DEF SystemInv, QueueInv, PostedOK, IsByteMap
  <2>3. postedBytes \in Nat
    BY WeightType DEF SystemInv, QueueInv, PostedOK
  <2>4. waitingBytes \in Int  BY <1>2 DEF SystemInv, BooksKept, WaitingWeight, BytesOf
  <2>5. \A i \in DOMAIN toWorker :
          toWorker[i].id \in 1..(nextId - 1) /\ toWorker[i].msg \in Messages
    BY SystemFacts
  <2>6. finished \subseteq [gen : 0..gen, id : 1..(nextId - 1)]  BY DEF SystemInv, PortOK
  <2>7. gen \in 0..MaxResets /\ seq \in 0..MaxSubmits  BY DEF SystemInv, QueueInv
  <2>8. admitted \subseteq Messages /\ lost \subseteq 1..seq  BY DEF SystemInv, AdmittedKept
  <2> QED BY <2>1, <2>2, <2>3, <2>4, <2>5, <2>6, <2>7, <2>8 DEF TypeOK
<1>6. SubmissionOrder
  <2> DEFINE both == sent \o waiting
  <2>1. /\ both \in Seq(Messages) /\ Len(both) = Len(sent) + Len(waiting)
        /\ \A i \in 1 .. Len(sent) + Len(waiting) :
             both[i] = IF i <= Len(sent) THEN sent[i] ELSE waiting[i - Len(sent)]
    BY SystemFacts, ConcatProperties
  <2> HIDE DEF both
  <2>2. Len(sent) \in Nat /\ Len(waiting) \in Nat  BY SystemFacts
  <2>3. /\ InOrder(sent) /\ InOrder(waiting)
        /\ \A i \in 1..Len(sent) : \A j \in 1..Len(waiting) : sent[i].seq < waiting[j].seq
    BY DEF SystemInv, LineKept
  <2>4. ASSUME NEW i \in 1..Len(both), NEW j \in 1..Len(both), i < j
        PROVE  both[i].seq < both[j].seq
    <3>1. CASE j <= Len(sent)
      <4>1. i \in 1..Len(sent) /\ j \in 1..Len(sent)  BY <2>1, <2>2, <2>4, <3>1
      <4>2. both[i] = sent[i] /\ both[j] = sent[j]  BY <2>1, <2>2, <4>1
      <4> QED BY <4>1, <4>2, <2>3, <2>4 DEF InOrder
    <3>2. CASE i <= Len(sent) /\ ~(j <= Len(sent))
      <4>1. i \in 1..Len(sent) /\ j - Len(sent) \in 1..Len(waiting)  BY <2>1, <2>2, <3>2
      <4>2. both[i] = sent[i] /\ both[j] = waiting[j - Len(sent)]  BY <2>1, <3>2
      <4> QED BY <4>1, <4>2, <2>3
    <3>3. CASE ~(i <= Len(sent))
      <4>1. /\ i - Len(sent) \in 1..Len(waiting) /\ j - Len(sent) \in 1..Len(waiting)
            /\ i - Len(sent) < j - Len(sent) /\ ~(j <= Len(sent))
        BY <2>1, <2>2, <2>4, <3>3
      <4>2. both[i] = waiting[i - Len(sent)] /\ both[j] = waiting[j - Len(sent)]
        BY <2>1, <3>3, <4>1
      <4> QED BY <4>1, <4>2, <2>3 DEF InOrder
    <3> QED BY <3>1, <3>2, <3>3
  <2>5. DOMAIN both = 1..Len(both)  BY <2>1
  <2>6. \A i, j \in DOMAIN both : i < j => both[i].seq < both[j].seq  BY <2>4, <2>5
  <2> QED BY <2>6 DEF SubmissionOrder, both
<1> QED BY <1>3, <1>4, <1>5, <1>6 DEF WorkReachesWorker, AccountsKept, SystemInv

(* The app's work reaches the worker, whatever callers submit, whatever postMessage drops and
   however late, often or out of season acknowledgements arrive (submit, drain, complete and
   reset of worker/hid-work-queue-host.ts). *)
THEOREM WorkAlwaysReachesWorker == Spec => []WorkReachesWorker
<1>1. Spec => []SystemInv
  BY SystemInvInit, SystemInvStep, PTL DEF Spec
<1> QED BY <1>1, SystemInvServes, PTL

(* Only the messages that are not control messages are limited to the pending count, so a
   queue that is full for a control message holds the whole reserve in control messages. *)
LEMMA RejectedControl ==
  ASSUME SystemInv, NEW w \in Works, w.kind = "control", SubmitAndReject(w)
  PROVE  Cardinality({i \in DOMAIN waiting : waiting[i].kind = "control"}) >= ControlReserve
<1> DEFINE m == Message(w)
           reserved == {i \in DOMAIN waiting : waiting[i].kind = "control"}
<1>1. m.kind = "control" /\ m.key = NoKey /\ m.bytes = 0
  BY DEF Works, Message
<1>2. /\ waiting \in Seq(Messages) /\ Len(waiting) \in Nat /\ DOMAIN waiting = 1..Len(waiting)
  BY SystemFacts
<1>3. /\ PostedBytes \in Nat /\ PendingBytes \in Nat /\ PendingCount \in Nat
      /\ ControlReserve \in Nat
  BY BudgetsAssumption
<1>4. ~FitsWaiting(m)
  <2>1. IsRejected(m)  BY DEF SubmitAndReject, SubmitRejected
  <2>2. ~(0 > PostedBytes)  BY <1>3
  <2>3. ~(m.bytes > PostedBytes)  BY <1>1, <2>2
  <2> QED BY <2>1, <2>3 DEF IsRejected
<1>5. SupersededIndex(m.key) = 0  BY <1>1 DEF SupersededIndex
<1>6. Without(0) = waiting /\ FreedBytes(0) = 0  BY DEF Without, FreedBytes
<1>7. CountLimit(m) = PendingCount + ControlReserve  BY <1>1 DEF CountLimit
<1>8. ~(Len(waiting) < PendingCount + ControlReserve /\ waitingBytes - 0 + 0 <= PendingBytes)
  BY <1>1, <1>4, <1>5, <1>6, <1>7 DEF FitsWaiting
<1>9. waitingBytes \in Nat /\ waitingBytes <= PendingBytes
      /\ Cardinality(NotControl(waiting)) <= PendingCount
  BY <1>2, BytesOfType DEF SystemInv, BooksKept
<1>10. Len(waiting) >= PendingCount + ControlReserve
  BY ONLY <1>2, <1>3, <1>8, <1>9
<1>11. /\ IsFiniteSet(1..Len(waiting)) /\ Cardinality(1..Len(waiting)) = Len(waiting)
  BY ONLY <1>2, FS_Interval
<1>12. /\ reserved = (1..Len(waiting)) \ NotControl(waiting)
       /\ NotControl(waiting) \subseteq 1..Len(waiting)
  BY <1>2 DEF NotControl
<1>13. /\ Cardinality(reserved) = Cardinality(1..Len(waiting)) - Cardinality(NotControl(waiting))
       /\ Cardinality(NotControl(waiting)) \in Nat
  <2> HIDE DEF reserved
  <2>1. IsFiniteSet(NotControl(waiting))  BY <1>11, <1>12, FS_Subset
  <2>2. (1..Len(waiting)) \cap NotControl(waiting) = NotControl(waiting)  BY <1>12
  <2>3. Cardinality((1..Len(waiting)) \ NotControl(waiting))
          = Cardinality(1..Len(waiting)) - Cardinality((1..Len(waiting)) \cap NotControl(waiting))
    BY <1>11, FS_Difference
  <2> QED BY <1>12, <2>1, <2>2, <2>3, FS_CardinalityType
<1> HIDE DEF reserved
<1>14. Cardinality(reserved) >= ControlReserve
  BY ONLY <1>2, <1>3, <1>9, <1>10, <1>11, <1>13
<1> QED BY <1>14 DEF reserved

(* A backlog of frames never costs a control message its place (HidWorkQueue.submit): a control
   message is rejected only when other control messages fill the whole reserve. *)
THEOREM ControlKeepsItsPlace == Spec => FramesNeverCostControl
<1>1. Spec => []SystemInv
  BY SystemInvInit, SystemInvStep, PTL DEF Spec
<1>2. SystemInv /\ [Next]_vars =>
        [\A w \in Works : (w.kind = "control" /\ SubmitAndReject(w)) =>
           Cardinality({i \in DOMAIN waiting : waiting[i].kind = "control"}) >= ControlReserve]_vars
  BY RejectedControl
<1> QED BY <1>1, <1>2, PTL DEF Spec, FramesNeverCostControl

-----------------------------------------------------------------------------
(* The thread at the other end of the port.  An open in flight has its device: nothing but
   the link that awaits takes it away. *)
OpeningHasDevice ==
  awaiting => line # << >> /\ (line[1].type = "open" => driver # "none")

WindowInv == BatchInv /\ BatchTypeOK /\ WindowArmed /\ OpeningHasDevice

LEMMA WindowFacts ==
  ASSUME WindowInv
  PROVE  /\ arrived \in Nat /\ arrived <= MaxMessages /\ MaxMessages \in Nat
         /\ BatchCap \in Nat \ {0}
         /\ line \in Seq(Entries) /\ Len(line) \in Nat /\ DOMAIN line = 1..Len(line)
         /\ Len(line) <= arrived
         /\ \A i \in 1..Len(line) :
              /\ line[i] \in Entries /\ line[i].n \in 1..MaxMessages /\ line[i].type \in Types
              /\ line[i].link \in 0..MaxMessages
         /\ \A i \in 1..Len(line) : line[i].link = 0 =>
              /\ line[i].type = "batched" /\ Len(line) < i + BatchCap - 1
              /\ \A j \in i..Len(line) : line[j].link = 0
         /\ timer <=> \E i \in 1..Len(line) : line[i].link = 0
<1>1. /\ arrived \in Nat /\ arrived <= MaxMessages /\ arrived = Len(answered) + Len(line)
      /\ line \in Seq(Entries) /\ answered \in Seq(1..MaxMessages)
  BY DEF WindowInv, BatchInv, BatchTypeOK
<1>2. Len(line) \in Nat /\ DOMAIN line = 1..Len(line) /\ Len(line) <= arrived  BY <1>1
<1>3. \A i \in 1..Len(line) : line[i] \in Entries  BY <1>1
<1>4. \A i \in 1..Len(line) : line[i].link = 0 =>
        /\ line[i].type = "batched" /\ Len(line) < i + BatchCap - 1
        /\ \A j \in i..Len(line) : line[j].link = 0
  BY <1>2 DEF WindowInv, WindowArmed, Pending
<1>5. timer <=> \E i \in 1..Len(line) : line[i].link = 0
  BY <1>2 DEF WindowInv, WindowArmed, Pending
<1> QED BY <1>1, <1>2, <1>3, <1>4, <1>5, BatchAssumption DEF Entries

(* A line that has just been enqueued: nothing is collected any more. *)
LEMMA EnqueuedWindow ==
  ASSUME NEW s \in Seq(Entries), NEW link \in 0..MaxMessages, Len(s) > 0 => link # 0
  PROVE  /\ Enqueued(s, link) \in Seq(Entries) /\ Len(Enqueued(s, link)) = Len(s)
         /\ \A i \in 1..Len(s) : /\ Enqueued(s, link)[i].link # 0
                                 /\ Enqueued(s, link)[i].type = s[i].type
<1> DEFINE t == Enqueued(s, link)
<1>1. Len(s) \in Nat /\ DOMAIN s = 1..Len(s)  OBVIOUS
<1>2. ASSUME NEW i \in 1..Len(s)
      PROVE  t[i] \in Entries /\ t[i].link # 0 /\ t[i].type = s[i].type
  <2>1. s[i] \in Entries  BY <1>1
  <2>2. t[i] = [n |-> s[i].n, type |-> s[i].type,
                link |-> IF s[i].link = 0 THEN link ELSE s[i].link]
    BY <1>1 DEF Enqueued
  <2>3. link # 0  BY <1>1
  <2> QED BY <2>1, <2>2, <2>3 DEF Entries
<1>3. t = [i \in 1..Len(s) |-> t[i]]  BY <1>1 DEF Enqueued
<1> HIDE DEF t
<1>4. t \in Seq(Entries) /\ Len(t) = Len(s)  BY <1>1, <1>2, <1>3
<1> QED BY <1>2, <1>4 DEF t

(* Nothing collected: the window is closed. *)
LEMMA ClosedWindow ==
  ASSUME line' \in Seq(Entries), timer' = FALSE, \A i \in 1..Len(line') : line'[i].link # 0
  PROVE  WindowArmed'
<1>1. DOMAIN line' = 1..Len(line')  OBVIOUS
<1>2. Pending' = {}  BY <1>1 DEF Pending
<1> QED BY <1>2 DEF WindowArmed

(* The typing of the next state, from that of what the invariant does not speak of. *)
LEMMA NextTypes ==
  ASSUME BatchInv', line' \in Seq(Entries), timer' \in BOOLEAN, awaiting' \in BOOLEAN,
         answered' \in Seq(1..MaxMessages), effects' \in Seq(Entries), pendingStp' \in BOOLEAN,
         model' \in {"none", "plain", "batching"}, driver' \in {"none", "dead", "open"},
         driver' = "none" <=> model' = "none"
  PROVE  BatchTypeOK'
<1>1. /\ arrived' \in Nat /\ arrived' <= MaxMessages /\ arrived' = Len(answered') + Len(line')
      /\ HandledOK' /\ PicturesOK'
  BY DEF BatchInv
<1>2. Len(answered') \in Nat /\ Len(line') \in Nat /\ MaxMessages \in Nat
  BY BatchAssumption
<1>3. arrived' \in 0..MaxMessages /\ Len(line') <= MaxMessages  BY <1>1, <1>2
<1>4. handled' \in 0..Len(line') /\ batch' \in {"none", "running", "over"}
  BY <1>1 DEF HandledOK
<1>5. handled' \in 0..MaxMessages  BY <1>2, <1>3, <1>4
<1>6. latched' \cup lostStps' \subseteq 0..Len(effects')  BY <1>1 DEF PicturesOK
<1> QED BY <1>3, <1>4, <1>5, <1>6 DEF BatchTypeOK

(* What an arrival keeps, once its line is known to be in order. *)
LEMMA ArrivalKeepsWindow ==
  ASSUME WindowInv, BatchInv', Arrives, line' \in Seq(Entries), timer' \in BOOLEAN, WindowArmed',
         Len(line') >= Len(line), \A i \in 1..Len(line) : line'[i].type = line[i].type
  PROVE  WindowInv'
<1>1. /\ arrived' = arrived + 1 /\ arrived < MaxMessages
      /\ UNCHANGED <<awaiting, model, driver, effects, pendingStp, answered>>
  BY DEF Arrives, deviceVars, runVars, panelVars
<1>2. BatchTypeOK'
  <2>1. /\ awaiting' \in BOOLEAN /\ answered' \in Seq(1..MaxMessages)
        /\ effects' \in Seq(Entries) /\ pendingStp' \in BOOLEAN
        /\ model' \in {"none", "plain", "batching"} /\ driver' \in {"none", "dead", "open"}
        /\ (driver' = "none" <=> model' = "none")
    BY <1>1 DEF WindowInv, BatchTypeOK
  <2> QED BY <2>1, NextTypes
<1>3. OpeningHasDevice'
  <2> SUFFICES ASSUME awaiting'
               PROVE  line' # << >> /\ (line'[1].type = "open" => driver' # "none")
    BY DEF OpeningHasDevice
  <2>1. line # << >> /\ (line[1].type = "open" => driver # "none")
    BY <1>1 DEF WindowInv, OpeningHasDevice
  <2>2. Len(line) # 0 /\ Len(line') \in Nat  BY <2>1, WindowFacts
  <2>3. 1 \in 1..Len(line) /\ Len(line') # 0  BY <2>2, WindowFacts
  <2> QED BY <2>1, <2>3, <1>1
<1> QED BY <1>2, <1>3 DEF WindowInv

LEMMA OnImageKeeps ==
  ASSUME WindowInv, BatchInv', OnImage
  PROVE  WindowInv'
<1>0. PICK e : e = LineEntry("batched", 0)  OBVIOUS
<1> DEFINE collected == Append(line, e)
           full == \A i \in Len(collected) - BatchCap + 1 .. Len(collected) :
                     i \in DOMAIN collected /\ collected[i].link = 0
<1>1. /\ Arrives /\ arrived < MaxMessages
      /\ line' = IF full THEN Enqueued(collected, arrived + 1) ELSE collected
      /\ timer' = ~full
  BY <1>0 DEF OnImage, Arrives
<1>2. e \in Entries /\ e.link = 0 /\ e.type = "batched"
  <2>1. "batched" \in Types  BY DEF Types
  <2>2. /\ e.n = arrived + 1 /\ e.type = "batched" /\ e.link = 0
        /\ e = [n |-> arrived + 1, type |-> "batched", link |-> 0]
    BY <1>0 DEF LineEntry
  <2>3. arrived + 1 \in 1..MaxMessages /\ 0 \in 0..MaxMessages  BY <1>1, WindowFacts
  <2> QED BY <2>1, <2>2, <2>3 DEF Entries
<1>3. /\ collected \in Seq(Entries) /\ Len(collected) = Len(line) + 1 /\ Len(collected) \in Nat
      /\ DOMAIN collected = 1..Len(collected) /\ collected[Len(line) + 1] = e
      /\ \A i \in 1..Len(line) : collected[i] = line[i]
  BY <1>2, WindowFacts
<1> HIDE DEF collected
<1>4. CASE full
  <2>1. line' = Enqueued(collected, arrived + 1) /\ timer' = FALSE  BY <1>1, <1>4
  <2>2. arrived + 1 \in 0..MaxMessages /\ arrived + 1 # 0  BY <1>1, WindowFacts
  <2> HIDE DEF full
  <2>3. /\ line' \in Seq(Entries) /\ Len(line') = Len(collected)
        /\ \A i \in 1..Len(collected) : line'[i].link # 0 /\ line'[i].type = collected[i].type
    BY <2>1, <2>2, <1>3, EnqueuedWindow
  <2>4. WindowArmed'  BY <2>1, <2>3, ClosedWindow
  <2>5. \A i \in 1..Len(line) : line'[i].type = line[i].type  BY <2>3, <1>3, WindowFacts
  <2>6. Len(line') >= Len(line)  BY <2>3, <1>3, WindowFacts
  <2> QED BY <2>1, <2>3, <2>4, <2>5, <2>6, <1>1, ArrivalKeepsWindow
<1>5. CASE ~full
  <2>1. line' = collected /\ timer' = TRUE  BY <1>1, <1>5
  <2>2. PICK x \in Len(collected) - BatchCap + 1 .. Len(collected) :
               ~(x \in DOMAIN collected /\ collected[x].link = 0)
    BY <1>5
  <2> HIDE DEF full
  <2>3. x \in Int /\ x >= Len(collected) - BatchCap + 1  BY <2>2, <1>3, WindowFacts
  <2>4. ASSUME NEW i \in 1..Len(line'), line'[i].link = 0
        PROVE  /\ line'[i].type = "batched" /\ Len(line') < i + BatchCap - 1
               /\ \A j \in i..Len(line') : line'[j].link = 0
    <3>1. ASSUME NEW j \in i..Len(line')  PROVE line'[j].link = 0
      <4>1. CASE j = Len(line) + 1  BY <4>1, <2>1, <1>2, <1>3
      <4>2. CASE j # Len(line) + 1
        <5>1. i \in 1..Len(line) /\ j \in i..Len(line)  BY <4>2, <2>1, <1>3, WindowFacts
        <5>2. line[i].link = 0  BY <5>1, <2>1, <2>4, <1>3
        <5>3. j \in 1..Len(line) /\ line[j].link = 0  BY <5>1, <5>2, WindowFacts
        <5> QED BY <5>3, <2>1, <1>3
      <4> QED BY <4>1, <4>2
    <3>2. line'[i].type = "batched"
      <4>1. CASE i = Len(line) + 1  BY <4>1, <2>1, <1>2, <1>3
      <4>2. CASE i \in 1..Len(line)  BY <4>2, <2>1, <2>4, <1>3, WindowFacts
      <4> QED BY <4>1, <4>2, <2>1, <1>3, WindowFacts
    <3>3. x < i
      <4> SUFFICES ASSUME ~(x < i)  PROVE FALSE  OBVIOUS
      <4>1. x \in i..Len(line') /\ x \in DOMAIN collected  BY <2>1, <2>2, <2>3, <1>3
      <4> QED BY <4>1, <3>1, <2>1, <2>2
    <3>4. Len(line') < i + BatchCap - 1  BY <3>3, <2>1, <2>3, <1>3, WindowFacts
    <3> QED BY <3>1, <3>2, <3>4
  <2>5. Len(line) + 1 \in 1..Len(line') /\ line'[Len(line) + 1].link = 0
    BY <2>1, <1>2, <1>3, WindowFacts
  <2>6. DOMAIN line' = 1..Len(line') /\ Len(line') \in Nat  BY <2>1, <1>3
  <2>7. Pending' = {i \in 1..Len(line') : line'[i].link = 0}  BY <2>6 DEF Pending
  <2>8. WindowArmed'
    <3>1. timer' <=> Pending' # {}  BY <2>1, <2>5, <2>7
    <3>2. ASSUME NEW i \in Pending'
          PROVE  /\ line'[i].type = "batched" /\ i .. Len(line') \subseteq Pending'
                 /\ Len(line') < i + BatchCap - 1
      <4>1. i \in 1..Len(line') /\ line'[i].link = 0  BY <2>7
      <4>2. i .. Len(line') \subseteq 1..Len(line')  BY <4>1
      <4> QED BY <4>1, <4>2, <2>4, <2>7
    <3> QED BY <3>1, <3>2 DEF WindowArmed
  <2>9. Len(line') >= Len(line) /\ \A i \in 1..Len(line) : line'[i].type = line[i].type
    BY <2>1, <1>3, WindowFacts
  <2> QED BY <2>1, <2>8, <2>9, <1>1, <1>3, ArrivalKeepsWindow
<1> QED BY <1>4, <1>5

LEMMA OnMessageKeeps ==
  ASSUME WindowInv, BatchInv', NEW type \in MessageTypes, OnMessage(type)
  PROVE  WindowInv'
<1>0. PICK e : e = LineEntry(type, arrived + 1)  OBVIOUS
<1>1. /\ Arrives /\ arrived < MaxMessages /\ timer' = FALSE
      /\ line' = Append(Enqueued(line, arrived), e)
  BY <1>0 DEF OnMessage, Arrives
<1>2. e \in Entries /\ e.link # 0
  <2>1. type \in Types  BY DEF Types
  <2>2. /\ e.n = arrived + 1 /\ e.type = type /\ e.link = arrived + 1
        /\ e = [n |-> arrived + 1, type |-> type, link |-> arrived + 1]
    BY <1>0 DEF LineEntry
  <2>3. arrived + 1 \in 1..MaxMessages /\ arrived + 1 \in 0..MaxMessages  BY <1>1, WindowFacts
  <2> QED BY <2>1, <2>2, <2>3 DEF Entries
<1>3. arrived \in 0..MaxMessages /\ (Len(line) > 0 => arrived # 0)  BY WindowFacts
<1>4. /\ Enqueued(line, arrived) \in Seq(Entries) /\ Len(Enqueued(line, arrived)) = Len(line)
      /\ \A i \in 1..Len(line) : /\ Enqueued(line, arrived)[i].link # 0
                                 /\ Enqueued(line, arrived)[i].type = line[i].type
  BY <1>3, WindowFacts, EnqueuedWindow
<1>5. /\ line' \in Seq(Entries) /\ Len(line') = Len(line) + 1 /\ line'[Len(line) + 1] = e
      /\ \A i \in 1..Len(line) : line'[i] = Enqueued(line, arrived)[i]
  BY <1>1, <1>2, <1>4, WindowFacts
<1>6. \A i \in 1..Len(line') : line'[i].link # 0
  <2>1. \A i \in 1..Len(line') : i \in 1..Len(line) \/ i = Len(line) + 1  BY <1>5, WindowFacts
  <2> QED BY <2>1, <1>2, <1>4, <1>5
<1>7. WindowArmed'  BY <1>1, <1>5, <1>6, ClosedWindow
<1>8. Len(line') >= Len(line) /\ \A i \in 1..Len(line) : line'[i].type = line[i].type
  <2>1. Len(line') >= Len(line)  BY <1>5, WindowFacts
  <2>2. ASSUME NEW i \in 1..Len(line)  PROVE line'[i].type = line[i].type
    <3>1. line'[i] = Enqueued(line, arrived)[i]  BY <1>5
    <3> QED BY <3>1, <1>4
  <2> QED BY <2>1, <2>2
<1> QED BY <1>1, <1>5, <1>7, <1>8, ArrivalKeepsWindow

LEMMA TimerFiresKeeps ==
  ASSUME WindowInv, BatchInv', TimerFires
  PROVE  WindowInv'
<1>1. /\ timer' = FALSE /\ line' = Enqueued(line, arrived)
      /\ UNCHANGED <<awaiting, model, driver, effects, pendingStp, answered>>
  BY DEF TimerFires, deviceVars, runVars, panelVars
<1>2. arrived \in 0..MaxMessages /\ (Len(line) > 0 => arrived # 0)  BY WindowFacts
<1>3. /\ line' \in Seq(Entries) /\ Len(line') = Len(line)
      /\ \A i \in 1..Len(line) : line'[i].link # 0 /\ line'[i].type = line[i].type
  BY <1>1, <1>2, WindowFacts, EnqueuedWindow
<1>4. WindowArmed'  BY <1>1, <1>3, ClosedWindow
<1>5. BatchTypeOK'
  <2>1. /\ awaiting' \in BOOLEAN /\ answered' \in Seq(1..MaxMessages)
        /\ effects' \in Seq(Entries) /\ pendingStp' \in BOOLEAN
        /\ model' \in {"none", "plain", "batching"} /\ driver' \in {"none", "dead", "open"}
        /\ (driver' = "none" <=> model' = "none")
    BY <1>1 DEF WindowInv, BatchTypeOK
  <2> QED BY <2>1, <1>1, <1>3, NextTypes
<1>6. OpeningHasDevice'
  <2> SUFFICES ASSUME awaiting'
               PROVE  line' # << >> /\ (line'[1].type = "open" => driver' # "none")
    BY DEF OpeningHasDevice
  <2>1. line # << >> /\ (line[1].type = "open" => driver # "none")
    BY <1>1 DEF WindowInv, OpeningHasDevice
  <2>2. 1 \in 1..Len(line) /\ Len(line') # 0  BY <2>1, <1>3, WindowFacts
  <2> QED BY <2>1, <2>2, <1>1, <1>3
<1> QED BY <1>4, <1>5, <1>6 DEF WindowInv

(* The link that is over takes nothing collected with it. *)
LEMMA AnswerKeepsWindow ==
  ASSUME WindowInv, BatchInv', NEW k, IsLink(k), Answer(k), awaiting' = FALSE,
         effects' \in Seq(Entries), pendingStp' \in BOOLEAN,
         model' \in {"none", "plain", "batching"}, driver' \in {"none", "dead", "open"},
         driver' = "none" <=> model' = "none"
  PROVE  WindowInv'
<1>1. /\ answered' = answered \o NumbersOf(k) /\ line' = SubSeq(line, k + 1, Len(line))
      /\ arrived' = arrived /\ timer' = timer
  BY DEF Answer
<1>2. /\ k \in 1..Len(line) /\ \A i \in 1..k : line[i].link # 0
  BY WindowFacts DEF IsLink
<1>3. /\ line' \in Seq(Entries) /\ Len(line') = Len(line) - k
      /\ \A i \in 1..Len(line') : i + k \in 1..Len(line) /\ line'[i] = line[i + k]
  <2>0. line \in Seq(Entries) /\ Len(line) \in Nat /\ k \in Nat /\ k <= Len(line) /\ k # 0
    BY <1>2, WindowFacts
  <2>1. line' \in Seq(Entries) /\ Len(line') = Len(line) - k  BY <2>0, <1>1
  <2>2. ASSUME NEW i \in 1..Len(line')
        PROVE  i + k \in 1..Len(line) /\ line'[i] = line[i + k]
    <3>1. i + k \in 1..Len(line) /\ (k + 1) + i - 1 = i + k  BY <2>0, <2>1
    <3>2. line'[i] = line[(k + 1) + i - 1]  BY <2>0, <2>1, <1>1
    <3> QED BY <3>1, <3>2
  <2> QED BY <2>1, <2>2
<1>4. NumbersOf(k) \in Seq(1..MaxMessages)
  BY <1>2, WindowFacts DEF NumbersOf
<1>5. answered' \in Seq(1..MaxMessages)
  <2>1. answered \in Seq(1..MaxMessages)  BY DEF WindowInv, BatchTypeOK
  <2> QED BY <2>1, <1>1, <1>4
<1>6. BatchTypeOK'
  <2>1. timer' \in BOOLEAN /\ awaiting' \in BOOLEAN  BY <1>1 DEF WindowInv, BatchTypeOK
  <2> QED BY <2>1, <1>3, <1>5, NextTypes
<1>7. WindowArmed'
  <2>1. DOMAIN line' = 1..Len(line') /\ Len(line') \in Nat /\ k \in Nat /\ Len(line) \in Nat
    BY <1>2, <1>3, WindowFacts
  <2>2. Pending' = {i \in 1..Len(line') : line'[i].link = 0}  BY <2>1 DEF Pending
  <2>3. timer' <=> Pending' # {}
    <3>1. ASSUME NEW i \in Pending'  PROVE \E j \in 1..Len(line) : line[j].link = 0
      BY <2>2, <1>3
    <3>2. ASSUME NEW j \in 1..Len(line), line[j].link = 0  PROVE j - k \in Pending'
      <4>1. j > k  BY <3>2, <1>2, <2>1
      <4>2. j - k \in 1..Len(line') /\ (j - k) + k = j  BY <4>1, <2>1, <1>3
      <4> QED BY <4>2, <3>2, <2>2, <1>3
    <3> QED BY <3>1, <3>2, <1>1, WindowFacts
  <2>4. ASSUME NEW i \in Pending'
        PROVE  /\ line'[i].type = "batched" /\ i .. Len(line') \subseteq Pending'
               /\ Len(line') < i + BatchCap - 1
    <3>1. /\ i \in 1..Len(line') /\ i + k \in 1..Len(line) /\ line[i + k].link = 0
          /\ line'[i] = line[i + k]
      BY <2>2, <1>3
    <3>2. /\ line[i + k].type = "batched" /\ Len(line) < (i + k) + BatchCap - 1
          /\ \A j \in (i + k)..Len(line) : line[j].link = 0
      BY <3>1, WindowFacts
    <3>3. ASSUME NEW j \in i..Len(line')  PROVE j \in Pending'
      <4>1. j \in 1..Len(line') /\ j + k \in (i + k)..Len(line)  BY <3>1, <2>1, <1>3
      <4> QED BY <4>1, <3>2, <2>2, <1>3
    <3>4. Len(line') < i + BatchCap - 1  BY <3>1, <3>2, <2>1, <1>3, WindowFacts
    <3> QED BY <3>1, <3>2, <3>3, <3>4
  <2> QED BY <2>3, <2>4 DEF WindowArmed
<1>8. OpeningHasDevice'  BY DEF OpeningHasDevice
<1> QED BY <1>6, <1>7, <1>8 DEF WindowInv

(* A message that acts joins the effects. *)
LEMMA ActsKeepsType ==
  ASSUME WindowInv, NEW i \in 1..Len(line)
  PROVE  Append(effects, line[i]) \in Seq(Entries)
<1>1. effects \in Seq(Entries)  BY DEF WindowInv, BatchTypeOK
<1>2. line[i] \in Entries  BY WindowFacts
<1> QED BY <1>1, <1>2

(* Steps that leave the line and its window alone. *)
LEMMA DeviceKeepsWindow ==
  ASSUME WindowInv, BatchInv', UNCHANGED <<line, timer, answered>>,
         awaiting' \in BOOLEAN, effects' \in Seq(Entries), pendingStp' \in BOOLEAN,
         model' \in {"none", "plain", "batching"}, driver' \in {"none", "dead", "open"},
         driver' = "none" <=> model' = "none", OpeningHasDevice'
  PROVE  WindowInv'
<1>1. BatchTypeOK'
  <2>1. line' \in Seq(Entries) /\ timer' \in BOOLEAN /\ answered' \in Seq(1..MaxMessages)
    BY DEF WindowInv, BatchTypeOK
  <2> QED BY <2>1, NextTypes
<1>2. WindowArmed'  BY DEF WindowInv, WindowArmed, Pending
<1> QED BY <1>1, <1>2 DEF WindowInv

(* A batch that starts, uploads or ends waits for nothing and takes no device away. *)
LEMMA BatchKeepsWindow ==
  ASSUME WindowInv, BatchInv', UNCHANGED <<line, timer, answered, awaiting, model, driver>>,
         effects' \in Seq(Entries), pendingStp' \in BOOLEAN
  PROVE  WindowInv'
<1>1. /\ awaiting' \in BOOLEAN
      /\ model' \in {"none", "plain", "batching"} /\ driver' \in {"none", "dead", "open"}
      /\ (driver' = "none" <=> model' = "none")
  BY DEF WindowInv, BatchTypeOK
<1>2. OpeningHasDevice'  BY DEF WindowInv, OpeningHasDevice
<1> QED BY <1>1, <1>2, DeviceKeepsWindow

(* A message that is run alone and answered. *)
LEMMA TurnKeepsWindow ==
  ASSUME WindowInv, BatchInv', NEW k, IsLink(k), ~awaiting, Answer(k),
         UNCHANGED <<awaiting, driver, pendingStp>>, effects' \in Seq(Entries),
         model' \in {"none", "plain", "batching"}, model' = "none" <=> model = "none"
  PROVE  WindowInv'
<1>1. /\ driver \in {"none", "dead", "open"} /\ (driver = "none" <=> model = "none")
      /\ pendingStp \in BOOLEAN /\ awaiting \in BOOLEAN
  BY DEF WindowInv, BatchTypeOK
<1>2. awaiting' = FALSE /\ pendingStp' \in BOOLEAN  BY <1>1
<1>3. driver' \in {"none", "dead", "open"} /\ (driver' = "none" <=> model' = "none")
  BY <1>1
<1> QED BY <1>2, <1>3, AnswerKeepsWindow

LEMMA RunLinkKeeps ==
  ASSUME WindowInv, BatchInv', NEW k \in DOMAIN line, RunLink(k)
  PROVE  WindowInv'
<1>0. /\ model \in {"none", "plain", "batching"} /\ driver \in {"none", "dead", "open"}
      /\ (driver = "none" <=> model = "none") /\ awaiting \in BOOLEAN
      /\ effects \in Seq(Entries) /\ pendingStp \in BOOLEAN
      /\ k \in 1..Len(line) /\ 1 \in 1..Len(line) /\ line # << >>
  BY WindowFacts DEF WindowInv, BatchTypeOK
<1>a. Append(effects, line[1]) \in Seq(Entries)  BY <1>0, ActsKeepsType
<1>1. ASSUME RunImage(k) \/ RunControl(k)  PROVE WindowInv'
  <2>1. /\ IsLink(k) /\ ~awaiting /\ Answer(k) /\ UNCHANGED <<awaiting, model, driver, pendingStp>>
        /\ effects' = Append(effects, line[1]) \/ effects' = effects
    BY <1>1 DEF RunImage, RunControl, Turn, Acts, runVars, panelVars
  <2>2. effects' \in Seq(Entries)  BY <2>1, <1>0, <1>a
  <2> QED BY <2>1, <2>2, <1>0, TurnKeepsWindow
<1>2. ASSUME SkipBatch(k) \/ OpenUnknownModel(k)  PROVE WindowInv'
  <2>1. /\ IsLink(k) /\ ~awaiting /\ Answer(k)
        /\ UNCHANGED <<awaiting, model, driver, effects, pendingStp>>
    BY <1>2 DEF SkipBatch, OpenUnknownModel, Turn, deviceVars, runVars, panelVars
  <2> QED BY <2>1, <1>0, TurnKeepsWindow
<1>3. ASSUME NEW b \in {"plain", "batching"}, RunSetOverrides(k, b)  PROVE WindowInv'
  <2>1. /\ IsLink(k) /\ ~awaiting /\ Answer(k)
        /\ UNCHANGED <<awaiting, driver, effects, pendingStp>>
        /\ model' = IF model = "none" THEN model ELSE b
    BY <1>3 DEF RunSetOverrides, Turn, runVars, panelVars
  <2>2. model' \in {"none", "plain", "batching"} /\ (model' = "none" <=> model = "none")
    BY <2>1, <1>0
  <2> QED BY <2>1, <2>2, <1>0, TurnKeepsWindow
<1>4. ASSUME NEW b \in {"plain", "batching"}, OpenStarts(k, b)  PROVE WindowInv'
  <2>1. /\ awaiting' = TRUE /\ driver' = "dead" /\ model' = b
        /\ UNCHANGED <<line, timer, effects, pendingStp, answered>>
    BY <1>4 DEF OpenStarts, chainVars, runVars, panelVars
  <2>2. OpeningHasDevice'  BY <2>1, <1>0 DEF OpeningHasDevice
  <2> QED BY <2>1, <2>2, <1>0, DeviceKeepsWindow
<1>5. ASSUME NEW ok \in BOOLEAN, OpenEnds(k, ok)  PROVE WindowInv'
  <2>1. /\ IsLink(k) /\ awaiting /\ awaiting' = FALSE /\ Answer(k) /\ line[1].type = "open"
        /\ driver' = IF ok THEN "open" ELSE driver
        /\ UNCHANGED <<model, pendingStp>>
        /\ effects' = Append(effects, line[1]) \/ effects' = effects
    BY <1>5 DEF OpenEnds, runVars
  <2>2. driver # "none"  BY <2>1 DEF WindowInv, OpeningHasDevice
  <2>3. driver' \in {"none", "dead", "open"} /\ driver' # "none"  BY <2>1, <2>2, <1>0
  <2>4. effects' \in Seq(Entries)  BY <2>1, <1>0, <1>a
  <2> QED BY <2>1, <2>2, <2>3, <2>4, <1>0, AnswerKeepsWindow
<1>6. ASSUME CloseStarts(k)  PROVE WindowInv'
  <2>1. /\ awaiting' = TRUE /\ driver' = "none" /\ model' = "none" /\ line[1].type = "close"
        /\ UNCHANGED <<line, timer, pendingStp, answered>>
        /\ effects' = Append(effects, line[1]) \/ effects' = effects
    BY <1>6 DEF CloseStarts, chainVars, Turn
  <2>2. OpeningHasDevice'  BY <2>1, <1>0 DEF OpeningHasDevice
  <2>3. effects' \in Seq(Entries)  BY <2>1, <1>0, <1>a
  <2> QED BY <2>1, <2>2, <2>3, <1>0, DeviceKeepsWindow
<1>7. ASSUME CloseEnds(k)  PROVE WindowInv'
  <2>1. /\ IsLink(k) /\ awaiting' = FALSE /\ Answer(k)
        /\ UNCHANGED <<model, driver, effects, pendingStp>>
    BY <1>7 DEF CloseEnds, deviceVars, panelVars
  <2> QED BY <2>1, <1>0, AnswerKeepsWindow
<1>8. ASSUME BatchStarts(k) \/ BatchEnds(k)  PROVE WindowInv'
  <2>1. /\ UNCHANGED <<line, timer, answered, awaiting, model, driver, effects>>
        /\ pendingStp' = pendingStp \/ pendingStp' = FALSE
    BY <1>8 DEF BatchStarts, BatchEnds, chainVars, deviceVars, panelVars
  <2> QED BY <2>1, <1>0, BatchKeepsWindow
<1>9. ASSUME BatchUploads(k)  PROVE WindowInv'
  <2>1. /\ UNCHANGED <<line, timer, answered, awaiting, model, driver>> /\ handled < k
        /\ pendingStp' = pendingStp \/ pendingStp' = TRUE
        /\ effects' = Append(effects, line[handled + 1]) \/ effects' = effects
    BY <1>9 DEF BatchUploads, Acts, chainVars
  <2>2. handled + 1 \in 1..Len(line)
    <3>1. handled \in Nat /\ Len(line) \in Nat  BY Counts DEF WindowInv
    <3> QED BY <3>1, <2>1, <1>0
  <2>3. effects' \in Seq(Entries)  BY <2>1, <2>2, <1>0, ActsKeepsType
  <2> QED BY <2>1, <2>3, <1>0, BatchKeepsWindow
<1>10. ASSUME BatchAnswers(k)  PROVE WindowInv'
  <2>1. /\ IsLink(k) /\ batch = "over" /\ Answer(k)
        /\ UNCHANGED <<awaiting, model, driver, effects, pendingStp>>
    BY <1>10 DEF BatchAnswers, deviceVars, panelVars
  <2>2. ~awaiting  BY <2>1 DEF WindowInv, BatchInv, HandledOK
  <2> QED BY <2>1, <2>2, <1>0, TurnKeepsWindow
<1> QED BY <1>1, <1>2, <1>3, <1>4, <1>5, <1>6, <1>7, <1>8, <1>9, <1>10 DEF RunLink

LEMMA WindowInvInit == BatchInit => WindowInv
<1> SUFFICES ASSUME BatchInit  PROVE WindowInv  OBVIOUS
<1>1. /\ arrived = 0 /\ line = << >> /\ timer = FALSE /\ awaiting = FALSE
      /\ model = "none" /\ driver = "none"
      /\ answered = << >> /\ effects = << >> /\ latched = {} /\ lostStps = {}
      /\ batch = "none" /\ handled = 0 /\ pendingStp = FALSE
  BY DEF BatchInit
<1>2. BatchInv  BY BatchInvInit
<1>a. arrived \in 0..MaxMessages /\ line \in Seq(Entries) /\ effects \in Seq(Entries)
      /\ answered \in Seq(1..MaxMessages) /\ handled \in 0..MaxMessages
  BY <1>1, BatchAssumption
<1>3. BatchTypeOK  BY <1>1, <1>a DEF BatchTypeOK
<1>4. Pending = {}  BY <1>1 DEF Pending
<1>5. WindowArmed  BY <1>1, <1>4 DEF WindowArmed
<1>6. OpeningHasDevice  BY <1>1 DEF OpeningHasDevice
<1> QED BY <1>2, <1>3, <1>5, <1>6 DEF WindowInv

LEMMA WindowInvStep == WindowInv /\ [BatchNext]_batchVars => WindowInv'
<1> SUFFICES ASSUME WindowInv, [BatchNext]_batchVars  PROVE WindowInv'  OBVIOUS
<1>1. BatchInv'  BY BatchInvStep DEF WindowInv
<1>2. CASE OnImage  BY <1>1, <1>2, OnImageKeeps
<1>3. ASSUME NEW t \in MessageTypes, OnMessage(t)  PROVE WindowInv'  BY <1>1, <1>3, OnMessageKeeps
<1>4. CASE TimerFires  BY <1>1, <1>4, TimerFiresKeeps
<1>5. CASE Step  BY <1>1, <1>5, RunLinkKeeps DEF Step
<1>6. CASE Disconnect
  <2>1. /\ driver = "open" /\ driver' = "dead"
        /\ UNCHANGED <<line, timer, awaiting, model, effects, pendingStp, answered>>
    BY <1>6 DEF Disconnect, chainVars, runVars, panelVars
  <2>2. /\ model' \in {"none", "plain", "batching"} /\ model' # "none" /\ awaiting' \in BOOLEAN
        /\ effects' \in Seq(Entries) /\ pendingStp' \in BOOLEAN
    BY <2>1 DEF WindowInv, BatchTypeOK
  <2>3. OpeningHasDevice'  BY <2>1 DEF WindowInv, OpeningHasDevice
  <2> QED BY <2>1, <2>2, <2>3, <1>1, DeviceKeepsWindow
<1>7. CASE UNCHANGED batchVars
  <2>1. UNCHANGED <<line, timer, awaiting, model, driver, answered, effects, pendingStp>>
    BY <1>7 DEF batchVars
  <2>2. effects' \in Seq(Entries) /\ pendingStp' \in BOOLEAN
    BY <2>1 DEF WindowInv, BatchTypeOK
  <2> QED BY <2>1, <2>2, <1>1, BatchKeepsWindow
<1> QED BY <1>2, <1>3, <1>4, <1>5, <1>6, <1>7 DEF BatchNext

-----------------------------------------------------------------------------
(* Both ends of the port keep their books, for all budgets, sizes and numbers of messages:
   the queue of hid-work-queue-host.ts loses no effect, no order and no credit, and the batch
   window of hid-worker.ts always has a timer that will close it. *)
THEOREM PortStaysConsistent == HidSpec => []PortConsistent
<1>1. HidInit => SystemInv /\ WindowInv
  BY SystemInvInit, WindowInvInit DEF HidInit
<1>2. SystemInv /\ WindowInv /\ [HidNext]_hidVars => (SystemInv /\ WindowInv)'
  <2> SUFFICES ASSUME SystemInv, WindowInv, [HidNext]_hidVars  PROVE (SystemInv /\ WindowInv)'
    OBVIOUS
  <2>1. [Next]_vars /\ [BatchNext]_batchVars
    BY DEF HidNext, hidVars
  <2> QED BY <2>1, SystemInvStep, WindowInvStep
<1>3. SystemInv /\ WindowInv => PortConsistent
  BY SystemInvServes DEF PortConsistent, WindowInv, WindowConsistent
<1>4. HidSpec => [](SystemInv /\ WindowInv)
  BY <1>1, <1>2, PTL DEF HidSpec
<1> QED BY <1>3, <1>4, PTL
=============================================================================
