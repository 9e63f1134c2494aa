------------------------- MODULE HidWorkQueueLemmas -------------------------
(***************************************************************************)
(* Facts about the operators of HidWorkQueue that the proofs about the     *)
(* queue and about the driver around it share: the byte total of a family  *)
(* of messages, and what a drain posts.                                    *)
(***************************************************************************)
EXTENDS HidWorkQueue, FiniteSetTheorems, FunctionTheorems, SequenceTheorems, TLAPS

-----------------------------------------------------------------------------
(* Disjoint finite sets have together as many elements as each. *)
LEMMA CardinalityDisjoint ==
    ASSUME NEW S, NEW T, IsFiniteSet(S), IsFiniteSet(T), S \cap T = {}
    PROVE  Cardinality(S \cup T) = Cardinality(S) + Cardinality(T)
<1>1. Cardinality(S) \in Nat /\ Cardinality(T) \in Nat
  BY FS_CardinalityType
<1>2. Cardinality(S \cap T) = 0
  BY FS_EmptySet
<1>3. Cardinality(S \cup T) = Cardinality(S) + Cardinality(T) - Cardinality(S \cap T)
  BY FS_Union
<1> QED
  BY <1>1, <1>2, <1>3

(* Facts about Weight, the byte total of an id -> bytes map. *)

(* Functions from a finite set of ids to payload sizes. *)
IsByteMap(f) ==
    /\ f = [i \in DOMAIN f |-> f[i]]
    /\ IsFiniteSet(DOMAIN f)
    /\ \A i \in DOMAIN f : f[i] \in Nat

(* The byte tokens of one message are as many as its bytes. *)
LEMMA TokensOfOne ==
    ASSUME NEW i, NEW n \in Nat
    PROVE  /\ IsFiniteSet({i} \X (1..n))
           /\ Cardinality({i} \X (1..n)) = n
<1>1. IsFiniteSet({i}) /\ Cardinality({i}) = 1
  BY FS_Singleton
<1>2. IsFiniteSet(1..n) /\ Cardinality(1..n) = n
  BY FS_Interval, SMT
<1>3. /\ IsFiniteSet({i} \X (1..n))
      /\ Cardinality({i} \X (1..n)) = Cardinality({i}) * Cardinality(1..n)
  BY <1>1, <1>2, FS_Product
<1> QED
  BY <1>1, <1>2, <1>3

(* A map of finitely many ids has finitely many byte tokens, hence a total in Nat. *)
LEMMA WeightType ==
    ASSUME NEW f, IsByteMap(f)
    PROVE  IsFiniteSet(ByteTokens(f)) /\ Weight(f) \in Nat
<1> DEFINE g == [i \in DOMAIN f |-> {i} \X (1..f[i])]
           T == {g[i] : i \in DOMAIN f}
<1>1. g \in Surjection(DOMAIN f, T)
  BY DEF Surjection
<1>2. IsFiniteSet(T)
  BY <1>1, FS_Surjection DEF IsByteMap
<1>3. \A t \in T : IsFiniteSet(t)
  <2> SUFFICES ASSUME NEW i \in DOMAIN f PROVE IsFiniteSet({i} \X (1..f[i]))
    OBVIOUS
  <2> QED BY TokensOfOne DEF IsByteMap
<1>4. ByteTokens(f) = UNION T
  BY DEF ByteTokens
<1>5. IsFiniteSet(ByteTokens(f))
  <2> HIDE DEF T
  <2> QED BY <1>2, <1>3, <1>4, FS_UNION
<1> QED
  BY <1>5, FS_CardinalityType DEF Weight

(* An empty map weighs nothing. *)
LEMMA WeightEmpty ==
    ASSUME NEW f, DOMAIN f = {}
    PROVE  Weight(f) = 0
<1>1. ByteTokens(f) = {}
  BY DEF ByteTokens
<1> QED
  BY <1>1, FS_EmptySet DEF Weight

(* Two maps without a common id weigh together what each weighs. *)
LEMMA WeightUnion ==
    ASSUME NEW f, NEW g, NEW h, IsByteMap(f), IsByteMap(g), IsByteMap(h),
           DOMAIN f \cap DOMAIN g = {},
           DOMAIN h = DOMAIN f \cup DOMAIN g,
           \A i \in DOMAIN f : h[i] = f[i],
           \A i \in DOMAIN g : h[i] = g[i]
    PROVE  Weight(h) = Weight(f) + Weight(g)
<1>1. ByteTokens(h) = ByteTokens(f) \cup ByteTokens(g)
  <2>1. ByteTokens(h) \subseteq ByteTokens(f) \cup ByteTokens(g)
    BY DEF ByteTokens
  <2>2. ByteTokens(f) \subseteq ByteTokens(h)
    BY DEF ByteTokens
  <2>3. ByteTokens(g) \subseteq ByteTokens(h)
    BY DEF ByteTokens
  <2> QED BY <2>1, <2>2, <2>3
<1>2. ByteTokens(f) \cap ByteTokens(g) = {}
  <2> SUFFICES ASSUME NEW t \in ByteTokens(f), t \in ByteTokens(g) PROVE FALSE
    OBVIOUS
  <2>1. PICK i \in DOMAIN f : t \in {i} \X (1..f[i])
    BY DEF ByteTokens
  <2>2. PICK j \in DOMAIN g : t \in {j} \X (1..g[j])
    BY DEF ByteTokens
  <2>3. i = t[1] /\ j = t[1]
    BY <2>1, <2>2
  <2> QED BY <2>3
<1>3. Cardinality({}) = 0
  BY FS_EmptySet
<1>4. IsFiniteSet(ByteTokens(f)) /\ IsFiniteSet(ByteTokens(g))
  BY WeightType
<1>5. Cardinality(ByteTokens(f)) \in Nat /\ Cardinality(ByteTokens(g)) \in Nat
  BY <1>4, FS_CardinalityType
<1>6. Cardinality(ByteTokens(h)) =
        Cardinality(ByteTokens(f)) + Cardinality(ByteTokens(g)) - 0
  BY <1>1, <1>2, <1>3, <1>4, FS_Union
<1> QED
  BY <1>5, <1>6 DEF Weight

(* A map of one message weighs that message. *)
LEMMA WeightOne ==
    ASSUME NEW i, NEW n \in Nat
    PROVE  IsByteMap(Entry(i, n)) /\ Weight(Entry(i, n)) = n
<1>1. DOMAIN Entry(i, n) = {i} /\ Entry(i, n)[i] = n
  BY DEF Entry
<1>2. IsByteMap(Entry(i, n))
  BY FS_Singleton DEF IsByteMap, Entry
<1>3. ByteTokens(Entry(i, n)) = {i} \X (1..n)
  BY <1>1 DEF ByteTokens
<1> QED
  BY <1>2, <1>3, TokensOfOne DEF Weight

(* Merging maps without a common id adds their weights. *)
LEMMA WeightMerge ==
    ASSUME NEW f, NEW g, IsByteMap(f), IsByteMap(g), DOMAIN f \cap DOMAIN g = {}
    PROVE  IsByteMap(Merge(f, g)) /\ Weight(Merge(f, g)) = Weight(f) + Weight(g)
<1> DEFINE h == Merge(f, g)
<1>1. /\ DOMAIN h = DOMAIN f \cup DOMAIN g
      /\ \A i \in DOMAIN f : h[i] = f[i]
      /\ \A i \in DOMAIN g : h[i] = g[i]
  BY DEF Merge
<1>2. IsFiniteSet(DOMAIN f \cup DOMAIN g)
  BY FS_Union DEF IsByteMap
<1>3. h = [i \in DOMAIN h |-> h[i]]
  BY DEF Merge
<1>4. IsByteMap(h)
  BY <1>1, <1>2, <1>3 DEF IsByteMap
<1>5. Weight(h) = Weight(f) + Weight(g)
  <2> HIDE DEF h
  <2> QED BY <1>1, <1>4, WeightUnion
<1> QED
  BY <1>4, <1>5

(* Taking ids out of a map takes their weight out of its total. *)
LEMMA WeightSplit ==
    ASSUME NEW f, NEW S, IsByteMap(f)
    PROVE  LET kept  == [i \in DOMAIN f \ S |-> f[i]]
               freed == [i \in S \cap DOMAIN f |-> f[i]]
           IN  /\ IsByteMap(kept)
               /\ IsByteMap(freed)
               /\ Weight(f) = Weight(kept) + Weight(freed)
<1> DEFINE kept  == [i \in DOMAIN f \ S |-> f[i]]
           freed == [i \in S \cap DOMAIN f |-> f[i]]
<1>1. IsByteMap(kept)
  BY FS_Difference DEF IsByteMap
<1>2. IsByteMap(freed)
  BY FS_Intersection DEF IsByteMap
<1>3. /\ DOMAIN kept \cap DOMAIN freed = {}
      /\ DOMAIN f = DOMAIN kept \cup DOMAIN freed
      /\ \A i \in DOMAIN kept : f[i] = kept[i]
      /\ \A i \in DOMAIN freed : f[i] = freed[i]
  OBVIOUS
<1>4. Weight(f) = Weight(kept) + Weight(freed)
  <2> HIDE DEF kept, freed
  <2> QED BY <1>1, <1>2, <1>3, WeightUnion
<1> QED
  BY <1>1, <1>2, <1>4

-----------------------------------------------------------------------------
(* What a drain posts: in order, each message that leaves the list and does not fail, under
   an id of its own. *)

(* The k-th message of a drain that does not fail: p numbers them in order, from 1 on. *)
Numbering(p, good, c) ==
  /\ p \in [1..c -> good]
  /\ \A k, l \in 1..c : k < l => p[k] < p[l]
  /\ \A i \in good : \E k \in 1..c : p[k] = i

LEMMA GoodNumbered ==
  ASSUME NEW n \in Nat, NEW bad \in SUBSET (1..n)
  PROVE  LET good == (1..n) \ bad
             p == [k \in 1..Cardinality(good) |->
                     CHOOSE j \in good : Cardinality((1..j) \ bad) = k]
         IN  /\ Cardinality(good) = n - Cardinality(bad) /\ Cardinality(good) \in Nat
             /\ Numbering(p, good, Cardinality(good))
<1> DEFINE good == (1..n) \ bad
           c == Cardinality(good)
           upto(j) == (1..j) \ bad
           f == [j \in good |-> Cardinality(upto(j))]
           p == [k \in 1..c |-> CHOOSE j \in good : Cardinality(upto(j)) = k]
<1>1. IsFiniteSet(1..n) /\ Cardinality(1..n) = n  BY FS_Interval, SMT
<1>2. IsFiniteSet(bad) /\ IsFiniteSet(good) /\ Cardinality(bad) \in Nat /\ c \in Nat
  BY <1>1, FS_Subset, FS_Difference, FS_CardinalityType
<1>3. c = n - Cardinality(bad)
  <2>1. c = n - Cardinality((1..n) \cap bad)  BY <1>1, FS_Difference
  <2>2. (1..n) \cap bad = bad  OBVIOUS
  <2> QED BY <2>1, <2>2
<1>4. ASSUME NEW j \in good
      PROVE  /\ IsFiniteSet(upto(j)) /\ Cardinality(upto(j)) \in 1..c
  <2>1. upto(j) \subseteq good /\ j \in upto(j)  OBVIOUS
  <2>2. IsFiniteSet(upto(j)) /\ Cardinality(upto(j)) <= c
    <3> HIDE DEF upto
    <3> QED BY <2>1, <1>2, FS_Subset
  <2>3. Cardinality(upto(j)) \in Nat  BY <2>2, FS_CardinalityType
  <2>4. Cardinality(upto(j)) # 0
    <3> HIDE DEF upto
    <3> QED BY <2>1, <2>2, FS_EmptySet
  <2> HIDE DEF upto, c
  <2> QED BY <2>2, <2>3, <2>4, <1>2
<1>5. ASSUME NEW i \in good, NEW j \in good, i < j
      PROVE  Cardinality(upto(i)) < Cardinality(upto(j))
  <2>1. upto(i) \subseteq upto(j) /\ j \in upto(j) /\ j \notin upto(i)  BY <1>5
  <2>2. /\ Cardinality(upto(i)) <= Cardinality(upto(j))
        /\ Cardinality(upto(i)) # Cardinality(upto(j))
    <3>1. IsFiniteSet(upto(j))  BY <1>4
    <3> HIDE DEF upto
    <3> QED BY <2>1, <3>1, FS_Subset
  <2>3. Cardinality(upto(i)) \in Nat /\ Cardinality(upto(j)) \in Nat  BY <1>4
  <2> HIDE DEF upto
  <2> QED BY <2>2, <2>3
<1>6. f \in Injection(good, 1..c)
  <2>1. f \in [good -> 1..c]
    <3> HIDE DEF upto, c
    <3> QED BY <1>4
  <2>2. ASSUME NEW i \in good, NEW j \in good, i # j  PROVE f[i] # f[j]
    <3>1. i < j \/ j < i  BY <2>2
    <3>2. Cardinality(upto(i)) \in Nat /\ Cardinality(upto(j)) \in Nat  BY <1>4
    <3>3. Cardinality(upto(i)) # Cardinality(upto(j))
      <4>1. CASE i < j
        <5>1. Cardinality(upto(i)) < Cardinality(upto(j))  BY <4>1, <1>5
        <5> HIDE DEF upto
        <5> QED BY <5>1, <3>2
      <4>2. CASE j < i
        <5>1. Cardinality(upto(j)) < Cardinality(upto(i))  BY <4>2, <1>5
        <5> HIDE DEF upto
        <5> QED BY <5>1, <3>2
      <4> QED BY <3>1, <4>1, <4>2
    <3> HIDE DEF upto
    <3> QED BY <3>3
  <2> HIDE DEF f, good, c
  <2> QED BY <2>1, <2>2 DEF Injection, IsInjective
<1>7. IsFiniteSet(1..c) /\ Cardinality(1..c) = c
  <2> HIDE DEF c
  <2> QED BY <1>2, FS_Interval, SMT
<1>8. f \in Surjection(good, 1..c)
  <2> HIDE DEF f, good
  <2> QED BY <1>6, <1>7, FS_Injection
<1>9. \A k \in 1..c : \E j \in good : Cardinality(upto(j)) = k
  <2>1. \A k \in 1..c : \E j \in good : f[j] = k
    <3> HIDE DEF f, good, c
    <3> QED BY <1>8 DEF Surjection
  <2> HIDE DEF upto, good, c
  <2> QED BY <2>1
<1>10. \A k \in 1..c : p[k] \in good /\ Cardinality(upto(p[k])) = k
  <2> HIDE DEF upto, good, c
  <2> QED BY <1>9
<1>11. p \in [1..c -> good]
  <2> HIDE DEF upto, good, c
  <2> QED BY <1>10
<1> HIDE DEF p
<1>12. ASSUME NEW k \in 1..c, NEW l \in 1..c, k < l  PROVE p[k] < p[l]
  <2>1. /\ p[k] \in good /\ p[l] \in good
        /\ Cardinality(upto(p[k])) = k /\ Cardinality(upto(p[l])) = l
    BY <1>10
  <2>2. k \in Nat /\ l \in Nat  BY <1>2
  <2>3. p[k] # p[l]
    <3> SUFFICES ASSUME p[k] = p[l]  PROVE FALSE  OBVIOUS
    <3> HIDE DEF upto
    <3> QED BY <2>1, <2>2, <1>12
  <2>4. ~(p[l] < p[k])
    <3> SUFFICES ASSUME p[l] < p[k]  PROVE FALSE  OBVIOUS
    <3>1. Cardinality(upto(p[l])) < Cardinality(upto(p[k]))  BY <2>1, <1>5
    <3> HIDE DEF upto
    <3> QED BY <3>1, <2>1, <2>2, <1>12
  <2>5. p[k] \in Nat /\ p[l] \in Nat  BY <2>1
  <2> QED BY <2>3, <2>4, <2>5
<1>13. ASSUME NEW i \in good  PROVE \E k \in 1..c : p[k] = i
  <2> DEFINE k == Cardinality(upto(i))
  <2>1. k \in 1..c  BY <1>4
  <2>2. p[k] \in good /\ Cardinality(upto(p[k])) = k  BY <2>1, <1>10
  <2>3. p[k] = i
    <3> SUFFICES ASSUME p[k] # i  PROVE FALSE  OBVIOUS
    <3>1. f[p[k]] = f[i]
      <4> HIDE DEF upto, good
      <4> QED BY <2>2
    <3> HIDE DEF f, good, k
    <3> QED BY <2>2, <3>1, <1>6 DEF Injection, IsInjective
  <2> HIDE DEF k
  <2> QED BY <2>1, <2>3
<1>14. Numbering(p, good, c)
  <2> HIDE DEF good, c
  <2> QED BY <1>11, <1>12, <1>13 DEF Numbering
<1> QED
  <2>1. c \in Nat /\ c = n - Cardinality(bad)  BY <1>2, <1>3
  <2> HIDE DEF f
  <2> QED BY <2>1, <1>14 DEF p


(* A set of indices that is not empty has a greatest one: the last of their numbering. *)
LEMMA GreatestOfSome ==
  ASSUME NEW n \in Nat, NEW S \in SUBSET (1..n), S # {}
  PROVE  \E i \in S : \A j \in S : j <= i
<1> DEFINE bad == (1..n) \ S
           c == Cardinality(S)
<1>1. bad \in SUBSET (1..n) /\ (1..n) \ bad = S  OBVIOUS
<1>2. c \in Nat /\ \E p : Numbering(p, S, c)
  <2> HIDE DEF bad
  <2> QED BY <1>1, GoodNumbered
<1> HIDE DEF c
<1>3. PICK p : Numbering(p, S, c)  BY <1>2
<1>4. c # 0
  <2> SUFFICES ASSUME c = 0  PROVE FALSE  OBVIOUS
  <2>1. 1..c = {}  OBVIOUS
  <2> QED BY <2>1, <1>3 DEF Numbering
<1>5. c \in 1..c /\ p[c] \in S  BY <1>2, <1>3, <1>4 DEF Numbering
<1>a. \A x \in S : x \in Nat  OBVIOUS
<1>6. ASSUME NEW j \in S  PROVE j <= p[c]
  <2>1. PICK k \in 1..c : p[k] = j  BY <1>3 DEF Numbering
  <2>2. k = c \/ k < c  BY <1>2, <2>1
  <2>3. CASE k < c
    <3>1. p[k] < p[c]  BY <2>3, <1>3, <1>5 DEF Numbering
    <3>2. p[k] \in Nat /\ p[c] \in Nat  BY <1>5, <1>6, <2>1, <1>a
    <3> QED BY <3>1, <3>2, <2>1
  <2>4. CASE k = c  BY <2>1, <2>4
  <2> QED BY <2>2, <2>3, <2>4
<1> QED BY <1>5, <1>6

(* The index of the superseded message is one of the waiting list, or 0. *)
LEMMA SupersededType ==
  ASSUME NEW M, waiting \in Seq(M), NEW key
  PROVE  SupersededIndex(key) \in {0} \cup (1..Len(waiting))
<1> DEFINE run == {i \in DOMAIN waiting : \A j \in i..Len(waiting) : waiting[j].kind = "image"}
           match == {i \in run : waiting[i].key = key}
           last == CHOOSE i \in match : \A j \in match : j <= i
<1>1. CASE key = NoKey \/ match = {}  BY <1>1 DEF SupersededIndex
<1>2. CASE ~(key = NoKey \/ match = {})
  <2>1. SupersededIndex(key) = last  BY <1>2 DEF SupersededIndex
  <2>2. match \subseteq 1..Len(waiting) /\ Len(waiting) \in Nat  OBVIOUS
  <2>3. \E i \in match : \A j \in match : j <= i
    <3> HIDE DEF match
    <3> QED BY <2>2, <1>2, GreatestOfSome
  <2>4. last \in match
    <3> HIDE DEF match
    <3> QED BY <2>3
  <2> HIDE DEF last, match
  <2> QED BY <2>1, <2>2, <2>4
<1> QED BY <1>1, <1>2

LEMMA WithoutType ==
  ASSUME NEW M, waiting \in Seq(M), NEW i \in {0} \cup (1..Len(waiting))
  PROVE  Without(i) \in Seq(M)
<1>1. CASE i = 0  BY <1>1 DEF Without
<1>2. CASE i # 0
  <2>1. SubSeq(waiting, 1, i - 1) \in Seq(M)  BY <1>2
  <2>2. SubSeq(waiting, i + 1, Len(waiting)) \in Seq(M)  BY <1>2
  <2> DEFINE a == SubSeq(waiting, 1, i - 1)
             b == SubSeq(waiting, i + 1, Len(waiting))
  <2>3. Without(i) = a \o b  BY <1>2, Zenon DEF Without
  <2> HIDE DEF a, b
  <2> QED BY <2>1, <2>2, <2>3 DEF a, b
<1> QED BY <1>1, <1>2

-----------------------------------------------------------------------------
(* A sequence with c more elements behind it. *)
LEMMA Behind ==
  ASSUME NEW R, NEW s \in Seq(R), NEW c \in Nat, NEW add,
         add = [k \in 1..c |-> add[k]], \A k \in 1..c : add[k] \in R
  PROVE  /\ s \o add \in Seq(R) /\ Len(s \o add) = Len(s) + c
         /\ \A i \in 1..Len(s) : (s \o add)[i] = s[i]
         /\ \A k \in 1..c : (s \o add)[Len(s) + k] = add[k]
<1>1. add \in Seq(R) /\ Len(add) = c  OBVIOUS
<1>2. /\ s \o add \in Seq(R) /\ Len(s \o add) = Len(s) + c
      /\ \A i \in 1 .. Len(s) + c :
           (s \o add)[i] = IF i <= Len(s) THEN s[i] ELSE add[i - Len(s)]
  BY <1>1, ConcatProperties
<1>3. Len(s) \in Nat  OBVIOUS
<1>4. \A i \in 1..Len(s) : (s \o add)[i] = s[i]  BY <1>2, <1>3
<1>5. ASSUME NEW k \in 1..c  PROVE (s \o add)[Len(s) + k] = add[k]
  <2>1. Len(s) + k \in 1 .. Len(s) + c /\ ~(Len(s) + k <= Len(s)) /\ (Len(s) + k) - Len(s) = k
    BY <1>3
  <2> QED BY <2>1, <1>2
<1> QED BY <1>2, <1>4, <1>5

(* The messages that leave, as they are handed to the worker's port. *)
InOrderSent(p, c) == [k \in 1..c |-> Sent(waiting[p[k]], nextId + p[k] - 1)]

(* The first n messages but the bad ones are handed over, in order. *)
HandsOver(n, bad) ==
  \E c \in Nat : \E p :
    /\ Numbering(p, (1..n) \ bad, c)
    /\ toWorker' = toWorker \o InOrderSent(p, c)

(* What a drain hands to the worker's port. *)
LEMMA DrainSends ==
  ASSUME NEW kept, NEW keptBytes, NEW n \in Nat, NEW bad \in SUBSET (1..n),
         Drain(kept, keptBytes, n, bad)
  PROVE  HandsOver(n, bad)
<1> DEFINE good == (1..n) \ bad
           c == Cardinality(good)
           p == [k \in 1..c |-> CHOOSE j \in good : Cardinality((1..j) \ bad) = k]
           add == [k \in 1..c |-> Sent(waiting[p[k]], nextId + p[k] - 1)]
<1>1. c = n - Cardinality(bad) /\ c \in Nat /\ Numbering(p, good, c)
  BY GoodNumbered
<1>2. toWorker' = toWorker \o add
  <2>1. toWorker' = toWorker \o
          [k \in 1..(n - Cardinality(bad)) |->
             LET i == CHOOSE j \in (1..n) \ bad : Cardinality((1..j) \ bad) = k
             IN  Sent(waiting[i], nextId + i - 1)]
    BY DEF Drain
  <2>2. [k \in 1..(n - Cardinality(bad)) |->
             LET i == CHOOSE j \in (1..n) \ bad : Cardinality((1..j) \ bad) = k
             IN  Sent(waiting[i], nextId + i - 1)] = add
    <3>1. n - Cardinality(bad) = c  BY <1>1
    <3>2. \A k \in 1..c : p[k] = CHOOSE j \in (1..n) \ bad : Cardinality((1..j) \ bad) = k
      <4> HIDE DEF c
      <4> QED OBVIOUS
    <3> DEFINE F == [k \in 1..c |->
                       LET i == CHOOSE j \in (1..n) \ bad : Cardinality((1..j) \ bad) = k
                       IN  Sent(waiting[i], nextId + i - 1)]
    <3> HIDE DEF p, c
    <3>3. ASSUME NEW k \in 1..c  PROVE F[k] = add[k]
      <4> DEFINE i == CHOOSE j \in (1..n) \ bad : Cardinality((1..j) \ bad) = k
      <4>1. p[k] = i  BY <3>2
      <4>2. F[k] = Sent(waiting[i], nextId + i - 1)  OBVIOUS
      <4>3. add[k] = Sent(waiting[p[k]], nextId + p[k] - 1)  OBVIOUS
      <4> HIDE DEF i, F, add
      <4> QED BY <4>1, <4>2, <4>3
    <3>4. F = [k \in 1..c |-> F[k]] /\ add = [k \in 1..c |-> add[k]]  OBVIOUS
    <3>5. F = add
      <4> HIDE DEF F, add
      <4> QED BY <3>3, <3>4
    <3> QED BY <3>1, <3>5
  <2> QED BY <2>1, <2>2
<1>3. c \in Nat /\ good = (1..n) \ bad  BY <1>1
<1>4. /\ Numbering(p, good, c)
      /\ toWorker' = toWorker \o InOrderSent(p, c)
  BY <1>1, <1>2 DEF InOrderSent
<1> QED
  <2> HIDE DEF c, good, p, add
  <2> QED BY <1>3, <1>4 DEF HandsOver
=============================================================================
