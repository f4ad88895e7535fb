---------------------------- MODULE PassGraphProofs ----------------------------
(***************************************************************************)
(* Proofs about pass graphs, for any steps on any queues: what Recording   *)
(* submits is the graph that was planned, and what the graph's steps hold  *)
(* is retired once; the plan keeps the orders that were asked for however  *)
(* the graph was written (PassBuilder), and adds none; the arrays handed   *)
(* to the queues say what the plan says.                                   *)
(***************************************************************************)
EXTENDS PassBuilder, Recording, SequenceTheorems, FiniteSetTheorems, FunctionTheorems,
        WellFoundedInduction, NaturalsInduction, TLAPS

-----------------------------------------------------------------------------
(* Numbers, and sets of them in order *)

\* A set of natural numbers has a first one.
LEMMA FirstNumber ==
    ASSUME NEW S \in SUBSET Nat, S # {}
    PROVE  \E n \in S : \A m \in S : n <= m
<1>1. \E n \in S : \A m \in S : ~ (<<m, n>> \in OpToRel(<, Nat))
    BY WFMin, NatLessThanWellFounded
<1>2. PICK n \in S : \A m \in S : ~ (<<m, n>> \in OpToRel(<, Nat))
    BY <1>1
<1>3. \A m \in S : ~ (m < n)
    BY <1>2 DEF OpToRel
<1> QED
    BY <1>3

\* Induction, for a set: it has every number if it has each whose
\* predecessors it has.
LEMMA AllNumbers ==
    ASSUME NEW S, \A n \in Nat : (\A m \in 0 .. n - 1 : m \in S) => n \in S
    PROVE  \A n \in Nat : n \in S
<1> SUFFICES ASSUME NEW k \in Nat, k \notin S
             PROVE  FALSE
    OBVIOUS
<1>1. Nat \ S # {}
    OBVIOUS
<1>2. PICK n \in Nat \ S : \A m \in Nat \ S : n <= m
    BY <1>1, FirstNumber
<1>3. \A m \in 0 .. n - 1 : m \in S
    BY <1>2
<1> QED
    BY <1>2, <1>3

\* Numbers up to n can be put in order.
Ordered(S, s) ==
    /\ s \in [1 .. Cardinality(S) -> S]
    /\ \A i, j \in DOMAIN s : i < j => s[i] < s[j]

LEMMA OrderExists ==
    \A n \in Nat : \A S \in SUBSET (1 .. n) : \E s : Ordered(S, s)
<1> DEFINE Good == {n \in Nat : \A S \in SUBSET (1 .. n) : \E s : Ordered(S, s)}
<1>1. ASSUME NEW n \in Nat, \A m \in 0 .. n - 1 : m \in Good
      PROVE  n \in Good
    <2> SUFFICES ASSUME NEW S \in SUBSET (1 .. n)
                 PROVE  \E s : Ordered(S, s)
        OBVIOUS
    <2>1. IsFiniteSet(1 .. n)
        BY FS_Interval
    <2>2. IsFiniteSet(S) /\ Cardinality(S) \in Nat
        BY <2>1, FS_Subset, FS_CardinalityType
    <2>3. CASE n = 0
        <3>1. S = {}
            BY <2>3
        <3>2. Cardinality(S) = 0
            BY <3>1, FS_EmptySet
        <3>3. Ordered(S, [i \in 1 .. 0 |-> 0])
            BY <3>1, <3>2 DEF Ordered
        <3> QED
            BY <3>3
    <2>4. CASE n # 0 /\ n \notin S
        <3>1. n - 1 \in Good /\ S \in SUBSET (1 .. n - 1)
            BY <1>1, <2>4
        <3> QED
            BY <3>1
    <2>5. CASE n # 0 /\ n \in S
        <3> DEFINE T == S \ {n}
        <3>1. n - 1 \in Good /\ T \in SUBSET (1 .. n - 1)
            BY <1>1, <2>5
        <3>2. PICK t : Ordered(T, t)
            BY <3>1
        <3>3. Cardinality(T) = Cardinality(S) - 1 /\ Cardinality(S) # 0
            BY <2>2, <2>5, FS_RemoveElement, FS_EmptySet
        <3> DEFINE s == [i \in 1 .. Cardinality(S) |-> IF i = Cardinality(S) THEN n ELSE t[i]]
        <3>4. \A i \in 1 .. Cardinality(S) : i # Cardinality(S) => t[i] \in T
            <4>1. \A i \in 1 .. Cardinality(S) :
                    i # Cardinality(S) => i \in 1 .. Cardinality(T)
                BY <2>2, <3>3
            <4> QED
                BY <3>2, <4>1 DEF Ordered
        <3>5. s \in [1 .. Cardinality(S) -> S]
            BY <2>5, <3>4
        <3>6. ASSUME NEW i \in DOMAIN s, NEW j \in DOMAIN s, i < j
              PROVE  s[i] < s[j]
            <4>1. i # Cardinality(S) /\ t[i] \in T
                BY <2>2, <3>4, <3>6
            <4>2. CASE j = Cardinality(S)
                <5>1. s[i] = t[i] /\ s[j] = n
                    BY <3>6, <4>1, <4>2
                <5>2. t[i] \in 1 .. n - 1
                    BY <3>1, <4>1
                <5> QED
                    BY <5>1, <5>2
            <4>3. CASE j # Cardinality(S)
                <5>1. s[i] = t[i] /\ s[j] = t[j]
                    BY <3>6, <4>1, <4>3
                <5>2. i \in 1 .. Cardinality(T) /\ j \in 1 .. Cardinality(T)
                    BY <2>2, <3>3, <3>6, <4>1, <4>3
                <5> QED
                    BY <3>2, <3>6, <5>1, <5>2 DEF Ordered
            <4> QED
                BY <4>2, <4>3
        <3> QED
            BY <3>5, <3>6 DEF Ordered
    <2> QED
        BY <2>3, <2>4, <2>5
<1> HIDE DEF Good
<1>2. \A n \in Nat : n \in Good
    BY <1>1, AllNumbers
<1> QED
    BY <1>2 DEF Good

\* In order, they are a sequence that has each of them.
LEMMA InOrderFacts ==
    ASSUME NEW n \in Nat, NEW S \in SUBSET (1 .. n)
    PROVE  /\ InOrder(S) \in Seq(S)
           /\ Len(InOrder(S)) = Cardinality(S)
           /\ \A i, j \in 1 .. Len(InOrder(S)) : i < j => InOrder(S)[i] < InOrder(S)[j]
           /\ \A x \in S : \E i \in 1 .. Len(InOrder(S)) : InOrder(S)[i] = x
<1>1. IsFiniteSet(S) /\ Cardinality(S) \in Nat
    <2>1. IsFiniteSet(1 .. n)
        BY FS_Interval
    <2> QED
        BY <2>1, FS_Subset, FS_CardinalityType
<1>2. PICK s : s = InOrder(S)
    OBVIOUS
<1>3. Ordered(S, s)
    <2>1. \E t : Ordered(S, t)
        BY OrderExists
    <2>2. \E t \in [1 .. Cardinality(S) -> S] : \A i, j \in DOMAIN t : i < j => t[i] < t[j]
        BY <2>1 DEF Ordered
    <2> QED
        BY <1>2, <2>2 DEF InOrder, Ordered
<1>4. s \in Injection(1 .. Cardinality(S), S)
    <2>1. ASSUME NEW i \in 1 .. Cardinality(S), NEW j \in 1 .. Cardinality(S), s[i] = s[j]
          PROVE  i = j
        <3>1. s[i] \in 1 .. n /\ s[j] \in 1 .. n
            BY <1>3 DEF Ordered
        <3>2. ~ (i < j) /\ ~ (j < i)
            BY <1>3, <2>1, <3>1 DEF Ordered
        <3> QED
            BY <1>1, <3>2
    <2> QED
        BY <1>3, <2>1 DEF Ordered, Injection, IsInjective
<1>5. IsFiniteSet(1 .. Cardinality(S)) /\ Cardinality(1 .. Cardinality(S)) = Cardinality(S)
    BY <1>1, FS_Interval
<1>6. s \in Surjection(1 .. Cardinality(S), S)
    BY <1>1, <1>4, <1>5, FS_Injection
<1>7. s \in Seq(S) /\ Len(s) = Cardinality(S)
    BY <1>1, <1>3 DEF Ordered
<1> QED
    BY <1>2, <1>3, <1>6, <1>7 DEF Ordered, Surjection

-----------------------------------------------------------------------------
(* What the planner makes of steps *)

Batches == [queue : Queues, first : 1 .. Len(queues), last : 1 .. Len(queues), preds : Seq(Nat)]

\* The batches are runs of steps on one queue, one after the other, which come
\* after earlier ones.
IsPlan(P) ==
    /\ P \in Seq(Batches)
    /\ P = <<>> <=> queues = <<>>
    /\ P # <<>> => P[1].first = 1 /\ P[Len(P)].last = Len(queues)
    /\ \A b \in 1 .. Len(P) :
        /\ P[b].first <= P[b].last
        /\ \A i \in P[b].first .. P[b].last : queues[i] = P[b].queue
        /\ b > 1 => P[b].first = P[b - 1].last + 1
        /\ \A k \in 1 .. Len(P[b].preds) : P[b].preds[k] \in 1 .. b - 1

\* Where the runs of steps on one queue begin.
RunStarts == {i \in DOMAIN queues : i > 1 => queues[i] # queues[i - 1]}

\* Up to the next of these, all steps are on one queue.
LEMMA RunsAreOnOneQueue ==
    ASSUME queues \in Seq(Queues), NEW first \in 1 .. Len(queues), NEW last \in 1 .. Len(queues),
           \A i \in RunStarts : i <= first \/ i > last
    PROVE  \A i \in first .. last : queues[i] = queues[first]
<1> DEFINE Odd == {i \in first .. last : queues[i] # queues[first]}
<1> SUFFICES ASSUME Odd # {}
             PROVE  FALSE
    OBVIOUS
<1>1. PICK i \in Odd : \A j \in Odd : i <= j
    <2>1. Odd \in SUBSET Nat
        OBVIOUS
    <2> QED
        BY <2>1, FirstNumber
<1>2. i # first /\ i - 1 \in first .. last /\ i - 1 \notin Odd
    BY <1>1
<1>3. queues[i] # queues[i - 1]
    BY <1>1, <1>2
<1>4. i \in RunStarts
    BY <1>2, <1>3 DEF RunStarts
<1> QED
    BY <1>2, <1>4

LEMMA PlanOfChain ==
    ASSUME queues \in Seq(Queues)
    PROVE  /\ IsPlan(PlanBatches)
           /\ \A b \in 1 .. Len(PlanBatches) :
                PlanBatches[b].preds = IF b = 1 THEN <<>> ELSE <<b - 1>>
<1>0. PICK s : s = InOrder(RunStarts)
    OBVIOUS
<1> DEFINE n == Len(queues)
           m == Len(s)
           end(b) == IF b = m THEN n ELSE s[b + 1] - 1
<1>1. n \in Nat /\ DOMAIN queues = 1 .. n /\ RunStarts \in SUBSET (1 .. n)
    BY DEF RunStarts
<1>2. /\ s \in Seq(RunStarts)
      /\ \A i, j \in 1 .. m : i < j => s[i] < s[j]
      /\ \A x \in RunStarts : \E i \in 1 .. m : s[i] = x
    BY <1>0, <1>1, InOrderFacts
<1>3. m \in Nat /\ DOMAIN s = 1 .. m /\ \A b \in 1 .. m : s[b] \in RunStarts /\ s[b] \in 1 .. n
    <2>1. m \in Nat /\ DOMAIN s = 1 .. m
        BY <1>2, LenProperties
    <2>2. \A b \in 1 .. m : s[b] \in RunStarts
        BY <1>2, ElementOfSeq
    <2> QED
        BY <1>1, <2>1, <2>2
<1>4. PlanBatches = [b \in 1 .. m |-> [queue |-> queues[s[b]], first |-> s[b], last |-> end(b),
                                       preds |-> IF b = 1 THEN <<>> ELSE <<b - 1>>]]
    <2>1. \A b \in 1 .. m : ChainPreds(b)[b] = IF b = 1 THEN <<>> ELSE <<b - 1>>
        BY <1>3 DEF ChainPreds
    <2> QED
        BY <1>0, <1>3, <2>1 DEF PlanBatches, Batch, RunStarts
<1>5. \A b \in 1 .. m : /\ end(b) \in 1 .. n /\ s[b] <= end(b)
                        /\ \A i \in RunStarts : i <= s[b] \/ i > end(b)
    <2> SUFFICES ASSUME NEW b \in 1 .. m
                 PROVE  /\ end(b) \in 1 .. n /\ s[b] <= end(b)
                        /\ \A i \in RunStarts : i <= s[b] \/ i > end(b)
        OBVIOUS
    <2>1. \A i \in 1 .. m : i < b => s[i] < s[b]
        BY <1>2
    <2>2. CASE b = m
        <3>1. \A i \in RunStarts : i <= s[b]
            BY <1>2, <1>3, <2>1, <2>2
        <3> QED
            BY <1>1, <1>3, <2>2, <3>1
    <2>3. CASE b # m
        <3>1. b + 1 \in 1 .. m /\ s[b] < s[b + 1] /\ s[b + 1] \in 1 .. n /\ s[b] \in 1 .. n
            <4>1. b + 1 \in 1 .. m /\ b < b + 1
                <5>1. m \in Nat
                    BY <1>3
                <5> QED
                    BY <2>3, <5>1
            <4> QED
                BY <1>2, <1>3, <4>1
        <3>2. \A i \in 1 .. m : i > b + 1 => s[i] > s[b + 1]
            BY <1>2, <3>1
        <3>3. \A i \in 1 .. m : s[i] <= s[b] \/ s[i] >= s[b + 1]
            BY <1>3, <2>1, <3>1, <3>2
        <3>4. \A i \in RunStarts : i <= s[b] \/ i >= s[b + 1]
            BY <1>2, <3>3
        <3> QED
            <4>1. end(b) = s[b + 1] - 1
                BY <2>3
            <4>2. \A i \in RunStarts : i <= s[b] \/ i > s[b + 1] - 1
                BY <1>1, <3>1, <3>4
            <4> QED
                BY <1>1, <3>1, <4>1, <4>2
    <2> QED
        BY <2>2, <2>3
<1>6. \A b \in 1 .. m : \A i \in s[b] .. end(b) : queues[i] = queues[s[b]]
    <2> SUFFICES ASSUME NEW b \in 1 .. m
                 PROVE  \A i \in s[b] .. end(b) : queues[i] = queues[s[b]]
        OBVIOUS
    <2> QED
        BY <1>3, <1>5, RunsAreOnOneQueue
<1>7. n # 0 => m # 0 /\ s[1] = 1
    <2> SUFFICES ASSUME n # 0
                 PROVE  m # 0 /\ s[1] = 1
        OBVIOUS
    <2>1. 1 \in RunStarts
        BY <1>1 DEF RunStarts
    <2>2. PICK i \in 1 .. m : s[i] = 1
        BY <1>2, <2>1
    <2>3. i = 1
        BY <1>2, <1>3, <2>2
    <2> QED
        BY <1>3, <2>2, <2>3
<1>8. m = 0 <=> n = 0
    BY <1>1, <1>3, <1>7
<1>9. PlanBatches \in Seq(Batches) /\ Len(PlanBatches) = m
    <2>1. \A b \in 1 .. m : PlanBatches[b] \in Batches
        <3> SUFFICES ASSUME NEW b \in 1 .. m
                     PROVE  PlanBatches[b] \in Batches
            OBVIOUS
        <3>1. (IF b = 1 THEN <<>> ELSE <<b - 1>>) \in Seq(Nat)
            BY <1>3
        <3>2. queues[s[b]] \in Queues
            BY <1>3
        <3> QED
            BY <1>3, <1>4, <1>5, <3>1, <3>2 DEF Batches
    <2> QED
        <3>1. PICK P : P = PlanBatches
            OBVIOUS
        <3>2. P \in [1 .. m -> Batches]
            BY <1>4, <2>1, <3>1
        <3> QED
            BY <1>3, <3>1, <3>2
<1>10. IsPlan(PlanBatches)
    <2>1. PlanBatches = <<>> <=> queues = <<>>
        BY <1>1, <1>8, <1>9
    <2>2. PlanBatches # <<>> =>
              PlanBatches[1].first = 1 /\ PlanBatches[Len(PlanBatches)].last = Len(queues)
        <3> SUFFICES ASSUME m # 0
                     PROVE  PlanBatches[1].first = 1 /\ PlanBatches[m].last = n
            BY <1>8, <1>9, <2>1
        <3>1. 1 \in 1 .. m /\ m \in 1 .. m
            BY <1>3
        <3>2. PlanBatches[1].first = s[1] /\ PlanBatches[m].last = end(m)
            BY <1>4, <3>1
        <3> QED
            BY <1>1, <1>7, <1>8, <3>2
    <2>3. ASSUME NEW b \in 1 .. Len(PlanBatches)
          PROVE  /\ PlanBatches[b].first <= PlanBatches[b].last
                 /\ \A i \in PlanBatches[b].first .. PlanBatches[b].last :
                        queues[i] = PlanBatches[b].queue
                 /\ b > 1 => PlanBatches[b].first = PlanBatches[b - 1].last + 1
                 /\ \A k \in 1 .. Len(PlanBatches[b].preds) :
                        PlanBatches[b].preds[k] \in 1 .. b - 1
        <3>1. b \in 1 .. m /\ PlanBatches[b].first = s[b] /\ PlanBatches[b].last = end(b)
              /\ PlanBatches[b].queue = queues[s[b]]
            BY <1>4, <1>9
        <3>0. b \in 1 .. m /\ m \in Nat
            BY <1>3, <3>1
        <3>2. b > 1 => s[b] = PlanBatches[b - 1].last + 1
            <4> SUFFICES ASSUME b > 1
                         PROVE  s[b] = PlanBatches[b - 1].last + 1
                OBVIOUS
            <4>0. PICK c \in Nat : c = b /\ c <= m /\ c > 1
                BY <3>0
            <4>1. b - 1 \in 1 .. m /\ b - 1 # m
                BY <3>0, <4>0
            <4>2. PlanBatches[b - 1].last = s[b - 1 + 1] - 1
                BY <1>4, <4>1
            <4>3. s[b] \in 1 .. n
                BY <1>3, <3>1
            <4>5. b - 1 + 1 = b
                BY <3>0
            <4> QED
                BY <4>2, <4>3, <4>5
        <3>3. \A k \in 1 .. Len(PlanBatches[b].preds) : PlanBatches[b].preds[k] \in 1 .. b - 1
            <4>1. PlanBatches[b].preds = IF b = 1 THEN <<>> ELSE <<b - 1>>
                BY <1>4, <3>1
            <4>2. PICK c \in Nat : c = b /\ c # 0
                BY <3>0
            <4>3. CASE c = 1
                BY <4>1, <4>2, <4>3
            <4>4. CASE c # 1
                <5>1. PlanBatches[b].preds = <<c - 1>> /\ c - 1 \in 1 .. c - 1
                    BY <4>1, <4>2, <4>4
                <5> QED
                    BY <4>2, <5>1
            <4> QED
                BY <4>3, <4>4
        <3> QED
            BY <1>5, <1>6, <3>1, <3>2, <3>3
    <2> QED
        BY <1>9, <2>1, <2>2, <2>3 DEF IsPlan
<1> QED
    BY <1>4, <1>9, <1>10

\* A graph with explicit edges has a batch for every step.
LEMMA PlanOfDag ==
    ASSUME queues \in Seq(Queues), preds \in Seq(Seq(Nat)), Len(preds) = Len(queues),
           \A i \in 1 .. Len(preds) : \A k \in 1 .. Len(preds[i]) : preds[i][k] \in 1 .. i - 1
    PROVE  /\ IsPlan(PlanDag)
           /\ Len(PlanDag) = Len(queues)
           /\ \A b \in 1 .. Len(queues) : PlanDag[b] = Batch(queues[b], b, b, preds[b])
<1> DEFINE n == Len(queues)
<1>1. n \in Nat /\ DOMAIN queues = 1 .. n /\ DOMAIN preds = 1 .. n
    OBVIOUS
<1>2. PICK P : P = PlanDag
    OBVIOUS
<1>3. P = [b \in 1 .. n |-> [queue |-> queues[b], first |-> b, last |-> b, preds |-> preds[b]]]
    BY <1>1, <1>2 DEF PlanDag, Batch
<1>4. \A b \in 1 .. n : P[b] \in Batches
    BY <1>1, <1>3 DEF Batches
<1>5. P \in [1 .. n -> Batches]
    BY <1>3, <1>4
<1>6. P \in Seq(Batches) /\ Len(P) = n
    <2>1. PICK m \in Nat : m = n
        BY <1>1
    <2>2. P \in [1 .. m -> Batches]
        BY <1>5, <2>1
    <2>3. P \in Seq(Batches) /\ Len(P) = m
        BY <2>2
    <2> QED
        BY <2>1, <2>3
<1>7. IsPlan(P)
    BY <1>1, <1>3, <1>6 DEF IsPlan
<1> QED
    BY <1>1, <1>2, <1>3, <1>6, <1>7 DEF Batch

\* A batch ends before the later ones begin.
LEMMA BatchesInOrder ==
    ASSUME NEW P, IsPlan(P)
    PROVE  \A c \in 1 .. Len(P) : \A b \in 1 .. c - 1 : P[b].last < P[c].first
<1> DEFINE Good == {c \in Nat : c \in 1 .. Len(P) =>
                        \A b \in 1 .. c - 1 : P[b].last < P[c].first}
<1>1. Len(P) \in Nat /\ \A b \in 1 .. Len(P) : P[b] \in Batches
    BY LenProperties, ElementOfSeq DEF IsPlan
<1>2. \A b \in 1 .. Len(P) : P[b].first \in Nat /\ P[b].last \in Nat
    BY <1>1 DEF Batches
<1>3. ASSUME NEW c \in Nat, \A d \in 0 .. c - 1 : d \in Good
      PROVE  c \in Good
    <2> SUFFICES ASSUME c \in 1 .. Len(P), NEW b \in 1 .. c - 1
                 PROVE  P[b].last < P[c].first
        OBVIOUS
    <2>1. c > 1 /\ c - 1 \in 1 .. Len(P) /\ b \in 1 .. Len(P)
        BY <1>1
    <2>2. P[c].first = P[c - 1].last + 1 /\ P[c - 1].first <= P[c - 1].last
        BY <2>1 DEF IsPlan
    <2>3. CASE b = c - 1
        BY <1>2, <2>1, <2>2, <2>3
    <2>4. CASE b # c - 1
        <3>1. c - 1 \in Good /\ b \in 1 .. c - 1 - 1
            BY <1>3, <2>4
        <3>2. P[b].last < P[c - 1].first
            BY <2>1, <3>1
        <3> QED
            BY <1>2, <2>1, <2>2, <3>2
    <2> QED
        BY <2>3, <2>4
<1> HIDE DEF Good
<1>4. \A c \in Nat : c \in Good
    BY <1>3, AllNumbers
<1> QED
    BY <1>1, <1>4 DEF Good

\* Every step is in one batch.
LEMMA EveryStepHasABatch ==
    ASSUME NEW P, IsPlan(P), queues \in Seq(Queues), NEW i \in 1 .. Len(queues)
    PROVE  \E b \in 1 .. Len(P) : i \in P[b].first .. P[b].last
<1> DEFINE After == {b \in 1 .. Len(P) : i <= P[b].last}
<1>1. Len(P) \in Nat /\ \A b \in 1 .. Len(P) : P[b] \in Batches
    BY LenProperties, ElementOfSeq DEF IsPlan
<1>2. \A b \in 1 .. Len(P) : P[b].first \in Nat /\ P[b].last \in Nat
    BY <1>1 DEF Batches
<1>3. queues # <<>> /\ P # <<>>
    BY DEF IsPlan
<1>4. Len(P) \in 1 .. Len(P) /\ P[Len(P)].last = Len(queues)
    BY <1>1, <1>3, EmptySeq DEF IsPlan
<1>5. After # {}
    BY <1>4
<1>6. PICK b \in After : \A c \in After : b <= c
    <2>1. After \in SUBSET Nat
        BY <1>1
    <2> QED
        BY <1>5, <2>1, FirstNumber
<1>7. CASE b = 1
    BY <1>2, <1>3, <1>6, <1>7 DEF IsPlan
<1>8. CASE b # 1
    <2>1. b - 1 \in 1 .. Len(P) /\ b - 1 \notin After
        BY <1>1, <1>6, <1>8
    <2>2. P[b].first = P[b - 1].last + 1
        BY <1>6, <1>8 DEF IsPlan
    <2> QED
        BY <1>2, <1>6, <2>1, <2>2
<1> QED
    BY <1>7, <1>8

-----------------------------------------------------------------------------
(* The commands of steps *)

LEMMA ThreeTimes ==
    ASSUME NEW x \in Nat, NEW w \in Nat
    PROVE  (3 * x + w) % 3 = w % 3 /\ (3 * x + w) \div 3 = x + (w \div 3)
<1>1. PICK r \in 0 .. 2, q \in Nat : r = w % 3 /\ q = w \div 3 /\ w = 3 * q + r
    OBVIOUS
<1>2. 3 * x + w = 3 * (x + q) + r
    BY <1>1
<1> QED
    BY <1>1, <1>2

PartsOf == {"before", "step", "after"} \X Nat

\* For every step of a batch its barriers and itself, and nothing else.
LEMMA PartsFacts ==
    ASSUME NEW batch, NEW n \in Nat, batch.first \in Nat, batch.last \in Nat,
           n = batch.last - batch.first + 1
    PROVE  /\ Parts(batch) \in Seq(PartsOf)
           /\ Len(Parts(batch)) = 3 * n
           /\ \A k \in 1 .. 3 * n : Parts(batch)[k][2] \in batch.first .. batch.last
           /\ \A i \in batch.first .. batch.last :
                \E k \in 1 .. 3 * n : Parts(batch)[k] = <<"step", i>>
<1> DEFINE name == <<"before", "step", "after">>
<1>1. PICK P : P = Parts(batch)
    OBVIOUS
<1>2. P = [k \in 1 .. 3 * n |-> <<name[((k - 1) % 3) + 1], batch.first + ((k - 1) \div 3)>>]
    BY <1>1 DEF Parts
<1>3. ASSUME NEW k \in 1 .. 3 * n
      PROVE  /\ ((k - 1) % 3) + 1 \in 1 .. 3
             /\ batch.first + ((k - 1) \div 3) \in batch.first .. batch.last
    OBVIOUS
<1>4. \A j \in 1 .. 3 : name[j] \in {"before", "step", "after"}
    OBVIOUS
<1>5. \A k \in 1 .. 3 * n : P[k] \in PartsOf
    BY <1>2, <1>3, <1>4 DEF PartsOf
<1>6. P \in [1 .. 3 * n -> PartsOf]
    BY <1>2, <1>5
<1>7. P \in Seq(PartsOf) /\ Len(P) = 3 * n
    <2>1. PICK m \in Nat : m = 3 * n
        OBVIOUS
    <2>2. P \in [1 .. m -> PartsOf]
        BY <1>6, <2>1
    <2>3. P \in Seq(PartsOf) /\ Len(P) = m
        BY <2>2
    <2> QED
        BY <2>1, <2>3
<1>8. ASSUME NEW i \in batch.first .. batch.last
      PROVE  \E k \in 1 .. 3 * n : P[k] = <<"step", i>>
    <2>1. PICK d \in Nat : d = i - batch.first
        OBVIOUS
    <2>2. PICK k \in 1 .. 3 * n : k = 3 * d + 2
        BY <2>1
    <2>3. (k - 1) % 3 = 1 /\ (k - 1) \div 3 = d
        <3>1. k - 1 = 3 * d + 1
            BY <2>1, <2>2
        <3>2. (3 * d + 1) % 3 = 1 /\ (3 * d + 1) \div 3 = d
            OBVIOUS
        <3> QED
            BY <3>1, <3>2
    <2>4. P[k] = <<name[2], batch.first + d>>
        BY <1>2, <2>3
    <2> QED
        BY <2>1, <2>4
<1>9. \A k \in 1 .. 3 * n : P[k][2] \in batch.first .. batch.last
    BY <1>2, <1>3
<1> QED
    BY <1>1, <1>7, <1>8, <1>9

\* What FlattenSeq adds up is the only function of its kind.
AddsUp(f, seqs) ==
    f = [i \in 1 .. Len(seqs) |-> IF i = 1 THEN seqs[i] ELSE f[i - 1] \o seqs[i]]

LEMMA FlattenIs ==
    ASSUME NEW m \in Nat \ {0}, NEW seqs, Len(seqs) = m, NEW f, AddsUp(f, seqs)
    PROVE  FlattenSeq(seqs) = f[m]
<1>0. f = [i \in 1 .. m |-> IF i = 1 THEN seqs[i] ELSE f[i - 1] \o seqs[i]]
    BY DEF AddsUp
<1> DEFINE flatten[i \in 1 .. Len(seqs)] == IF i = 1 THEN seqs[i] ELSE flatten[i - 1] \o seqs[i]
<1>1. FlattenSeq(seqs) = flatten[m]
    BY DEF FlattenSeq
<1>2. PICK g : g = flatten
    OBVIOUS
<1>3. g = [i \in 1 .. m |-> IF i = 1 THEN seqs[i] ELSE g[i - 1] \o seqs[i]]
    BY <1>0, <1>2
<1> HIDE DEF flatten
<1> DEFINE Good == {i \in Nat : i \in 1 .. m => g[i] = f[i]}
<1>4. ASSUME NEW i \in Nat, \A j \in 0 .. i - 1 : j \in Good
      PROVE  i \in Good
    <2> SUFFICES ASSUME i \in 1 .. m
                 PROVE  g[i] = f[i]
        OBVIOUS
    <2>1. /\ g[i] = IF i = 1 THEN seqs[i] ELSE g[i - 1] \o seqs[i]
          /\ f[i] = IF i = 1 THEN seqs[i] ELSE f[i - 1] \o seqs[i]
        BY <1>0, <1>3
    <2>2. CASE i = 1
        BY <2>1, <2>2
    <2>3. CASE i # 1
        <3>1. i - 1 \in 0 .. i - 1 /\ i - 1 \in 1 .. m
            BY <2>3
        <3>2. i - 1 \in Good
            BY <1>4, <3>1
        <3> QED
            BY <2>1, <2>3, <3>1, <3>2
    <2> QED
        BY <2>2, <2>3
<1> HIDE DEF Good
<1>5. \A i \in Nat : i \in Good
    BY <1>4, AllNumbers
<1>6. g[m] = f[m]
    BY <1>5 DEF Good
<1> QED
    BY <1>1, <1>2, <1>6

\* One sequence is itself.
LEMMA FlattenOfOne ==
    ASSUME NEW s
    PROVE  FlattenSeq(<<s>>) = s
<1>0. PICK m \in Nat \ {0} : m = 1
    OBVIOUS
<1>1. PICK seqs, f : seqs = <<s>> /\ f = [i \in 1 .. m |-> s]
    OBVIOUS
<1>2. \A i \in 1 .. m : i = 1 /\ seqs[i] = s
    BY <1>0, <1>1
<1>4. Len(seqs) = m /\ f[m] = s
    BY <1>0, <1>1
<1>3. AddsUp(f, seqs)
    BY <1>1, <1>2, <1>4 DEF AddsUp
<1>5. FlattenSeq(seqs) = f[m]
    BY <1>3, <1>4, FlattenIs
<1> QED
    BY <1>1, <1>4, <1>5

\* Runs of steps that follow each other, the first of x and the second of z
\* steps, have the parts of the whole.
Follow(x, z, left, right, whole) ==
    /\ left.first = 1 /\ left.last = x
    /\ right.first = x + 1 /\ right.last = x + z
    /\ whole.first = 1 /\ whole.last = x + z

LEMMA PartsJoin ==
    ASSUME NEW x \in Nat, NEW z \in Nat, NEW left, NEW right, NEW whole,
           Follow(x, z, left, right, whole)
    PROVE  Parts(whole) = Parts(left) \o Parts(right)
<1>0. /\ left.first = 1 /\ left.last = x
      /\ right.first = x + 1 /\ right.last = x + z
      /\ whole.first = 1 /\ whole.last = x + z
    BY DEF Follow
<1>1. PICK u, v, w : u = Parts(whole) /\ v = Parts(left) /\ w = Parts(right)
    OBVIOUS
<1>2. u \in Seq(PartsOf) /\ Len(u) = 3 * (x + z)
    <2>1. whole.first \in Nat /\ whole.last \in Nat /\ x + z = whole.last - whole.first + 1
          /\ x + z \in Nat
        BY <1>0
    <2> QED
        BY <1>1, <2>1, PartsFacts
<1>3. v \in Seq(PartsOf) /\ Len(v) = 3 * x
    <2>1. left.first \in Nat /\ left.last \in Nat /\ x = left.last - left.first + 1
        BY <1>0
    <2> QED
        BY <1>1, <2>1, PartsFacts
<1>4. w \in Seq(PartsOf) /\ Len(w) = 3 * z
    <2>1. right.first \in Nat /\ right.last \in Nat /\ z = right.last - right.first + 1
        BY <1>0
    <2> QED
        BY <1>1, <2>1, PartsFacts
<1> DEFINE name == <<"before", "step", "after">>
           part(first, k) == <<name[((k - 1) % 3) + 1], first + ((k - 1) \div 3)>>
<1>5. /\ \A k \in 1 .. 3 * (x + z) : u[k] = part(1, k)
      /\ \A k \in 1 .. 3 * x : v[k] = part(1, k)
      /\ \A k \in 1 .. 3 * z : w[k] = part(x + 1, k)
    <2>1. whole.last - whole.first + 1 = x + z /\ left.last - left.first + 1 = x
          /\ right.last - right.first + 1 = z
        BY <1>0
    <2>2. u = [k \in 1 .. 3 * (x + z) |-> part(1, k)]
        BY <1>0, <1>1, <2>1 DEF Parts
    <2>3. v = [k \in 1 .. 3 * x |-> part(1, k)]
        BY <1>0, <1>1, <2>1 DEF Parts
    <2>4. w = [k \in 1 .. 3 * z |-> part(x + 1, k)]
        BY <1>0, <1>1, <2>1 DEF Parts
    <2> HIDE DEF part
    <2> QED
        BY <2>2, <2>3, <2>4
<1>6. \A j \in 1 .. 3 * z : part(1, 3 * x + j) = part(x + 1, j)
    <2> SUFFICES ASSUME NEW j \in 1 .. 3 * z
                 PROVE  part(1, 3 * x + j) = part(x + 1, j)
        OBVIOUS
    <2>1. 3 * x + j - 1 = 3 * x + (j - 1) /\ j - 1 \in Nat
        OBVIOUS
    <2>2. /\ (3 * x + (j - 1)) % 3 = (j - 1) % 3
          /\ (3 * x + (j - 1)) \div 3 = x + ((j - 1) \div 3)
        BY <2>1, ThreeTimes
    <2>3. (j - 1) \div 3 \in Nat
        BY <2>1
    <2>4. 1 + (x + ((j - 1) \div 3)) = x + 1 + ((j - 1) \div 3)
        BY <2>3
    <2> QED
        BY <2>1, <2>2, <2>4
<1> HIDE DEF part
<1>7. /\ v \o w \in Seq(PartsOf) /\ Len(v \o w) = 3 * (x + z)
      /\ \A k \in 1 .. 3 * (x + z) : (v \o w)[k] = IF k <= 3 * x THEN v[k] ELSE w[k - 3 * x]
    <2>1. /\ v \o w \in Seq(PartsOf) /\ Len(v \o w) = Len(v) + Len(w)
          /\ \A k \in 1 .. Len(v) + Len(w) :
                (v \o w)[k] = IF k <= Len(v) THEN v[k] ELSE w[k - Len(v)]
        BY <1>3, <1>4, ConcatProperties
    <2>2. Len(v) + Len(w) = 3 * (x + z)
        BY <1>3, <1>4
    <2> QED
        BY <1>3, <2>1, <2>2
<1>8. ASSUME NEW k \in 1 .. 3 * (x + z)
      PROVE  u[k] = (v \o w)[k]
    <2>1. CASE k <= 3 * x
        <3>1. k \in 1 .. 3 * x
            BY <2>1
        <3> QED
            BY <1>5, <1>7, <2>1, <3>1
    <2>2. CASE k > 3 * x
        <3>1. PICK j \in 1 .. 3 * z : k = 3 * x + j /\ j = k - 3 * x
            BY <2>2
        <3>2. (v \o w)[k] = w[j]
            BY <1>7, <2>2, <3>1
        <3> QED
            BY <1>5, <1>6, <3>1, <3>2
    <2>3. k <= 3 * x \/ k > 3 * x
        OBVIOUS
    <2> QED
        BY <2>1, <2>2, <2>3
<1>9. u = v \o w
    BY <1>2, <1>7, <1>8, SeqEqual
<1> QED
    BY <1>1, <1>9

Whole == [first |-> 1, last |-> Len(queues)]

\* What the batches of a plan have, left after the other, is what the graph has.
LEMMA WantedIsWhole ==
    ASSUME queues \in Seq(Queues), IsPlan(RecordedPlan)
    PROVE  Wanted = Parts(Whole)
<1>1. PICK P : P = RecordedPlan
    OBVIOUS
<1>2. IsPlan(P)
    BY <1>1
<1>3. PICK m : m = Len(P)
    OBVIOUS
<1>30. m \in Nat /\ DOMAIN P = 1 .. m
    BY <1>2, <1>3, LenProperties DEF IsPlan
<1>4. PICK seqs : seqs = [b \in 1 .. m |-> Parts(P[b])]
    OBVIOUS
<1>5. Wanted = FlattenSeq(seqs) /\ Len(seqs) = m
    <2>1. Wanted = FlattenSeq(seqs)
        BY <1>1, <1>4, <1>30 DEF Wanted
    <2> QED
        BY <1>30, <1>4, <2>1
<1>6. CASE m = 0
    <2>1. queues = <<>> /\ Len(queues) = 0
        BY <1>2, <1>3, <1>6, EmptySeq DEF IsPlan
    <2>2. Wanted = seqs
        BY <1>5, <1>6 DEF FlattenSeq
    <2>3. Parts(Whole) = [k \in 1 .. 0 |-> 0]
        BY <2>1 DEF Parts, Whole
    <2> QED
        BY <1>4, <1>6, <2>2, <2>3
<1>7. CASE m # 0
    <2> DEFINE Upto(b) == [first |-> 1, last |-> P[b].last]
    <2>1. PICK f : f = [b \in 1 .. m |-> Parts(Upto(b))]
        OBVIOUS
    <2>2. \A b \in 1 .. m : P[b].first \in Nat /\ P[b].last \in Nat /\ P[b].first <= P[b].last
        <3>1. \A b \in 1 .. m : P[b] \in Batches
            BY <1>2, <1>3, ElementOfSeq DEF IsPlan
        <3>2. Len(queues) \in Nat
            OBVIOUS
        <3>3. \A b \in 1 .. m : P[b].first \in 1 .. Len(queues) /\ P[b].last \in 1 .. Len(queues)
            BY <3>1 DEF Batches
        <3> QED
            BY <1>2, <1>3, <3>2, <3>3 DEF IsPlan
    <2>3. P[1].first = 1 /\ P[m].last = Len(queues)
        BY <1>2, <1>3, <1>30, <1>7, EmptySeq DEF IsPlan
    <2>4. ASSUME NEW b \in 1 .. m, b # 1
          PROVE  f[b] = f[b - 1] \o seqs[b]
        <3>1. P[b].first = P[b - 1].last + 1 /\ b - 1 \in 1 .. m
            BY <1>2, <1>3, <1>30, <2>4 DEF IsPlan
        <3>2. PICK x \in Nat, z \in Nat : x = P[b - 1].last /\ z = P[b].last - P[b].first + 1
            BY <2>2, <3>1
        <3>3. P[b].first = x + 1 /\ P[b].last = x + z
            BY <2>2, <3>1, <3>2
        <3>4. /\ Upto(b - 1).first = 1 /\ Upto(b - 1).last = x
              /\ Upto(b).first = 1 /\ Upto(b).last = x + z
            BY <3>2, <3>3
        <3> HIDE DEF Upto
        <3>5. Follow(x, z, Upto(b - 1), P[b], Upto(b))
            BY <3>3, <3>4 DEF Follow
        <3>6. Parts(Upto(b)) = Parts(Upto(b - 1)) \o Parts(P[b])
            BY <3>2, <3>5, PartsJoin
        <3> QED
            BY <1>4, <2>1, <3>1, <3>6
    <2>5. AddsUp(f, seqs)
        <3>0. 1 \in 1 .. m
            BY <1>30, <1>7
        <3>1. Parts(Upto(1)) = seqs[1]
            BY <1>4, <2>3, <3>0 DEF Parts
        <3> HIDE DEF Upto
        <3>2. \A b \in 1 .. m : f[b] = IF b = 1 THEN seqs[b] ELSE f[b - 1] \o seqs[b]
            BY <2>1, <2>4, <3>1
        <3>3. f = [b \in 1 .. m |-> IF b = 1 THEN seqs[b] ELSE f[b - 1] \o seqs[b]]
            BY <2>1, <3>2
        <3> QED
            BY <1>5, <3>3 DEF AddsUp
    <2>6. FlattenSeq(seqs) = f[m]
        <3> HIDE DEF Upto
        <3>1. m \in Nat \ {0}
            BY <1>30, <1>7
        <3>2. Len(seqs) = m
            BY <1>5
        <3> QED
            BY <2>5, <3>1, <3>2, FlattenIs
    <2>7. f[m] = Parts(Whole)
        <3>1. f[m] = Parts(Upto(m))
            BY <1>30, <1>7, <2>1
        <3> QED
            BY <2>3, <3>1 DEF Whole
    <2> QED
        BY <1>5, <2>6, <2>7
<1> QED
    BY <1>6, <1>7

-----------------------------------------------------------------------------
(* The inductive invariant of Recording *)

StepParts == {"before", "step", "after"} \X (1 .. Len(queues))

Scopes == [queue : Queues, ended : BOOLEAN, commands : Seq(StepParts)]

RGiven ==
    /\ queues \in Seq(Queues) /\ preds \in {<<>>, ChainPreds(Len(queues))}
    /\ passes \in Seq(StepKinds) /\ DOMAIN passes = 1 .. Len(queues)
    /\ DOMAIN sets = 1 .. Len(queues)
    /\ external \in BOOLEAN /\ shows \subseteq 1 .. Len(queues)
    /\ external => ~ presenting
    /\ ~ presenting => shows = {}

\* How many scopes a recorded graph has, what is recorded into one, and on
\* which queue it is.
Places == IF external \/ RecordedPlan = <<>> THEN 1 ELSE Len(RecordedPlan)
Expected(s) ==
    IF external THEN Wanted
    ELSE IF RecordedPlan = <<>> THEN <<>> ELSE Parts(RecordedPlan[s])
OnQueue(s, q) ==
    IF external THEN \A b \in 1 .. Len(RecordedPlan) : RecordedPlan[b].queue = q
    ELSE RecordedPlan # <<>> => RecordedPlan[s].queue = q

\* Scope s is over and has what it should have.
Ended(s) == opened[s].ended /\ opened[s].commands = Expected(s)

RScopes ==
    /\ opened \in Seq(Scopes)
    /\ stage \in {"start", "refused", "failed"} => opened = <<>>
    /\ stage \in {"planned", "recording", "recorded"} \/ gpu # "none" =>
        /\ Len(opened) <= Places
        /\ \A s \in 1 .. Len(opened) : OnQueue(s, opened[s].queue)
        /\ \A s \in 1 .. Len(opened) : stage # "recording" \/ s < Len(opened) => Ended(s)
    /\ stage \in {"start", "planned"} => Len(opened) < Places /\ todo = <<>>
    /\ stage = "recording" =>
        /\ opened # <<>> /\ todo \in Seq(StepParts)
        /\ opened[Len(opened)].commands \o todo = Expected(Len(opened))
    /\ stage = "recorded" \/ gpu # "none" => Len(opened) = Places

\* What the steps declare is enough.
Fits ==
    /\ \E typed \in BOOLEAN : \A i \in DOMAIN passes :
            Declares(passes[i], typed, CrossesFamilies(RecordedPlan))
    /\ ImageFits(RecordedPlan)

RFits == stage \in {"planned", "recording", "recorded"} \/ gpu # "none" => Fits

RGpu ==
    /\ stage \in {"start", "refused", "planned", "recording", "failed", "recorded",
                  "finishing", "retired", "terminated"}
    /\ gpu \in {"none", "running", "done"}
    /\ gpu = "running" => stage \in {"recorded", "terminated"}
    /\ gpu = "done" => stage \in {"recorded", "terminated", "finishing", "retired"}
    /\ stage = "finishing" => gpu = "done"

\* The binding steps that have been recorded hold their sets.
RHeld ==
    stage \in {"start", "planned", "recording", "recorded", "terminated"} =>
        \A s \in 1 .. Len(opened) : \A k \in 1 .. Len(opened[s].commands) :
            Binds(opened[s].commands[k]) => sets[opened[s].commands[k][2]] = "held"

ROwner ==
    /\ lifecycle \in [Objects -> {"recorded", "submitted", "retired"}]
    /\ \A o \in Objects : lifecycle[o] # "retired" <=> owner = o
    /\ stage = "finishing" /\ external => owner = "call"
    /\ stage = "recording" => owner = IF external THEN "call" ELSE "operation"
    /\ stage \in {"start", "refused", "planned"} => owner \in {"operation"}
    /\ owner = "nobody" =>
        /\ stage \in {"refused", "failed", "retired"}
        /\ \A i \in 1 .. Len(queues) : sets[i] # "held"

CallSet == {"after_gpu", "commit"} \X Nat

RCalls ==
    /\ stage = "finishing" =>
        calls \in Seq(CallSet) /\ todo \in Seq(CallSet) /\ calls \o todo = CallbacksInOrder
    /\ stage \in {"finishing", "retired"} => IsPrefix(calls, CallbacksInOrder)
    /\ stage \notin {"finishing", "retired"} => calls = <<>>
    /\ calls # <<>> => gpu = "done"

RecordingInv == RGiven /\ RScopes /\ RFits /\ RGpu /\ RHeld /\ ROwner /\ RCalls

-----------------------------------------------------------------------------
(* What is still to do is done *)

LEMMA MovesOver ==
    ASSUME NEW S, NEW c \in Seq(S), NEW t \in Seq(S), t # <<>>
    PROVE  /\ Head(t) \in S /\ Tail(t) \in Seq(S) /\ Append(c, Head(t)) \in Seq(S)
           /\ Append(c, Head(t)) \o Tail(t) = c \o t
<1>1. Head(t) \in S /\ Tail(t) \in Seq(S) /\ Len(Tail(t)) = Len(t) - 1
      /\ \A i \in 1 .. Len(Tail(t)) : Tail(t)[i] = t[i + 1]
    BY HeadTailProperties
<1>2. Append(c, Head(t)) \in Seq(S) /\ Len(Append(c, Head(t))) = Len(c) + 1
      /\ \A i \in 1 .. Len(c) : Append(c, Head(t))[i] = c[i]
      /\ Append(c, Head(t))[Len(c) + 1] = Head(t)
    BY <1>1, AppendProperties
<1>3. PICK a, r : a = Append(c, Head(t)) /\ r = Tail(t)
    OBVIOUS
<1>4. Len(c) \in Nat /\ Len(t) \in Nat \ {0}
    BY EmptySeq, LenProperties
<1>5. /\ a \o r \in Seq(S) /\ Len(a \o r) = Len(a) + Len(r)
      /\ \A i \in 1 .. Len(a) + Len(r) : (a \o r)[i] = IF i <= Len(a) THEN a[i] ELSE r[i - Len(a)]
    BY <1>1, <1>2, <1>3, ConcatProperties
<1>6. /\ c \o t \in Seq(S) /\ Len(c \o t) = Len(c) + Len(t)
      /\ \A i \in 1 .. Len(c) + Len(t) : (c \o t)[i] = IF i <= Len(c) THEN c[i] ELSE t[i - Len(c)]
    BY ConcatProperties
<1>7. Len(a) = Len(c) + 1 /\ Len(r) = Len(t) - 1
    BY <1>1, <1>2, <1>3
<1>8. ASSUME NEW i \in 1 .. Len(c) + Len(t)
      PROVE  (a \o r)[i] = (c \o t)[i]
    <2>1. (a \o r)[i] = IF i <= Len(a) THEN a[i] ELSE r[i - Len(a)]
        BY <1>4, <1>5, <1>7
    <2>2. (c \o t)[i] = IF i <= Len(c) THEN c[i] ELSE t[i - Len(c)]
        BY <1>6
    <2>3. CASE i <= Len(c)
        BY <1>2, <1>3, <1>4, <1>7, <2>1, <2>2, <2>3
    <2>4. CASE i = Len(c) + 1
        <3>1. (a \o r)[i] = Head(t)
            BY <1>2, <1>3, <1>4, <1>7, <2>1, <2>4
        <3>2. (c \o t)[i] = t[1]
            BY <1>4, <2>2, <2>4
        <3> QED
            BY <3>1, <3>2, HeadTailProperties
    <2>5. CASE i > Len(c) + 1
        <3>0. PICK j : j = i - Len(a)
            OBVIOUS
        <3>1. j \in 1 .. Len(t) - 1 /\ j = i - Len(a) /\ j + 1 = i - Len(c)
            BY <1>4, <1>7, <2>5, <3>0
        <3>2. (a \o r)[i] = r[j]
            BY <1>4, <1>7, <2>1, <2>5, <3>1
        <3>3. (c \o t)[i] = t[j + 1]
            BY <1>4, <2>2, <2>5, <3>1
        <3>4. r[j] = t[j + 1]
            BY <1>1, <1>3, <1>7, <3>1
        <3> QED
            BY <3>2, <3>3, <3>4
    <2>6. i <= Len(c) \/ i = Len(c) + 1 \/ i > Len(c) + 1
        BY <1>4
    <2> QED
        BY <2>3, <2>4, <2>5, <2>6
<1>9. Len(a \o r) = Len(c \o t)
    BY <1>4, <1>5, <1>6, <1>7
<1>10. a \o r = c \o t
    BY <1>5, <1>6, <1>8, <1>9, SeqEqual
<1> QED
    BY <1>1, <1>2, <1>3, <1>10

LEMMA PrefixOf ==
    ASSUME NEW S, NEW c \in Seq(S), NEW t \in Seq(S), NEW all, c \o t = all
    PROVE  IsPrefix(c, all)
<1>1. /\ c \o t \in Seq(S) /\ Len(c \o t) = Len(c) + Len(t)
      /\ \A i \in 1 .. Len(c) + Len(t) : (c \o t)[i] = IF i <= Len(c) THEN c[i] ELSE t[i - Len(c)]
    BY ConcatProperties
<1>2. Len(c) \in Nat /\ Len(t) \in Nat
    BY LenProperties
<1>3. PICK d \in Seq(S) : d = all /\ Len(d) = Len(c) + Len(t)
    BY <1>1
<1>4. \A i \in 1 .. Len(c) : d[i] = c[i]
    BY <1>1, <1>2, <1>3
<1>5. SubSeq(d, 1, Len(c)) = c
    <2>1. SubSeq(d, 1, Len(c)) = [i \in 1 .. Len(c) |-> d[i]]
        BY <1>2
    <2>2. c = [i \in 1 .. Len(c) |-> c[i]]
        OBVIOUS
    <2> QED
        BY <1>4, <2>1, <2>2
<1>6. Len(c) <= Len(d)
    BY <1>2, <1>3
<1> QED
    BY <1>3, <1>5, <1>6 DEF IsPrefix

-----------------------------------------------------------------------------
(* What should be recorded *)

LEMMA RecordedPlanIsPlan ==
    ASSUME RGiven
    PROVE  IsPlan(RecordedPlan)
<1>1. CASE preds = <<>>
    BY <1>1, PlanOfChain DEF RGiven, RecordedPlan
<1>2. CASE preds # <<>>
    <2>1. PICK n \in Nat : n = Len(queues)
        BY DEF RGiven
    <2>2. PICK P : P = preds
        OBVIOUS
    <2>3. P = [i \in 1 .. n |-> IF i = 1 THEN <<>> ELSE <<i - 1>>]
        BY <1>2, <2>1, <2>2 DEF RGiven, ChainPreds
    <2>4. \A i \in 1 .. n : P[i] \in Seq(Nat) /\ \A k \in 1 .. Len(P[i]) : P[i][k] \in 1 .. i - 1
        BY <2>3
    <2>5. P \in [1 .. n -> Seq(Nat)]
        BY <2>3, <2>4
    <2>6. P \in Seq(Seq(Nat)) /\ Len(P) = n
        BY <2>5
    <2> QED
        BY <1>2, <2>1, <2>2, <2>4, <2>6, PlanOfDag DEF RGiven, RecordedPlan
<1> QED
    BY <1>1, <1>2

LEMMA SomePlace ==
    ASSUME RGiven
    PROVE  Places \in Nat \ {0}
<1>1. RecordedPlan # <<>> => Len(RecordedPlan) \in Nat \ {0}
    BY RecordedPlanIsPlan, EmptySeq, LenProperties DEF IsPlan
<1> QED
    BY <1>1 DEF Places

\* What is to be recorded into a scope is a part of what the steps have.
LEMMA ExpectedParts ==
    ASSUME RGiven, NEW s \in 1 .. Places
    PROVE  Expected(s) \in Seq(StepParts)
<1>1. IsPlan(RecordedPlan) /\ queues \in Seq(Queues) /\ Len(queues) \in Nat
    BY RecordedPlanIsPlan DEF RGiven
<1>2. ASSUME NEW batch, batch.first \in 1 .. Len(queues), batch.last \in 1 .. Len(queues),
             batch.first <= batch.last
      PROVE  Parts(batch) \in Seq(StepParts)
    <2>1. PICK n \in Nat : n = batch.last - batch.first + 1
        BY <1>1, <1>2
    <2>2. PICK P : P = Parts(batch)
        OBVIOUS
    <2>3. P \in Seq(PartsOf) /\ Len(P) = 3 * n /\ \A k \in 1 .. 3 * n : P[k][2] \in batch.first .. batch.last
        <3>1. batch.first \in Nat /\ batch.last \in Nat
            BY <1>1, <1>2
        <3> QED
            BY <2>1, <2>2, <3>1, PartsFacts
    <2>4. ASSUME NEW k \in 1 .. 3 * n
          PROVE  P[k] \in StepParts
        <3>1. P[k] \in PartsOf
            BY <2>3, ElementOfSeq
        <3>2. P[k][2] \in 1 .. Len(queues)
            BY <1>1, <1>2, <2>3
        <3> QED
            BY <3>1, <3>2 DEF PartsOf, StepParts
    <2>5. P \in [1 .. 3 * n -> StepParts]
        BY <2>3, <2>4
    <2>6. PICK m \in Nat : m = 3 * n
        OBVIOUS
    <2>7. P \in [1 .. m -> StepParts]
        BY <2>5, <2>6
    <2> QED
        BY <2>2, <2>7
<1>3. CASE external
    <2>1. Expected(s) = Parts(Whole)
        BY <1>1, <1>3, WantedIsWhole DEF Expected
    <2>2. CASE Len(queues) = 0
        <3>1. Parts(Whole) = [k \in 1 .. 0 |-> 0]
            BY <2>2 DEF Parts, Whole
        <3>2. Parts(Whole) = <<>>
            BY <3>1
        <3> QED
            BY <2>1, <3>2
    <2>3. CASE Len(queues) # 0
        <3>1. Whole.first = 1 /\ Whole.last = Len(queues)
            BY DEF Whole
        <3>2. Whole.first \in 1 .. Len(queues) /\ Whole.last \in 1 .. Len(queues)
              /\ Whole.first <= Whole.last
            BY <1>1, <2>3, <3>1
        <3> QED
            BY <1>2, <2>1, <3>2
    <2> QED
        BY <2>2, <2>3
<1>4. CASE ~ external /\ RecordedPlan = <<>>
    BY <1>4 DEF Expected
<1>5. CASE ~ external /\ RecordedPlan # <<>>
    <2>1. s \in 1 .. Len(RecordedPlan)
        BY <1>5 DEF Places
    <2>2. RecordedPlan[s] \in Batches /\ RecordedPlan[s].first <= RecordedPlan[s].last
        BY <1>1, <2>1, ElementOfSeq DEF IsPlan
    <2>3. PICK batch : batch = RecordedPlan[s]
        OBVIOUS
    <2>4. Parts(batch) \in Seq(StepParts)
        BY <1>2, <2>2, <2>3 DEF Batches
    <2> QED
        BY <1>5, <2>3, <2>4 DEF Expected
<1> QED
    BY <1>3, <1>4, <1>5

\* Every step is recorded into a scope.
LEMMA EveryStepIsExpected ==
    ASSUME RGiven, NEW i \in 1 .. Len(queues)
    PROVE  \E s \in 1 .. Places : \E k \in 1 .. Len(Expected(s)) : Expected(s)[k] = <<"step", i>>
<1>1. IsPlan(RecordedPlan) /\ queues \in Seq(Queues) /\ Len(queues) \in Nat
    BY RecordedPlanIsPlan DEF RGiven
<1>2. ASSUME NEW batch, batch.first \in 1 .. Len(queues), batch.last \in 1 .. Len(queues),
             i \in batch.first .. batch.last
      PROVE  \E k \in 1 .. Len(Parts(batch)) : Parts(batch)[k] = <<"step", i>>
    <2>1. PICK n \in Nat : n = batch.last - batch.first + 1
        BY <1>1, <1>2
    <2>2. batch.first \in Nat /\ batch.last \in Nat
        BY <1>1, <1>2
    <2>3. Len(Parts(batch)) = 3 * n
          /\ \E k \in 1 .. 3 * n : Parts(batch)[k] = <<"step", i>>
        BY <1>2, <2>1, <2>2, PartsFacts
    <2> QED
        BY <2>3
<1>3. CASE external
    <2>1. Expected(1) = Parts(Whole) /\ 1 \in 1 .. Places
        BY <1>1, <1>3, WantedIsWhole DEF Expected, Places
    <2>2. Whole.first \in 1 .. Len(queues) /\ Whole.last \in 1 .. Len(queues)
          /\ i \in Whole.first .. Whole.last
        BY <1>1 DEF Whole
    <2> QED
        BY <1>2, <2>1, <2>2
<1>4. CASE ~ external
    <2>1. PICK s \in 1 .. Len(RecordedPlan) :
            i \in RecordedPlan[s].first .. RecordedPlan[s].last
        BY <1>1, EveryStepHasABatch
    <2>2. RecordedPlan[s] \in Batches
        BY <1>1, <2>1, ElementOfSeq DEF IsPlan
    <2>3. RecordedPlan # <<>>
        BY <1>1, <2>1, EmptySeq DEF IsPlan
    <2>4. s \in 1 .. Places /\ Expected(s) = Parts(RecordedPlan[s])
        BY <1>4, <2>1, <2>3 DEF Places, Expected
    <2> QED
        BY <1>2, <2>1, <2>2, <2>4 DEF Batches
<1> QED
    BY <1>3, <1>4

\* A step is recorded into a scope on its own queue; of several scopes, the
\* steps that use a presented image are in the last.
LEMMA ExpectedIsRight ==
    ASSUME RGiven, NEW s \in 1 .. Places, NEW q, OnQueue(s, q), NEW k \in 1 .. Len(Expected(s)),
           NEW i \in 1 .. Len(queues), Expected(s)[k][2] = i
    PROVE  /\ queues[i] = q
           /\ ImageFits(RecordedPlan) /\ i \in shows => s = Places
<1>1. IsPlan(RecordedPlan) /\ queues \in Seq(Queues) /\ Len(queues) \in Nat
    BY RecordedPlanIsPlan DEF RGiven
<1>2. Len(RecordedPlan) \in Nat
    BY <1>1 DEF IsPlan
<1>3. CASE external
    <2>1. PICK b \in 1 .. Len(RecordedPlan) : i \in RecordedPlan[b].first .. RecordedPlan[b].last
        BY <1>1, EveryStepHasABatch
    <2>2. queues[i] = RecordedPlan[b].queue
        BY <1>1, <2>1 DEF IsPlan
    <2>3. RecordedPlan[b].queue = q
        BY <1>3, <2>1 DEF OnQueue
    <2>4. s = Places
        BY <1>3 DEF Places
    <2> QED
        BY <2>2, <2>3, <2>4
<1>4. CASE ~ external /\ RecordedPlan = <<>>
    BY <1>1, <1>4, EmptySeq DEF IsPlan
<1>5. CASE ~ external /\ RecordedPlan # <<>>
    <2>1. s \in 1 .. Len(RecordedPlan) /\ Places = Len(RecordedPlan)
          /\ Expected(s) = Parts(RecordedPlan[s]) /\ RecordedPlan[s].queue = q
        BY <1>5 DEF Places, Expected, OnQueue
    <2>2. PICK batch : batch = RecordedPlan[s]
        OBVIOUS
    <2>3. batch \in Batches /\ batch.first <= batch.last
        BY <1>1, <2>1, <2>2, ElementOfSeq DEF IsPlan
    <2>4. batch.first \in Nat /\ batch.last \in Nat /\ batch.last - batch.first + 1 \in Nat
        BY <1>1, <2>3 DEF Batches
    <2>5. i \in batch.first .. batch.last
        <3>1. PICK n \in Nat : n = batch.last - batch.first + 1
            BY <2>4
        <3>2. Len(Parts(batch)) = 3 * n
              /\ \A j \in 1 .. 3 * n : Parts(batch)[j][2] \in batch.first .. batch.last
            BY <2>4, <3>1, PartsFacts
        <3> QED
            BY <2>1, <2>2, <3>2
    <2>6. queues[i] = q
        BY <1>1, <2>1, <2>2, <2>5 DEF IsPlan
    <2>7. ASSUME ImageFits(RecordedPlan), i \in shows, s # Places
          PROVE  FALSE
        <3>1. presenting
            BY <2>7 DEF RGiven
        <3>2. i >= RecordedPlan[Len(RecordedPlan)].first
            BY <2>7, <3>1 DEF ImageFits, Last
        <3>3. Len(RecordedPlan) \in 1 .. Len(RecordedPlan) /\ s \in 1 .. Len(RecordedPlan) - 1
            BY <1>2, <2>1, <2>7
        <3>4. batch.last < RecordedPlan[Len(RecordedPlan)].first
            BY <1>1, <2>2, <3>3, BatchesInOrder
        <3>5. RecordedPlan[Len(RecordedPlan)].first \in Nat
            <4>1. RecordedPlan[Len(RecordedPlan)] \in Batches
                BY <1>1, <3>3, ElementOfSeq DEF IsPlan
            <4> QED
                BY <1>1, <4>1 DEF Batches
        <3> QED
            BY <2>4, <2>5, <3>2, <3>4, <3>5
    <2> QED
        BY <2>6, <2>7
<1> QED
    BY <1>3, <1>4, <1>5

-----------------------------------------------------------------------------
(* What the invariant says of a graph that is submitted *)

\* All batches are on queues of one family when no two neighbours differ.
LEMMA OneFamily ==
    ASSUME RGiven, ~ CrossesFamilies(RecordedPlan), NEW i \in 1 .. Len(queues)
    PROVE  familyOf[queues[i]] = familyOf[RecordedPlan[1].queue]
<1> DEFINE P == RecordedPlan
           Good == {b \in Nat : b \in 1 .. Len(P) => familyOf[P[b].queue] = familyOf[P[1].queue]}
<1>1. IsPlan(P) /\ queues \in Seq(Queues) /\ Len(P) \in Nat
    BY RecordedPlanIsPlan, LenProperties DEF RGiven, IsPlan
<1>2. ASSUME NEW b \in Nat, \A c \in 0 .. b - 1 : c \in Good
      PROVE  b \in Good
    <2> SUFFICES ASSUME b \in 1 .. Len(P), b # 1
                 PROVE  familyOf[P[b].queue] = familyOf[P[1].queue]
        OBVIOUS
    <2>1. b > 1 /\ b \in DOMAIN P /\ b - 1 \in 1 .. Len(P) /\ b - 1 \in 0 .. b - 1
        BY <1>1 DEF IsPlan
    <2>2. familyOf[P[b - 1].queue] = familyOf[P[b].queue]
        BY <2>1 DEF CrossesFamilies
    <2>3. b - 1 \in Good
        BY <1>2, <2>1
    <2> QED
        BY <2>1, <2>2, <2>3
<1> HIDE DEF Good
<1>3. \A b \in Nat : b \in Good
    BY <1>2, AllNumbers
<1>4. PICK b \in 1 .. Len(P) : i \in P[b].first .. P[b].last
    BY <1>1, EveryStepHasABatch
<1>5. queues[i] = P[b].queue
    BY <1>1, <1>4 DEF IsPlan
<1> QED
    BY <1>1, <1>3, <1>4, <1>5 DEF Good

LEMMA InvIsFaithful ==
    ASSUME RGiven, RScopes, RFits, RGpu
    PROVE  RecordingFaithful
<1>1. stage \in {"refused", "failed"} => opened = <<>>
    BY DEF RScopes
<1> SUFFICES ASSUME gpu # "none"
             PROVE  /\ FlattenSeq([s \in DOMAIN opened |-> CommandsOf(s)]) = Wanted
                    /\ AllEnded
                    /\ \A s \in DOMAIN opened, i \in DOMAIN passes :
                        <<"step", i>> \in Range(CommandsOf(s)) =>
                            /\ queues[i] = opened[s].queue
                            /\ i \in shows => s = Len(opened)
                    /\ \/ \A i \in DOMAIN passes : HasDeclarations(passes[i])
                       \/ /\ \A i, j \in DOMAIN passes : familyOf[queues[i]] = familyOf[queues[j]]
                          /\ \A i \in DOMAIN passes : passes[i] # "partial"
                    /\ presenting => shows # {}
    BY <1>1 DEF RecordingFaithful
<1>2. /\ Len(opened) = Places /\ DOMAIN opened = 1 .. Places
      /\ \A s \in 1 .. Places : OnQueue(s, opened[s].queue)
    BY DEF RScopes
<1>3. \A s \in 1 .. Places : opened[s].ended /\ CommandsOf(s) = Expected(s)
    <2>1. \A s \in 1 .. Places : stage # "recording" \/ s < Len(opened) => Ended(s)
        BY <1>2 DEF RScopes
    <2>2. stage # "recording"
        BY DEF RGpu
    <2> QED
        BY <2>1, <2>2 DEF Ended, CommandsOf
<1>4. FlattenSeq([s \in DOMAIN opened |-> CommandsOf(s)]) = Wanted
    <2>1. [s \in DOMAIN opened |-> CommandsOf(s)] = [s \in 1 .. Places |-> Expected(s)]
        BY <1>2, <1>3
    <2>2. CASE external
        <3>1. [s \in 1 .. Places |-> Expected(s)] = <<Wanted>>
            BY <2>2 DEF Places, Expected
        <3> QED
            BY <2>1, <3>1, FlattenOfOne
    <2>3. CASE ~ external /\ RecordedPlan = <<>>
        <3>1. [s \in 1 .. Places |-> Expected(s)] = << <<>> >>
            BY <2>3 DEF Places, Expected
        <3>2. Wanted = <<>>
            <4>1. [b \in DOMAIN RecordedPlan |-> Parts(RecordedPlan[b])] = <<>>
                BY <2>3
            <4> QED
                BY <4>1 DEF Wanted, FlattenSeq
        <3> QED
            BY <2>1, <3>1, <3>2, FlattenOfOne
    <2>4. CASE ~ external /\ RecordedPlan # <<>>
        <3>1. DOMAIN RecordedPlan = 1 .. Len(RecordedPlan)
            BY RecordedPlanIsPlan DEF IsPlan
        <3>2. [s \in 1 .. Places |-> Expected(s)]
                = [b \in DOMAIN RecordedPlan |-> Parts(RecordedPlan[b])]
            BY <2>4, <3>1 DEF Places, Expected
        <3> QED
            BY <2>1, <3>2 DEF Wanted
    <2> QED
        BY <2>2, <2>3, <2>4
<1>5. AllEnded
    BY <1>2, <1>3 DEF AllEnded
<1>6. Fits
    BY DEF RFits
<1>7. ASSUME NEW s \in DOMAIN opened, NEW i \in DOMAIN passes,
             <<"step", i>> \in Range(CommandsOf(s))
      PROVE  queues[i] = opened[s].queue /\ (i \in shows => s = Len(opened))
    <2>1. s \in 1 .. Places /\ i \in 1 .. Len(queues) /\ ImageFits(RecordedPlan)
        BY <1>2, <1>6 DEF RGiven, Fits
    <2>2. Expected(s) \in Seq(StepParts)
        BY <2>1, ExpectedParts
    <2>3. PICK k \in 1 .. Len(Expected(s)) : Expected(s)[k] = <<"step", i>>
        BY <1>3, <1>7, <2>1, <2>2 DEF Range
    <2>4. Expected(s)[k][2] = i
        BY <2>3
    <2> QED
        BY <1>2, <2>1, <2>4, ExpectedIsRight
<1>8. \/ \A i \in DOMAIN passes : HasDeclarations(passes[i])
      \/ /\ \A i, j \in DOMAIN passes : familyOf[queues[i]] = familyOf[queues[j]]
         /\ \A i \in DOMAIN passes : passes[i] # "partial"
    <2> SUFFICES ASSUME NEW i \in DOMAIN passes, ~ HasDeclarations(passes[i])
                 PROVE  /\ \A j, k \in DOMAIN passes : familyOf[queues[j]] = familyOf[queues[k]]
                        /\ \A j \in DOMAIN passes : passes[j] # "partial"
        OBVIOUS
    <2>1. PICK typed \in BOOLEAN : \A j \in DOMAIN passes :
            Declares(passes[j], typed, CrossesFamilies(RecordedPlan))
        BY <1>6 DEF Fits
    <2>2. ~ CrossesFamilies(RecordedPlan)
        BY <2>1 DEF Declares
    <2>3. \A j \in DOMAIN passes : passes[j] # "partial"
        BY <2>1 DEF Declares, HasDeclarations, RequiresComplete
    <2>4. \A j \in DOMAIN passes : familyOf[queues[j]] = familyOf[RecordedPlan[1].queue]
        BY <2>2, OneFamily DEF RGiven
    <2> QED
        BY <2>3, <2>4
<1>9. presenting => shows # {}
    BY <1>6 DEF Fits, ImageFits
<1> QED
    BY <1>4, <1>5, <1>7, <1>8, <1>9

LEMMA InvRetiresOnce ==
    ASSUME RecordingInv
    PROVE  RetiredOnce
<1> USE DEF RecordingInv
<1>1. ASSUME gpu = "running"
      PROVE  owner # "nobody" /\ \A i \in DOMAIN passes : passes[i] = "bind" => sets[i] = "held"
    <2>1. stage \in {"recorded", "terminated"}
        BY <1>1 DEF RGpu
    <2>2. owner # "nobody"
        BY <2>1 DEF ROwner
    <2>3. ASSUME NEW i \in DOMAIN passes, passes[i] = "bind"
          PROVE  sets[i] = "held"
        <3>1. i \in 1 .. Len(queues)
            BY DEF RGiven
        <3>2. PICK s \in 1 .. Places : \E k \in 1 .. Len(Expected(s)) :
                Expected(s)[k] = <<"step", i>>
            BY <3>1, EveryStepIsExpected
        <3>3. PICK k \in 1 .. Len(Expected(s)) : Expected(s)[k] = <<"step", i>>
            BY <3>2
        <3>4. s \in 1 .. Len(opened) /\ opened[s].commands = Expected(s)
            BY <1>1, <2>1 DEF RScopes, Ended
        <3>5. Binds(opened[s].commands[k])
            BY <2>3, <3>3, <3>4 DEF Binds
        <3>6. sets[opened[s].commands[k][2]] = "held"
            BY <2>1, <3>3, <3>4, <3>5 DEF RHeld
        <3> QED
            BY <3>3, <3>4, <3>6
    <2> QED
        BY <2>2, <2>3
<1>2. \A o \in Objects : lifecycle[o] # "retired" <=> owner = o
    BY DEF ROwner
<1>3. calls # <<>> => gpu = "done" /\ IsPrefix(calls, CallbacksInOrder)
    BY DEF RCalls
<1>4. owner = "nobody" => \A i \in DOMAIN sets : sets[i] # "held"
    BY DEF ROwner, RGiven
<1> QED
    BY <1>1, <1>2, <1>3, <1>4 DEF RetiredOnce

-----------------------------------------------------------------------------
(* The invariant is inductive *)

LEMMA GivenStays ==
    ASSUME UNCHANGED graphGiven
    PROVE  /\ RecordedPlan' = RecordedPlan /\ Places' = Places /\ StepParts' = StepParts /\ Scopes' = Scopes
           /\ \A s : Expected(s)' = Expected(s)
           /\ \A s, q : OnQueue(s, q)' <=> OnQueue(s, q)
           /\ \A part : Binds(part)' <=> Binds(part)
           /\ Fits' <=> Fits
           /\ CallbacksInOrder' = CallbacksInOrder
           /\ queues' = queues /\ external' = external /\ passes' = passes
           /\ RGiven /\ DOMAIN sets' = DOMAIN sets => RGiven'
<1>1. /\ queues' = queues /\ preds' = preds /\ presenting' = presenting
      /\ familyOf' = familyOf /\ passes' = passes /\ external' = external /\ shows' = shows
    BY DEF graphGiven, vars, options
<1>2. RecordedPlan' = RecordedPlan
    BY <1>1 DEF RecordedPlan, PlanBatches, PlanDag
<1>3. Places' = Places /\ StepParts' = StepParts /\ Scopes' = Scopes
    BY <1>1, <1>2 DEF Places, StepParts, Scopes
<1>4. Wanted' = Wanted
    BY <1>2 DEF Wanted
<1>5. \A s : Expected(s)' = Expected(s)
    BY <1>1, <1>2, <1>4 DEF Expected
<1>6. \A s, q : OnQueue(s, q)' <=> OnQueue(s, q)
    BY <1>1, <1>2 DEF OnQueue
<1>7. \A part : Binds(part)' <=> Binds(part)
    BY <1>1 DEF Binds
<1>8. CrossesFamilies(RecordedPlan)' <=> CrossesFamilies(RecordedPlan)
    BY <1>1, <1>2 DEF CrossesFamilies
<1>9. ImageFits(RecordedPlan)' <=> ImageFits(RecordedPlan)
    BY <1>1, <1>2 DEF ImageFits
<1>10. Fits' <=> Fits
    BY <1>1, <1>8, <1>9 DEF Fits, Declares
<1>11. CallbacksInOrder' = CallbacksInOrder
    BY <1>1 DEF CallbacksInOrder
<1>12. RGiven /\ DOMAIN sets' = DOMAIN sets => RGiven'
    BY <1>1 DEF RGiven
<1> QED
    BY <1>1, <1>2, <1>3, <1>5, <1>6, <1>7, <1>10, <1>11, <1>12

\* Once a graph is recorded, its scopes stay as they are.
LEMMA ScopesStay ==
    ASSUME RScopes, RFits, UNCHANGED graphGiven, opened' = opened, stage # "recording",
           stage' \in {"recorded", "terminated", "finishing", "retired"},
           stage' = "recorded" \/ gpu' # "none" => stage = "recorded" \/ gpu # "none"
    PROVE  RScopes' /\ RFits'
<1>1. RFits'
    BY GivenStays DEF RFits
<1>2. \A s \in 1 .. Len(opened) : Ended(s)' <=> Ended(s)
    BY GivenStays DEF Ended
<1>3. RScopes'
    BY <1>2, GivenStays DEF RScopes
<1> QED
    BY <1>1, <1>3

LEMMA HeldStays ==
    ASSUME RHeld, UNCHANGED graphGiven, opened' = opened, sets' = sets,
           stage \in {"start", "planned", "recording", "recorded", "terminated"}
    PROVE  RHeld'
BY GivenStays DEF RHeld

LEMMA NoCallsYet ==
    ASSUME RCalls, calls' = calls, stage \notin {"finishing", "retired"},
           stage' \notin {"finishing", "retired"}
    PROVE  RCalls'
BY DEF RCalls

\* CallbacksInOrder are a sequence.
LEMMA CallbacksAre ==
    ASSUME RGiven
    PROVE  CallbacksInOrder \in Seq(CallSet)
<1>1. PICK n, C : n = Len(passes) /\ C = CallbacksInOrder
    OBVIOUS
<1>2. n \in Nat
    BY <1>1, LenProperties DEF RGiven
<1>3. C = [k \in 1 .. 2 * n |-> IF k <= n THEN <<"after_gpu", k>> ELSE <<"commit", k - n>>]
    BY <1>1 DEF CallbacksInOrder
<1>4. \A k \in 1 .. 2 * n : C[k] \in CallSet
    <2> SUFFICES ASSUME NEW k \in 1 .. 2 * n
                 PROVE  C[k] \in CallSet
        OBVIOUS
    <2>1. CASE k <= n
        BY <1>2, <1>3, <2>1 DEF CallSet
    <2>2. CASE ~ (k <= n)
        <3>1. k - n \in Nat
            BY <1>2, <2>2
        <3> QED
            BY <1>3, <2>2, <3>1 DEF CallSet
    <2> QED
        BY <2>1, <2>2
<1>5. PICK m : m = 2 * n
    OBVIOUS
<1>6. m \in Nat /\ C \in [1 .. m -> CallSet]
    BY <1>2, <1>3, <1>4, <1>5
<1>7. C \in Seq(CallSet)
    BY <1>6
<1> QED
    BY <1>1, <1>7

LEMMA CallsStart ==
    ASSUME RGiven, RCalls, stage \notin {"finishing", "retired"}, stage' = "finishing",
           gpu' = "done", todo' = CallbacksInOrder, calls' = calls, UNCHANGED graphGiven
    PROVE  RCalls'
<1>1. calls = <<>> /\ CallbacksInOrder \in Seq(CallSet) /\ CallbacksInOrder' = CallbacksInOrder
    BY CallbacksAre, GivenStays DEF RCalls
<1>2. calls \in Seq(CallSet) /\ calls \o CallbacksInOrder = CallbacksInOrder
    BY <1>1, ConcatEmptySeq
<1>3. IsPrefix(calls, CallbacksInOrder)
    BY <1>1, <1>2, PrefixOf
<1> QED
    BY <1>1, <1>2, <1>3 DEF RCalls

LEMMA NoneIsAPrefix ==
    ASSUME RGiven
    PROVE  IsPrefix(<<>>, CallbacksInOrder)
<1>1. CallbacksInOrder \in Seq(CallSet) /\ <<>> \in Seq(CallSet)
    BY CallbacksAre
<1>2. <<>> \o CallbacksInOrder = CallbacksInOrder
    BY <1>1, ConcatEmptySeq
<1> QED
    BY <1>1, <1>2, PrefixOf

\* Once all is freed, nothing is held.
LEMMA FreeAllFrees ==
    ASSUME RGiven
    PROVE  DOMAIN FreeAll = DOMAIN sets /\ \A i \in 1 .. Len(queues) : FreeAll[i] # "held"
BY DEF FreeAll, RGiven

\* A scope ends: what it has is what it should have.
ScopeEnds(l) ==
    /\ stage = "recording" /\ todo = <<>>
    /\ opened' = [opened EXCEPT ![l].ended = TRUE]
    /\ UNCHANGED graphGiven

EndedScopes(l) ==
    /\ l \in Nat \ {0} /\ l <= Places
    /\ opened' \in Seq(Scopes) /\ Len(opened') = l
    /\ \A s \in 1 .. l : opened'[s].commands = opened[s].commands
    /\ \A s \in 1 .. l : OnQueue(s, opened'[s].queue) /\ Ended(s)'

LEMMA ScopesEnd ==
    ASSUME RScopes, NEW l, l = Len(opened), ScopeEnds(l)
    PROVE  EndedScopes(l)
<1> USE DEF ScopeEnds
<1>1. /\ opened \in Seq(Scopes) /\ opened # <<>> /\ l <= Places
      /\ \A s \in 1 .. l : OnQueue(s, opened[s].queue) /\ (s < l => Ended(s))
      /\ opened[l].commands \o <<>> = Expected(l)
    BY DEF RScopes
<1>2. l \in Nat \ {0} /\ l \in 1 .. l /\ l \in 1 .. Len(opened)
    BY <1>1, EmptySeq, LenProperties
<1>3. opened[l] \in Scopes
    BY <1>1, <1>2, ElementOfSeq
<1>4. opened[l].commands = Expected(l)
    <2>1. opened[l].commands \in Seq(StepParts)
        BY <1>3 DEF Scopes
    <2> QED
        BY <1>1, <2>1, ConcatEmptySeq
<1>5. PICK new : new = [opened[l] EXCEPT !.ended = TRUE]
    OBVIOUS
<1>6. new \in Scopes /\ new.ended /\ new.queue = opened[l].queue
      /\ new.commands = opened[l].commands
    BY <1>3, <1>5 DEF Scopes
<1>7. opened' \in Seq(Scopes) /\ Len(opened') = l
      /\ \A s \in 1 .. l : opened'[s] = IF s = l THEN new ELSE opened[s]
    <2>1. opened' = [opened EXCEPT ![l] = new]
        BY <1>5
    <2>2. /\ [opened EXCEPT ![l] = new] \in Seq(Scopes)
          /\ Len([opened EXCEPT ![l] = new]) = Len(opened)
          /\ \A j \in 1 .. Len(opened) :
                [opened EXCEPT ![l] = new][j] = IF j = l THEN new ELSE opened[j]
        BY <1>1, <1>2, <1>6, ExceptSeq
    <2> QED
        BY <2>1, <2>2
<1>8. \A s \in 1 .. l : opened'[s].commands = opened[s].commands
                        /\ opened'[s].queue = opened[s].queue
    BY <1>6, <1>7
<1>9. \A s \in 1 .. l : Ended(s)'
    <2>1. \A s \in 1 .. l : s < l => opened[s].ended /\ opened[s].commands = Expected(s)
        BY <1>1 DEF Ended
    <2>2. \A s \in 1 .. l : opened'[s].ended /\ opened'[s].commands = Expected(s)
        BY <1>2, <1>4, <1>6, <1>7, <2>1
    <2> QED
        BY <2>2, GivenStays DEF Ended
<1> QED
    BY <1>1, <1>2, <1>7, <1>8, <1>9 DEF EndedScopes

LEMMA RecordingStarts ==
    ASSUME RecordingInit
    PROVE  RecordingInv
<1>1. PICK n \in 0 .. MaxPasses :
        /\ queues \in [1 .. n -> Queues]
        /\ preds \in {<<>>, ChainPreds(n)}
        /\ passes \in [1 .. n -> StepKinds]
        /\ sets = [i \in 1 .. n |-> "none"]
        /\ presenting \in BOOLEAN
        /\ shows \in SUBSET {i \in 1 .. n : presenting /\ passes[i] = "custom"}
    BY DEF RecordingInit
<1>2. PICK m \in Nat : m = n
    OBVIOUS
<1>3. queues \in [1 .. m -> Queues]
    BY <1>1, <1>2
<1>4. queues \in Seq(Queues) /\ Len(queues) = m
    BY <1>3
<1>5. /\ external \in {FALSE, ~presenting}
      /\ stage = "start" /\ gpu = "none" /\ owner = "operation"
      /\ opened = <<>> /\ todo = <<>> /\ calls = <<>>
      /\ lifecycle = [o \in Objects |-> "retired"]
    BY DEF RecordingInit
<1>6. RGiven
    <2>1. /\ DOMAIN passes = 1 .. Len(queues) /\ DOMAIN sets = 1 .. Len(queues)
          /\ passes \in Seq(StepKinds)
        <3>1. passes \in [1 .. m -> StepKinds]
            BY <1>1, <1>2
        <3> QED
            BY <1>1, <1>2, <1>4, <3>1
    <2>2. shows \subseteq 1 .. Len(queues) /\ (~ presenting => shows = {})
        BY <1>1, <1>2, <1>4
    <2>3. external \in BOOLEAN /\ (external => ~ presenting)
        BY <1>1, <1>5
    <2> QED
        BY <1>1, <1>2, <1>4, <2>1, <2>2, <2>3 DEF RGiven
<1>7. RScopes
    BY <1>5, <1>6, SomePlace DEF RScopes
<1>8. RFits /\ RGpu /\ RHeld /\ RCalls
    BY <1>5 DEF RFits, RGpu, RHeld, RCalls
<1>9. ROwner
    BY <1>5, RecordingAssumption DEF ROwner
<1> QED
    BY <1>6, <1>7, <1>8, <1>9 DEF RecordingInv

LEMMA RecordingStep ==
    ASSUME RecordingInv, [RecordingNext]_<<vars, recordingVars>>
    PROVE  RecordingInv'
<1> USE DEF RecordingInv
<1>1. CASE PlanRecording
    <2>0. /\ stage = "start" /\ stage' \in {"refused", "planned"}
          /\ stage' = "planned" => Fits
          /\ UNCHANGED <<graphGiven, opened, todo, sets, calls, gpu, lifecycle, owner>>
        BY <1>1 DEF PlanRecording, Fits
    <2>1. RGiven'
        BY <2>0, GivenStays
    <2>2. RFits' /\ RGpu'
        BY <2>0, GivenStays DEF RFits, RGpu
    <2>3. RScopes'
        <3>1. Places \in Nat \ {0}
            BY SomePlace
        <3>2. opened = <<>> /\ todo = <<>> /\ gpu = "none"
            BY <2>0 DEF RScopes, RGpu
        <3> QED
            BY <2>0, <3>1, <3>2, GivenStays DEF RScopes
    <2>4. RHeld'
        BY <2>0, HeldStays
    <2>5. ROwner'
        BY <2>0, GivenStays DEF ROwner
    <2>6. RCalls'
        BY <2>0, NoCallsYet
    <2> QED
        BY <2>1, <2>2, <2>3, <2>4, <2>5, <2>6
<1>2. CASE OpenScope
    <2>0. /\ stage = "planned" /\ stage' = "recording" /\ ~ external
          /\ UNCHANGED <<graphGiven, sets, calls, gpu, lifecycle, owner>>
        BY <1>2 DEF OpenScope
    <2>1. Len(opened) \in Nat /\ Places \in Nat \ {0} /\ gpu = "none"
        BY <2>0, SomePlace, LenProperties DEF RScopes, RGpu
    <2>2. PICK q \in Queues : /\ opened' = Append(opened, Scope(q))
                              /\ todo' \in Seq(StepParts) /\ todo' = Expected(Len(opened) + 1)
                              /\ OnQueue(Len(opened) + 1, q) /\ Len(opened) + 1 <= Places
        <3> DEFINE b == Len(opened) + 1
        <3>1. b \in 1 .. Places
            BY <2>0, <2>1 DEF RScopes
        <3>2. CASE b <= Len(RecordedPlan) /\ opened' = Append(opened, Scope(RecordedPlan[b].queue))
                   /\ todo' = Parts(RecordedPlan[b])
            <4>1. RecordedPlan # <<>> /\ b \in 1 .. Len(RecordedPlan)
                BY <2>1, <3>2, RecordedPlanIsPlan, EmptySeq DEF IsPlan
            <4>2. RecordedPlan[b].queue \in Queues
                <5>1. RecordedPlan[b] \in Batches
                    BY <4>1, RecordedPlanIsPlan, ElementOfSeq DEF IsPlan
                <5> QED
                    BY <5>1 DEF Batches
            <4>3. Expected(b) = todo'
                BY <2>0, <3>2, <4>1 DEF Expected
            <4>4. Expected(b) \in Seq(StepParts)
                BY <3>1, ExpectedParts
            <4>5. OnQueue(b, RecordedPlan[b].queue)
                BY <2>0 DEF OnQueue
            <4> QED
                BY <3>1, <3>2, <4>2, <4>3, <4>4, <4>5
        <3>3. CASE RecordedPlan = <<>> /\ opened = <<>> /\ opened' = <<Scope(DefaultQueue)>>
                   /\ todo' = todo
            <4>1. Append(opened, Scope(DefaultQueue)) = <<Scope(DefaultQueue)>>
                BY <3>3
            <4>2. Expected(b) = <<>> /\ todo' = <<>> /\ OnQueue(b, DefaultQueue)
                BY <2>0, <3>3 DEF Expected, OnQueue, RScopes
            <4> QED
                BY <3>1, <3>3, <4>1, <4>2, PlanAssumption
        <3> QED
            BY <1>2, <3>2, <3>3 DEF OpenScope
    <2>3. RScopes'
        <3>1. Scope(q) \in Scopes /\ Scope(q).queue = q /\ Scope(q).commands = <<>>
            BY DEF Scope, Scopes
        <3>2. /\ opened' \in Seq(Scopes) /\ Len(opened') = Len(opened) + 1
              /\ \A s \in 1 .. Len(opened) : opened'[s] = opened[s]
              /\ opened'[Len(opened) + 1] = Scope(q)
            BY <2>2, <3>1, AppendProperties DEF RScopes
        <3>3. \A s \in 1 .. Len(opened') : OnQueue(s, opened'[s].queue)
            <4>1. \A s \in 1 .. Len(opened) : OnQueue(s, opened'[s].queue)
                BY <2>0, <3>2 DEF RScopes
            <4>2. OnQueue(Len(opened) + 1, opened'[Len(opened) + 1].queue)
                BY <2>2, <3>1, <3>2
            <4>3. \A s \in 1 .. Len(opened') : s \in 1 .. Len(opened) \/ s = Len(opened) + 1
                BY <2>1, <3>2
            <4> QED
                BY <4>1, <4>2, <4>3
        <3>4. \A s \in 1 .. Len(opened') : s < Len(opened') => Ended(s)'
            <4>1. \A s \in 1 .. Len(opened) : Ended(s)
                BY <2>0 DEF RScopes
            <4> QED
                BY <2>0, <2>1, <3>2, <4>1, GivenStays DEF Ended
        <3>5. opened'[Len(opened')].commands \o todo' = Expected(Len(opened'))
            <4>1. opened'[Len(opened')].commands = <<>>
                BY <3>1, <3>2
            <4>2. <<>> \o todo' = todo'
                BY <2>2, ConcatEmptySeq
            <4> QED
                BY <2>2, <3>2, <4>1, <4>2
        <3>6. opened' # <<>>
            BY <2>1, <3>2
        <3> QED
            BY <2>0, <2>1, <2>2, <3>2, <3>3, <3>4, <3>5, <3>6, GivenStays DEF RScopes
    <2>4. RHeld'
        <3>1. \A s \in 1 .. Len(opened') : \A k \in 1 .. Len(opened'[s].commands) :
                s \in 1 .. Len(opened) /\ opened'[s] = opened[s]
            <4>1. /\ Len(opened') = Len(opened) + 1
                  /\ \A s \in 1 .. Len(opened) : opened'[s] = opened[s]
                  /\ opened'[Len(opened) + 1].commands = <<>>
                <5>1. Scope(q) \in Scopes /\ Scope(q).commands = <<>>
                    BY DEF Scope, Scopes
                <5> QED
                    BY <2>2, <5>1, AppendProperties DEF RScopes
            <4>2. \A s \in 1 .. Len(opened') : s \in 1 .. Len(opened) \/ s = Len(opened) + 1
                BY <2>1, <4>1
            <4>3. \A k \in 1 .. Len(opened'[Len(opened) + 1].commands) : FALSE
                BY <4>1
            <4> QED
                BY <4>1, <4>2, <4>3
        <3> QED
            BY <2>0, <3>1, GivenStays DEF RHeld
    <2>5. RFits' /\ RGpu'
        BY <2>0, <2>1, GivenStays DEF RFits, RGpu
    <2>6. ROwner'
        BY <2>0, GivenStays DEF ROwner
    <2>7. RCalls' /\ RGiven'
        BY <2>0, NoCallsYet, GivenStays
    <2> QED
        BY <2>3, <2>4, <2>5, <2>6, <2>7
<1>3. ASSUME NEW q \in Queues, BeginExternal(q)
      PROVE  RecordingInv'
    <2>0. /\ stage = "planned" /\ external
          /\ UNCHANGED <<graphGiven, sets, calls, gpu, lifecycle>>
        BY <1>3 DEF BeginExternal
    <2>1. Places = 1 /\ opened = <<>> /\ gpu = "none"
        <3>1. Len(opened) \in Nat /\ Len(opened) < 1
            BY <2>0, LenProperties DEF RScopes, Places
        <3> QED
            BY <2>0, <3>1, EmptySeq DEF RScopes, RGpu, Places
    <2>2. CASE /\ \A b \in DOMAIN RecordedPlan : RecordedPlan[b].queue = q
               /\ opened' = <<Scope(q)>> /\ todo' = Wanted
               /\ stage' = "recording" /\ owner' = "call"
        <3>1. Expected(1) = Wanted /\ Wanted \in Seq(StepParts)
            BY <2>0, <2>1, ExpectedParts DEF Expected
        <3>2. OnQueue(1, q)
            BY <2>0, <2>2, RecordedPlanIsPlan DEF OnQueue, IsPlan
        <3>3. /\ opened'[1].queue = q /\ opened'[1].commands = <<>> /\ Len(opened') = 1
              /\ opened' \in Seq(Scopes)
            BY <2>2 DEF Scope, Scopes
        <3>9. opened'[1].commands \o todo' = Expected(1)
            <4>1. <<>> \o todo' = todo'
                BY <2>2, <3>1, ConcatEmptySeq
            <4> QED
                BY <2>2, <3>1, <3>3, <4>1
        <3>4. RScopes'
            BY <2>0, <2>1, <2>2, <3>9, <3>1, <3>2, <3>3, GivenStays DEF RScopes
        <3>5. RHeld'
            BY <3>3 DEF RHeld
        <3>6. RFits' /\ RGpu'
            BY <2>0, <2>1, <2>2, GivenStays DEF RFits, RGpu
        <3>7. ROwner'
            BY <2>0, <2>2, GivenStays, RecordingAssumption DEF ROwner
        <3>8. RCalls' /\ RGiven'
            BY <2>0, <2>2, NoCallsYet, GivenStays
        <3> QED
            BY <3>4, <3>5, <3>6, <3>7, <3>8
    <2>3. CASE stage' = "refused" /\ UNCHANGED <<opened, todo, owner>>
        <3>1. RScopes' /\ RFits' /\ RGpu' /\ RHeld'
            BY <2>0, <2>1, <2>3, GivenStays DEF RScopes, RFits, RGpu, RHeld
        <3>2. ROwner'
            BY <2>0, <2>3, GivenStays DEF ROwner
        <3>3. RCalls' /\ RGiven'
            BY <2>0, <2>3, NoCallsYet, GivenStays
        <3> QED
            BY <3>1, <3>2, <3>3
    <2> QED
        BY <1>3, <2>2, <2>3 DEF BeginExternal, Wanted
<1>4. CASE RecordPart
    <2>00. PICK l, part : l = Len(opened) /\ part = Head(todo)
        OBVIOUS
    <2>0. /\ stage = "recording" /\ todo # <<>>
          /\ opened' = [opened EXCEPT ![l].commands = Append(@, part)]
          /\ todo' = Tail(todo)
          /\ sets' = IF Binds(part) THEN [sets EXCEPT ![part[2]] = "held"] ELSE sets
          /\ UNCHANGED <<graphGiven, stage, calls, gpu, lifecycle, owner>>
        BY <1>4, <2>00 DEF RecordPart
    <2>1. /\ opened \in Seq(Scopes) /\ opened # <<>> /\ todo \in Seq(StepParts)
          /\ opened[l].commands \o todo = Expected(l)
        BY <2>0, <2>00 DEF RScopes
    <2>2. l \in 1 .. l /\ l \in Nat /\ opened[l] \in Scopes /\ opened[l].commands \in Seq(StepParts)
        <3>1. l \in Nat \ {0}
            BY <2>00, <2>1, EmptySeq, LenProperties
        <3>2. opened[l] \in Scopes
            BY <2>00, <2>1, <3>1, ElementOfSeq
        <3> QED
            BY <3>1, <3>2 DEF Scopes
    <2>3. /\ part \in StepParts /\ todo' \in Seq(StepParts)
          /\ Append(opened[l].commands, part) \in Seq(StepParts)
          /\ Append(opened[l].commands, part) \o todo' = Expected(l)
        <3>0. PICK c, t : c = opened[l].commands /\ t = todo
            OBVIOUS
        <3>1. c \in Seq(StepParts) /\ t \in Seq(StepParts) /\ t # <<>> /\ part = Head(t)
            BY <2>0, <2>00, <2>1, <2>2, <3>0
        <3>2. Append(c, Head(t)) \o Tail(t) = c \o t /\ Head(t) \in StepParts
              /\ Tail(t) \in Seq(StepParts) /\ Append(c, Head(t)) \in Seq(StepParts)
            BY <3>1, MovesOver
        <3> QED
            BY <2>0, <2>1, <3>0, <3>1, <3>2
    <2>40. PICK new : new = [opened[l] EXCEPT !.commands = Append(@, part)]
        OBVIOUS
    <2>4. new \in Scopes /\ new.queue = opened[l].queue
          /\ new.commands = Append(opened[l].commands, part)
        BY <2>2, <2>3, <2>40 DEF Scopes
    <2>5. /\ opened' \in Seq(Scopes) /\ Len(opened') = l /\ opened'[l] = new
          /\ \A s \in 1 .. l : s # l => opened'[s] = opened[s]
        <3>1. opened' = [opened EXCEPT ![l] = new]
            BY <2>0, <2>40
        <3> QED
            BY <2>00, <2>1, <2>2, <2>4, <3>1, ExceptSeq
    <2>6. gpu = "none"
        BY <2>0 DEF RGpu
    <2>7. RScopes'
        <3>1. \A s \in 1 .. l : OnQueue(s, opened'[s].queue)
            BY <2>0, <2>00, <2>4, <2>5 DEF RScopes
        <3>2. \A s \in 1 .. l : s < l => Ended(s)'
            <4>1. \A s \in 1 .. l : s < l => Ended(s)
                BY <2>0, <2>00 DEF RScopes
            <4> QED
                BY <2>0, <2>2, <2>5, <4>1, GivenStays DEF Ended
        <3>3. opened' # <<>> /\ l <= Places
            BY <2>0, <2>00, <2>2, <2>5 DEF RScopes
        <3> QED
            BY <2>0, <2>3, <2>4, <2>5, <2>6, <3>1, <3>2, <3>3, GivenStays DEF RScopes
    <2>8. DOMAIN sets' = DOMAIN sets /\ RGiven'
        BY <2>0, GivenStays
    <2>9. RHeld'
        <3>1. Binds(part) => sets'[part[2]] = "held"
            <4>1. part[2] \in DOMAIN sets
                BY <2>3 DEF StepParts, RGiven
            <4> QED
                BY <2>0, <4>1
        <3>2. \A i : sets[i] = "held" => sets'[i] = "held"
            BY <2>0, <2>3 DEF StepParts, RGiven
        <3>3. ASSUME NEW s \in 1 .. l, NEW k \in 1 .. Len(opened'[s].commands),
                     Binds(opened'[s].commands[k])
              PROVE  sets'[opened'[s].commands[k][2]] = "held"
            <4>1. CASE s # l
                BY <2>0, <2>00, <2>5, <3>2, <3>3, <4>1 DEF RHeld
            <4>2. CASE s = l
                <5>1. /\ opened'[l].commands = Append(opened[l].commands, part)
                      /\ Len(Append(opened[l].commands, part)) = Len(opened[l].commands) + 1
                      /\ \A j \in 1 .. Len(opened[l].commands) :
                            Append(opened[l].commands, part)[j] = opened[l].commands[j]
                      /\ Append(opened[l].commands, part)[Len(opened[l].commands) + 1] = part
                    BY <2>2, <2>3, <2>4, <2>5, AppendProperties
                <5>2. Len(opened[l].commands) \in Nat
                    BY <2>2, LenProperties
                <5>3. CASE k = Len(opened[l].commands) + 1
                    BY <3>1, <3>3, <4>2, <5>1, <5>3
                <5>4. CASE k # Len(opened[l].commands) + 1
                    <6>1. k \in 1 .. Len(opened[l].commands)
                        BY <3>3, <4>2, <5>1, <5>2, <5>4
                    <6> QED
                        BY <2>0, <2>00, <2>2, <3>2, <3>3, <4>2, <5>1, <6>1 DEF RHeld
                <5> QED
                    BY <5>3, <5>4
            <4> QED
                BY <4>1, <4>2
        <3> QED
            BY <2>0, <2>5, <3>3, GivenStays DEF RHeld
    <2>10. RFits' /\ RGpu'
        BY <2>0, <2>6, GivenStays DEF RFits, RGpu
    <2>11. ROwner'
        BY <2>0, GivenStays DEF ROwner
    <2>12. RCalls'
        BY <2>0, NoCallsYet
    <2> QED
        BY <2>7, <2>8, <2>9, <2>10, <2>11, <2>12
<1>5. CASE RecordingFails
    <2>0. /\ stage \in {"planned", "recording"} /\ stage' = "failed"
          /\ opened' = <<>> /\ todo' = <<>>
          /\ \/ external /\ sets' = FreeAll /\ owner' = "nobody"
             \/ ~ external /\ UNCHANGED <<sets, owner>>
          /\ external => stage = "recording"
          /\ UNCHANGED <<graphGiven, calls, gpu, lifecycle>>
        BY <1>5 DEF RecordingFails
    <2>1. gpu = "none"
        BY <2>0 DEF RGpu
    <2>2. RScopes' /\ RFits' /\ RGpu' /\ RHeld'
        BY <2>0, <2>1, GivenStays DEF RScopes, RFits, RGpu, RHeld
    <2>3. RGiven'
        BY <2>0, GivenStays DEF FreeAll
    <2>4. ROwner'
        <3>2. CASE external
            <4>1. owner = "call"
                BY <2>0, <3>2 DEF ROwner
            <4>2. \A i \in 1 .. Len(queues) : sets'[i] # "held"
                BY <2>0, <3>2 DEF FreeAll, RGiven
            <4> QED
                BY <2>0, <3>2, <4>1, <4>2, GivenStays, RecordingAssumption DEF ROwner
        <3>3. CASE ~ external
            BY <2>0, <3>3, GivenStays DEF ROwner
        <3> QED
            BY <3>2, <3>3
    <2>5. RCalls'
        BY <2>0, NoCallsYet
    <2> QED
        BY <2>2, <2>3, <2>4, <2>5
<1>6. CASE EndScope
    <2>00. PICK l : l = Len(opened)
        OBVIOUS
    <2>0. /\ stage = "recording" /\ todo = <<>> /\ ~ external
          /\ opened' = [opened EXCEPT ![l].ended = TRUE]
          /\ stage' = IF l >= Len(RecordedPlan) THEN "recorded" ELSE "planned"
          /\ UNCHANGED <<graphGiven, todo, sets, calls, gpu, lifecycle, owner>>
        BY <1>6, <2>00 DEF EndScope
    <2>1. ScopeEnds(l)
        BY <2>0 DEF ScopeEnds
    <2>2. EndedScopes(l)
        BY <2>00, <2>0, <2>1, ScopesEnd
    <2>3. l \in Nat \ {0} /\ l <= Places
        BY <2>2 DEF EndedScopes
    <2>4. Len(RecordedPlan) \in Nat /\ (RecordedPlan = <<>> <=> Len(RecordedPlan) = 0)
        BY RecordedPlanIsPlan, EmptySeq, LenProperties DEF IsPlan
    <2>5. stage' = "recorded" => l = Places
        BY <2>0, <2>3, <2>4 DEF Places
    <2>6. stage' = "planned" => l < Places
        BY <2>0, <2>3, <2>4 DEF Places
    <2>7. gpu = "none"
        BY <2>0 DEF RGpu
    <2>8. RScopes'
        BY <2>0, <2>2, <2>3, <2>5, <2>6, <2>7, GivenStays DEF RScopes, EndedScopes
    <2>9. RHeld'
        BY <2>0, <2>2, GivenStays DEF RHeld, EndedScopes
    <2>10. RFits' /\ RGpu'
        BY <2>0, <2>7, GivenStays DEF RFits, RGpu
    <2>11. ROwner'
        BY <2>0, GivenStays DEF ROwner
    <2>12. RCalls' /\ RGiven'
        BY <2>0, NoCallsYet, GivenStays
    <2> QED
        BY <2>8, <2>9, <2>10, <2>11, <2>12
<1>7. CASE SubmitRecorded
    <2>0. /\ stage = "recorded" /\ gpu = "none" /\ gpu' = "running"
          /\ UNCHANGED <<graphGiven, stage, opened, todo, sets, calls, lifecycle, owner>>
        BY <1>7 DEF SubmitRecorded
    <2>1. RScopes' /\ RFits'
        BY <2>0, ScopesStay
    <2>2. RHeld' /\ RCalls' /\ RGiven'
        BY <2>0, HeldStays, NoCallsYet, GivenStays
    <2>3. RGpu' /\ ROwner'
        BY <2>0, GivenStays DEF RGpu, ROwner
    <2> QED
        BY <2>1, <2>2, <2>3
<1>8. CASE FinishRecorded
    <2>0. /\ gpu = "running" /\ gpu' = "done" /\ stage \in {"recorded", "terminated"}
          /\ UNCHANGED <<graphGiven, stage, opened, todo, sets, calls, lifecycle, owner>>
        BY <1>8 DEF FinishRecorded, RGpu
    <2>1. RScopes' /\ RFits'
        BY <2>0, ScopesStay
    <2>2. RHeld' /\ RCalls' /\ RGiven'
        BY <2>0, HeldStays, NoCallsYet, GivenStays
    <2>3. RGpu' /\ ROwner'
        BY <2>0, GivenStays DEF RGpu, ROwner
    <2> QED
        BY <2>1, <2>2, <2>3
<1>9. CASE CompleteGraph
    <2>0. /\ stage = "recorded" /\ ~ external /\ gpu = "done"
          /\ stage' = "finishing" /\ todo' = CallbacksInOrder
          /\ UNCHANGED <<graphGiven, opened, sets, calls, gpu, lifecycle, owner>>
        BY <1>9 DEF CompleteGraph
    <2>1. RScopes' /\ RFits'
        BY <2>0, ScopesStay
    <2>2. RHeld' /\ RGiven'
        BY <2>0, GivenStays DEF RHeld
    <2>3. RGpu' /\ ROwner'
        BY <2>0, GivenStays DEF RGpu, ROwner
    <2>4. RCalls'
        BY <2>0, CallsStart
    <2> QED
        BY <2>1, <2>2, <2>3, <2>4
<1>10. CASE RunCallback
    <2>0. /\ stage = "finishing" /\ todo # <<>>
          /\ calls' = Append(calls, Head(todo)) /\ todo' = Tail(todo)
          /\ DOMAIN sets' = DOMAIN sets
          /\ \A i : sets'[i] = "held" => sets[i] = "held"
          /\ UNCHANGED <<graphGiven, stage, opened, gpu, lifecycle, owner>>
        BY <1>10 DEF RunCallback
    <2>1. RScopes' /\ RFits'
        BY <2>0, ScopesStay DEF RGpu
    <2>2. RHeld' /\ RGiven'
        BY <2>0, GivenStays DEF RHeld
    <2>3. RGpu' /\ ROwner'
        BY <2>0, GivenStays DEF RGpu, ROwner
    <2>4. RCalls'
        <3>0. PICK c, t : c = calls /\ t = todo
            OBVIOUS
        <3>1. c \in Seq(CallSet) /\ t \in Seq(CallSet) /\ t # <<>>
            BY <2>0, <3>0 DEF RCalls
        <3>2. /\ Append(c, Head(t)) \in Seq(CallSet) /\ Tail(t) \in Seq(CallSet)
              /\ Append(c, Head(t)) \o Tail(t) = c \o t
            BY <3>1, MovesOver
        <3>3. c \o t = CallbacksInOrder /\ gpu = "done"
            BY <2>0, <3>0 DEF RCalls, RGpu
        <3>4. IsPrefix(Append(c, Head(t)), CallbacksInOrder)
            BY <3>2, <3>3, PrefixOf
        <3> QED
            BY <2>0, <3>0, <3>2, <3>3, <3>4, GivenStays DEF RCalls
    <2> QED
        BY <2>1, <2>2, <2>3, <2>4
<1>11. CASE FinishCallbacks
    <2>0. /\ stage = "finishing" /\ stage' = "retired" /\ todo' = <<>>
          /\ \/ external /\ sets' = FreeAll /\ owner' = "nobody"
             \/ ~ external /\ UNCHANGED <<sets, owner>>
          /\ UNCHANGED <<graphGiven, opened, calls, gpu, lifecycle>>
        BY <1>11 DEF FinishCallbacks
    <2>1. RScopes' /\ RFits'
        BY <2>0, ScopesStay
    <2>2. RHeld' /\ RGiven'
        BY <2>0, GivenStays DEF RHeld, FreeAll
    <2>3. RGpu' /\ RCalls'
        BY <2>0, GivenStays DEF RGpu, RCalls
    <2>4. ROwner'
        <3>1. CASE external
            <4>1. owner = "call"
                BY <2>0, <3>1 DEF ROwner
            <4> QED
                BY <2>0, <3>1, <4>1, GivenStays, FreeAllFrees, RecordingAssumption DEF ROwner
        <3>2. CASE ~ external
            BY <2>0, <3>2, GivenStays DEF ROwner
        <3> QED
            BY <3>1, <3>2
    <2> QED
        BY <2>1, <2>2, <2>3, <2>4
<1>12. CASE DestroyGraph
    <2>0. /\ ~ external /\ owner = "operation"
          /\ stage \in {"refused", "failed", "retired"} \/ (stage = "recorded" /\ gpu = "none")
          /\ stage' = "retired" /\ sets' = FreeAll /\ owner' = "nobody"
          /\ UNCHANGED <<graphGiven, opened, todo, calls, gpu, lifecycle>>
        BY <1>12 DEF DestroyGraph
    <2>1. RScopes' /\ RFits'
        BY <2>0, ScopesStay
    <2>2. RHeld' /\ RGiven'
        BY <2>0, GivenStays DEF RHeld, FreeAll
    <2>3. RGpu'
        BY <2>0 DEF RGpu
    <2>4. ROwner'
        BY <2>0, GivenStays, FreeAllFrees, RecordingAssumption DEF ROwner
    <2>5. RCalls'
        BY <2>0, NoneIsAPrefix, GivenStays DEF RCalls
    <2> QED
        BY <2>1, <2>2, <2>3, <2>4, <2>5
<1>13. CASE TerminateRecorded
    <2>0. /\ stage = "recorded" /\ owner \in Objects /\ stage' = "terminated"
          /\ UNCHANGED <<graphGiven, opened, todo, sets, calls, gpu, lifecycle, owner>>
        BY <1>13 DEF TerminateRecorded
    <2>1. RScopes' /\ RFits'
        BY <2>0, ScopesStay
    <2>2. RHeld' /\ RCalls' /\ RGiven'
        BY <2>0, HeldStays, NoCallsYet, GivenStays
    <2>3. RGpu' /\ ROwner'
        BY <2>0, GivenStays, RecordingAssumption DEF RGpu, ROwner
    <2> QED
        BY <2>1, <2>2, <2>3
<1>14. ASSUME NEW o \in Objects, ReturnRecorded(o)
       PROVE  RecordingInv'
    <2>0. /\ stage = "recording" /\ todo = <<>> /\ external
          /\ opened' = [opened EXCEPT ![1].ended = TRUE] /\ stage' = "recorded"
          /\ lifecycle' = [lifecycle EXCEPT ![o] = "recorded"] /\ owner' = o
          /\ UNCHANGED <<graphGiven, todo, sets, calls, gpu>>
        BY <1>14 DEF ReturnRecorded
    <2>1. 1 = Len(opened) /\ Places = 1
        <3>1. Places = 1 /\ Len(opened) <= Places /\ opened # <<>> /\ opened \in Seq(Scopes)
            BY <2>0 DEF RScopes, Places
        <3>2. PICK l \in Nat \ {0} : l = Len(opened)
            BY <3>1, EmptySeq, LenProperties
        <3> QED
            BY <3>1, <3>2
    <2>2. EndedScopes(1)
        BY <2>0, <2>1, ScopesEnd DEF ScopeEnds
    <2>3. gpu = "none"
        BY <2>0 DEF RGpu
    <2>4. RScopes'
        BY <2>0, <2>1, <2>2, <2>3, GivenStays DEF RScopes, EndedScopes
    <2>5. RHeld'
        BY <2>0, <2>1, <2>2, GivenStays DEF RHeld, EndedScopes
    <2>6. RFits' /\ RGpu'
        BY <2>0, <2>3, GivenStays DEF RFits, RGpu
    <2>7. ROwner'
        BY <2>0, GivenStays, RecordingAssumption DEF ROwner
    <2>8. RCalls' /\ RGiven'
        BY <2>0, NoCallsYet, GivenStays
    <2> QED
        BY <2>4, <2>5, <2>6, <2>7, <2>8
<1>15. ASSUME NEW o \in Objects, MarkRecorded(o)
       PROVE  RecordingInv'
    <2>0. /\ stage = "recorded" /\ lifecycle[o] = "recorded"
          /\ lifecycle' = [lifecycle EXCEPT ![o] = "submitted"]
          /\ UNCHANGED <<graphGiven, stage, opened, todo, sets, calls, gpu, owner>>
        BY <1>15 DEF MarkRecorded
    <2>1. RScopes' /\ RFits'
        BY <2>0, ScopesStay
    <2>2. RHeld' /\ RCalls' /\ RGiven'
        BY <2>0, HeldStays, NoCallsYet, GivenStays
    <2>3. RGpu' /\ ROwner'
        BY <2>0, GivenStays DEF RGpu, ROwner
    <2> QED
        BY <2>1, <2>2, <2>3
<1>16. ASSUME NEW o \in Objects, CompleteRecorded(o)
       PROVE  RecordingInv'
    <2>0. /\ stage = "recorded" /\ lifecycle[o] = "submitted" /\ gpu = "done"
          /\ lifecycle' = [lifecycle EXCEPT ![o] = "retired"] /\ owner' = "call"
          /\ stage' = "finishing" /\ todo' = CallbacksInOrder
          /\ UNCHANGED <<graphGiven, opened, sets, calls, gpu>>
        BY <1>16 DEF CompleteRecorded
    <2>1. RScopes' /\ RFits'
        BY <2>0, ScopesStay
    <2>2. RHeld' /\ RGiven'
        BY <2>0, GivenStays DEF RHeld
    <2>3. RGpu' /\ ROwner'
        BY <2>0, GivenStays, RecordingAssumption DEF RGpu, ROwner
    <2>4. RCalls'
        BY <2>0, CallsStart
    <2> QED
        BY <2>1, <2>2, <2>3, <2>4
<1>17. ASSUME NEW o \in Objects, AbandonRecorded(o)
       PROVE  RecordingInv'
    <2>0. /\ stage = "recorded" /\ lifecycle[o] = "recorded" /\ gpu = "none"
          /\ lifecycle' = [lifecycle EXCEPT ![o] = "retired"]
          /\ stage' = "retired" /\ sets' = FreeAll /\ owner' = "nobody"
          /\ UNCHANGED <<graphGiven, opened, todo, calls, gpu>>
        BY <1>17 DEF AbandonRecorded
    <2>1. RScopes' /\ RFits'
        BY <2>0, ScopesStay
    <2>2. RHeld' /\ RGiven'
        BY <2>0, GivenStays DEF RHeld, FreeAll
    <2>3. RGpu'
        BY <2>0 DEF RGpu
    <2>4. ROwner'
        BY <2>0, GivenStays, FreeAllFrees, RecordingAssumption DEF ROwner
    <2>5. RCalls'
        BY <2>0, NoneIsAPrefix, GivenStays DEF RCalls
    <2> QED
        BY <2>1, <2>2, <2>3, <2>4, <2>5
<1>18. ASSUME NEW o \in Objects, NEW p \in Objects, MoveRecorded(o, p)
       PROVE  RecordingInv'
    <2>0. /\ o # p /\ stage = "recorded" /\ owner # p
          /\ lifecycle' = [lifecycle EXCEPT ![p] = lifecycle[o], ![o] = "retired"]
          /\ owner' = IF owner = o THEN p ELSE owner
          /\ UNCHANGED <<graphGiven, stage, opened, todo, sets, calls, gpu>>
        BY <1>18 DEF MoveRecorded
    <2>1. RScopes' /\ RFits'
        BY <2>0, ScopesStay
    <2>2. RHeld' /\ RCalls' /\ RGiven'
        BY <2>0, HeldStays, NoCallsYet, GivenStays
    <2>3. RGpu'
        BY <2>0 DEF RGpu
    <2>4. ROwner'
        BY <2>0, GivenStays, RecordingAssumption DEF ROwner
    <2> QED
        BY <2>1, <2>2, <2>3, <2>4
<1>19. CASE UNCHANGED <<vars, recordingVars>>
    <2>0. UNCHANGED <<graphGiven, stage, opened, todo, sets, calls, gpu, lifecycle, owner>>
        BY <1>19 DEF graphGiven, recordingVars
    <2>1. \A s \in 1 .. Len(opened) : Ended(s)' <=> Ended(s)
        BY <2>0, GivenStays DEF Ended
    <2>2. RScopes' /\ RFits' /\ RHeld'
        BY <2>0, <2>1, GivenStays DEF RScopes, RFits, RHeld
    <2>3. RGiven' /\ RGpu' /\ ROwner' /\ RCalls'
        BY <2>0, GivenStays DEF RGpu, ROwner, RCalls
    <2> QED
        BY <2>2, <2>3
<1> QED
    BY <1>1, <1>2, <1>3, <1>4, <1>5, <1>6, <1>7, <1>8, <1>9, <1>10, <1>11, <1>12, <1>13,
       <1>14, <1>15, <1>16, <1>17, <1>18, <1>19 DEF RecordingNext

\* Whatever is recorded, by its operation or into a caller's command buffer,
\* what is submitted is the graph: every step once, between its barriers, in
\* order and on its queue.
THEOREM RecordingsAreFaithful == RecordingSpec => []RecordingFaithful
<1>1. RecordingSpec => []RecordingInv
    BY RecordingStarts, RecordingStep, PTL DEF RecordingSpec
<1>2. RecordingInv => RecordingFaithful
    BY InvIsFaithful DEF RecordingInv
<1> QED
    BY <1>1, <1>2, PTL

\* Steps and descriptor sets outlive the commands that use them, callbacks run
\* once, after the work and in order, and one object at most owns the steps.
THEOREM RecordingsRetireOnce == RecordingSpec => []RetiredOnce
<1>1. RecordingSpec => []RecordingInv
    BY RecordingStarts, RecordingStep, PTL DEF RecordingSpec
<1>2. RecordingInv => RetiredOnce
    BY InvRetiresOnce
<1> QED
    BY <1>1, <1>2, PTL

-----------------------------------------------------------------------------
(* The edges between steps *)

Steps == Nat \ {0}
Edges == Nat \X Nat

\* The edges of a graph of which queues q and predecessors p are known, and
\* those of a chain under collection.
GivenBy(q, p) ==
    {e \in Edges :
        /\ e[2] \in 1 .. Len(q)
        /\ \/ p = <<>> /\ e[1] = e[2] - 1 /\ e[1] # 0
           \/ p # <<>> /\ \E k \in 1 .. Len(p[e[2]]) : p[e[2]][k] = e[1]}
LinksOf(c) ==
    {e \in Edges :
        /\ e[2] \in c.base + 1 .. Reached(c)
        /\ \/ ~ c.dag /\ e[1] = e[2] - 1 /\ e[1] # 0
           \/ c.dag /\ \E k \in 1 .. Len(c.preds[e[2] - c.base]) : c.preds[e[2] - c.base][k] = e[1]}
Drawn(q, p, o) ==
    {e \in Edges : e \in GivenBy(q, p) \/ \E l \in 1 .. Len(o) : e \in LinksOf(o[l])}

\* The edges lead from earlier to later steps.
Forward(D) == \A e \in D : e[1] < e[2]

\* Who has steps and what is before them has X.
Closed(D, S) == \A e \in D : e[2] \in S => e[1] \in S
Covers(D, F, X) ==
    \A S \in SUBSET Nat :
        (\A k \in 1 .. Len(F) : F[k] \in S) /\ Closed(D, S) => X \subseteq S

-----------------------------------------------------------------------------
(* Chains under collection *)

Forks == [incoming : Seq(Steps), start : Nat, branches : Nat]
Chains == [base : Nat, queues : Seq(Queues), preds : Seq(Seq(Steps)), frontier : Seq(Steps),
           dag : BOOLEAN, forked : BOOLEAN, fork : Forks]

IsChain(c) ==
    /\ c \in Chains
    /\ c.dag => Len(c.preds) = Len(c.queues)
    /\ ~ c.dag => /\ c.preds = <<>> /\ ~ c.forked
                  /\ c.frontier = IF Reached(c) = 0 THEN <<>> ELSE <<Reached(c)>>
    /\ c.forked => /\ c.fork.start \in 0 .. Reached(c)
                   /\ c.fork.branches = 0 => c.fork.start = Reached(c) /\ c.frontier = <<>>

\* Each is a branch of the one before it.
IsNest(o) ==
    /\ o \in Seq(Chains)
    /\ \A l \in 1 .. Len(o) :
        /\ IsChain(o[l])
        /\ l > 1 => o[l].dag
        /\ l < Len(o) => o[l].forked /\ o[l + 1].base = Reached(o[l])

\* The steps of the branches beside the l-th chain and those around it, and
\* the earlier steps that it comes after.
Beside(o, l) ==
    {i \in Nat : \E m \in 1 .. l - 1 : i \in o[m].fork.start + 1 .. o[m + 1].base}
Before(o, l, n) == (1 .. n) \ Beside(o, l)

\* Its frontiers are among these,
FreeAt(o, l) ==
    /\ \A k \in 1 .. Len(o[l].frontier) : o[l].frontier[k] \in Before(o, l, Reached(o[l]))
    /\ o[l].forked =>
        \A k \in 1 .. Len(o[l].fork.incoming) :
            o[l].fork.incoming[k] \in Before(o, l, o[l].fork.start)

\* and come after all of them.
CoveredAt(D, o, l) ==
    IF o[l].forked
    THEN /\ Covers(D, o[l].fork.incoming, Before(o, l, o[l].fork.start))
         /\ o[l].fork.branches # 0 => Covers(D, o[l].frontier, Before(o, l, Reached(o[l])))
    ELSE Covers(D, o[l].frontier, Before(o, l, Reached(o[l])))

LastStep(q, o) == IF o = <<>> THEN Len(q) ELSE Reached(o[Len(o)])

-----------------------------------------------------------------------------
(* What holds while a graph is written *)

\* Queues q and predecessors p are given, o is under collection, and A was
\* asked for.
GivenWell(q, p) ==
    /\ q \in Seq(Queues) /\ p \in Seq(Seq(Steps))
    /\ p # <<>> => Len(p) = Len(q)

NestWell(q, p, o) ==
    /\ IsNest(o)
    /\ o # <<>> => o[1].base = Len(q) /\ (~ o[1].dag => p = <<>>)

AskedWell(q, p, o, A) ==
    /\ A \in SUBSET (Steps \X (1 .. LastStep(q, o)))
    /\ Drawn(q, p, o) \subseteq A

FreeWell(o) == \A l \in 1 .. Len(o) : FreeAt(o, l)

CoverWell(q, p, o, A) ==
    Forward(GivenBy(q, p)) =>
        /\ \A l \in 1 .. Len(o) : CoveredAt(Drawn(q, p, o), o, l)
        /\ \A e \in A : Covers(Drawn(q, p, o), <<e[2]>>, {e[1]})

Written(q, p, o, A) ==
    /\ GivenWell(q, p) /\ NestWell(q, p, o) /\ AskedWell(q, p, o, A)
    /\ FreeWell(o) /\ CoverWell(q, p, o, A)

BuildInv ==
    /\ Written(queues, preds, open, asked)
    /\ open # <<>> => phase = "building"

-----------------------------------------------------------------------------
(* Chains and edges *)

LEMMA ChainTypes ==
    ASSUME NEW c, IsChain(c)
    PROVE  /\ c \in Chains /\ c.base \in Nat /\ c.queues \in Seq(Queues) /\ c.preds \in Seq(Seq(Steps))
           /\ c.frontier \in Seq(Steps) /\ c.dag \in BOOLEAN /\ c.forked \in BOOLEAN
           /\ c.fork \in Forks /\ c.fork.incoming \in Seq(Steps) /\ c.fork.start \in Nat
           /\ c.fork.branches \in Nat /\ Len(c.queues) \in Nat /\ Reached(c) \in Nat
           /\ Reached(c) = c.base + Len(c.queues) /\ c.base <= Reached(c)
<1>1. c \in Chains
    BY DEF IsChain
<1>2. c.base \in Nat /\ c.queues \in Seq(Queues) /\ c.preds \in Seq(Seq(Steps))
      /\ c.frontier \in Seq(Steps) /\ c.dag \in BOOLEAN /\ c.forked \in BOOLEAN /\ c.fork \in Forks
    BY <1>1 DEF Chains
<1>3. c.fork.incoming \in Seq(Steps) /\ c.fork.start \in Nat /\ c.fork.branches \in Nat
    BY <1>2 DEF Forks
<1>4. Len(c.queues) \in Nat
    BY <1>2, LenProperties
<1> QED
    BY <1>1, <1>2, <1>3, <1>4 DEF Reached

LEMMA CoversMore ==
    ASSUME NEW D, NEW E, D \subseteq E, NEW F, NEW X, Covers(D, F, X)
    PROVE  Covers(E, F, X)
<1>1. \A S : Closed(E, S) => Closed(D, S)
    BY DEF Closed
<1> QED
    BY <1>1 DEF Covers

\* The top of a nest is replaced.
LEMMA ReplaceTop ==
    ASSUME NEW S, NEW o \in Seq(S), o # <<>>, NEW c \in S
    PROVE  /\ Len(o) \in Nat \ {0} /\ Last(o) = o[Len(o)] /\ Last(o) \in S
           /\ Front(o) \in Seq(S) /\ Len(Front(o)) = Len(o) - 1
           /\ \A l \in 1 .. Len(o) - 1 : Front(o)[l] = o[l]
           /\ Append(Front(o), c) \in Seq(S) /\ Append(Front(o), c) # <<>>
           /\ Len(Append(Front(o), c)) = Len(o)
           /\ \A l \in 1 .. Len(o) - 1 : Append(Front(o), c)[l] = o[l]
           /\ Append(Front(o), c)[Len(o)] = c
<1>1. Len(o) \in Nat \ {0}
    BY EmptySeq
<1>2. \A i \in 1 .. Len(o) - 1 : o[i] \in S
    BY <1>1, ElementOfSeq
<1>3. /\ Front(o) \in Seq(S) /\ Len(Front(o)) = Len(o) - 1
      /\ \A l \in 1 .. Len(o) - 1 : Front(o)[l] = o[l]
    <2>1. PICK n \in Nat : n = Len(o) - 1
        BY <1>1
    <2>2. /\ SubSeq(o, 1, n) \in Seq(S)
          /\ Len(SubSeq(o, 1, n)) = IF 1 <= n THEN n - 1 + 1 ELSE 0
          /\ \A i \in 1 .. n - 1 + 1 : SubSeq(o, 1, n)[i] = o[1 + i - 1]
        BY <1>2, <2>1, SubSeqProperties
    <2>3. Len(SubSeq(o, 1, n)) = n /\ \A i \in 1 .. n : SubSeq(o, 1, n)[i] = o[i]
        BY <2>1, <2>2
    <2> QED
        BY <2>1, <2>2, <2>3 DEF Front
<1>4. Last(o) = o[Len(o)] /\ Last(o) \in S
    BY <1>1, ElementOfSeq DEF Last
<1>5. PICK f \in Seq(S) : f = Front(o)
    BY <1>3
<1>6. /\ Append(f, c) \in Seq(S) /\ Append(f, c) # <<>> /\ Len(Append(f, c)) = Len(f) + 1
      /\ \A i \in 1 .. Len(f) : Append(f, c)[i] = f[i]
      /\ Append(f, c)[Len(f) + 1] = c
    BY AppendProperties
<1> QED
    BY <1>1, <1>3, <1>4, <1>5, <1>6

\* A chain begins after those around it.
LEMMA NestRises ==
    ASSUME NEW o, IsNest(o)
    PROVE  \A l \in 1 .. Len(o) : \A m \in 1 .. l : o[m].base <= o[l].base
<1> DEFINE Good == {l \in Nat : l \in 1 .. Len(o) => \A m \in 1 .. l : o[m].base <= o[l].base}
<1>1. Len(o) \in Nat /\ \A l \in 1 .. Len(o) : IsChain(o[l])
    BY LenProperties DEF IsNest
<1>2. \A l \in 1 .. Len(o) : o[l].base \in Nat /\ Reached(o[l]) \in Nat /\ o[l].base <= Reached(o[l])
    BY <1>1, ChainTypes
<1>3. ASSUME NEW l \in Nat, \A k \in 0 .. l - 1 : k \in Good
      PROVE  l \in Good
    <2> SUFFICES ASSUME l \in 1 .. Len(o), NEW m \in 1 .. l
                 PROVE  o[m].base <= o[l].base
        OBVIOUS
    <2>1. CASE m = l
        BY <1>2, <2>1
    <2>2. CASE m # l
        <3>1. l - 1 \in 1 .. Len(o) /\ m \in 1 .. l - 1 /\ l - 1 \in Good
            BY <1>1, <1>3, <2>2
        <3>2. o[l].base = Reached(o[l - 1])
            BY <1>1, <3>1 DEF IsNest
        <3>3. o[m].base <= o[l - 1].base /\ m \in 1 .. Len(o)
            BY <3>1
        <3> QED
            BY <1>2, <3>1, <3>2, <3>3
    <2> QED
        BY <2>1, <2>2
<1> HIDE DEF Good
<1>4. \A l \in Nat : l \in Good
    BY <1>3, AllNumbers
<1> QED
    BY <1>1, <1>4 DEF Good

\* What is beside a chain is before it.
LEMMA BesideIsBefore ==
    ASSUME NEW o, IsNest(o), NEW l \in 1 .. Len(o)
    PROVE  \A i \in Beside(o, l) : i \in Nat /\ i <= o[l].base
<1> SUFFICES ASSUME NEW i \in Beside(o, l)
             PROVE  i \in Nat /\ i <= o[l].base
    OBVIOUS
<1>1. Len(o) \in Nat /\ \A m \in 1 .. Len(o) : o[m].base \in Nat
    BY LenProperties, ChainTypes DEF IsNest
<1>2. PICK m \in 1 .. l - 1 : i \in o[m].fork.start + 1 .. o[m + 1].base
    BY DEF Beside
<1>3. m + 1 \in 1 .. l /\ m + 1 \in 1 .. Len(o)
    BY <1>1
<1>4. o[m + 1].base <= o[l].base
    BY <1>3, NestRises
<1>5. i \in Nat
    BY DEF Beside
<1> QED
    BY <1>1, <1>2, <1>3, <1>4, <1>5

\* What is beside a chain depends on those around it.
LEMMA BesideStays ==
    ASSUME NEW o, NEW u, NEW l \in Nat,
           \A m \in 1 .. l - 1 : o[m] = u[m], o[l].base = u[l].base
    PROVE  Beside(o, l) = Beside(u, l)
<1>1. \A m \in 1 .. l - 1 : o[m].fork.start = u[m].fork.start /\ o[m + 1].base = u[m + 1].base
    <2> SUFFICES ASSUME NEW m \in 1 .. l - 1
                 PROVE  o[m + 1].base = u[m + 1].base
        OBVIOUS
    <2>1. m + 1 = l \/ m + 1 \in 1 .. l - 1
        OBVIOUS
    <2> QED
        BY <2>1
<1> QED
    BY <1>1 DEF Beside

LEMMA LowerStays ==
    ASSUME NEW o, NEW u, NEW l \in Nat, NEW D, NEW E,
           \A m \in 1 .. l : o[m] = u[m], l # 0, D \subseteq E
    PROVE  /\ FreeAt(o, l) => FreeAt(u, l)
           /\ CoveredAt(D, o, l) => CoveredAt(E, u, l)
<1>1. o[l] = u[l]
    OBVIOUS
<1>2. Beside(o, l) = Beside(u, l)
    BY <1>1, BesideStays
<1>3. \A n : Before(o, l, n) = Before(u, l, n)
    BY <1>2 DEF Before
<1>4. FreeAt(o, l) => FreeAt(u, l)
    BY <1>1, <1>3 DEF FreeAt
<1>5. CoveredAt(D, o, l) => CoveredAt(E, u, l)
    BY <1>1, <1>3, CoversMore DEF CoveredAt
<1> QED
    BY <1>4, <1>5

\* The top is replaced by a chain with links X more.
MoreLinks(o, u, X) ==
    /\ Len(o) \in Nat \ {0} /\ Len(u) = Len(o)
    /\ \A l \in 1 .. Len(o) - 1 : u[l] = o[l]
    /\ X \subseteq Edges /\ LinksOf(u[Len(o)]) = LinksOf(o[Len(o)]) \cup X

LEMMA DrawnMore ==
    ASSUME NEW q, NEW p, NEW o, NEW u, NEW X, MoreLinks(o, u, X)
    PROVE  Drawn(q, p, u) = Drawn(q, p, o) \cup X
<1>1. /\ Len(o) \in Nat \ {0} /\ Len(u) = Len(o)
      /\ \A l \in 1 .. Len(o) - 1 : u[l] = o[l]
      /\ X \subseteq Edges /\ LinksOf(u[Len(o)]) = LinksOf(o[Len(o)]) \cup X
    BY DEF MoreLinks
<1>2. ASSUME NEW e \in Drawn(q, p, u)
      PROVE  e \in Drawn(q, p, o) \cup X
    <2>1. e \in Edges /\ (e \in GivenBy(q, p) \/ \E l \in 1 .. Len(o) : e \in LinksOf(u[l]))
        BY <1>1, <1>2 DEF Drawn
    <2>2. ASSUME NEW l \in 1 .. Len(o), e \in LinksOf(u[l])
          PROVE  e \in Drawn(q, p, o) \cup X
        <3>1. l = Len(o) \/ u[l] = o[l]
            BY <1>1
        <3> QED
            BY <1>1, <2>1, <2>2, <3>1 DEF Drawn
    <2> QED
        BY <2>1, <2>2 DEF Drawn
<1>3. ASSUME NEW e \in Drawn(q, p, o) \cup X
      PROVE  e \in Drawn(q, p, u)
    <2>1. CASE e \in X
        <3>1. e \in LinksOf(u[Len(o)]) /\ Len(o) \in 1 .. Len(u) /\ e \in Edges
            BY <1>1, <2>1
        <3> QED
            BY <3>1 DEF Drawn
    <2>2. CASE e \in Drawn(q, p, o)
        <3>1. e \in Edges /\ (e \in GivenBy(q, p) \/ \E l \in 1 .. Len(o) : e \in LinksOf(o[l]))
            BY <2>2 DEF Drawn
        <3>2. ASSUME NEW l \in 1 .. Len(o), e \in LinksOf(o[l])
              PROVE  e \in LinksOf(u[l])
            <4>1. l = Len(o) \/ u[l] = o[l]
                BY <1>1
            <4> QED
                BY <1>1, <3>2, <4>1
        <3> QED
            BY <1>1, <3>1, <3>2 DEF Drawn
    <2> QED
        BY <1>3, <2>1, <2>2
<1> QED
    BY <1>2, <1>3

\* The nest when the top is replaced by a chain in its place.
LEMMA NestOfTop ==
    ASSUME NEW q, NEW p, NEW o, NestWell(q, p, o), o # <<>>, NEW c, IsChain(c),
           c.base = o[Len(o)].base, o[Len(o)].dag => c.dag
    PROVE  /\ NestWell(q, p, Append(Front(o), c))
           /\ Append(Front(o), c) # <<>> /\ Len(Append(Front(o), c)) = Len(o)
           /\ \A l \in 1 .. Len(o) - 1 : Append(Front(o), c)[l] = o[l]
           /\ Append(Front(o), c)[Len(o)] = c
           /\ Append(Front(o), c) \in Seq(Chains) /\ Len(o) \in Nat \ {0}
           /\ \A l \in 1 .. Len(o) : Beside(Append(Front(o), c), l) = Beside(o, l)
<1>1. o \in Seq(Chains) /\ IsNest(o) /\ c \in Chains
    BY DEF NestWell, IsNest, IsChain
<1>2. PICK u : u = Append(Front(o), c)
    OBVIOUS
<1>3. /\ Len(o) \in Nat \ {0} /\ u \in Seq(Chains) /\ u # <<>> /\ Len(u) = Len(o)
      /\ \A l \in 1 .. Len(o) - 1 : u[l] = o[l]
      /\ u[Len(o)] = c
    BY <1>1, <1>2, ReplaceTop
<1>4. \A l \in 1 .. Len(o) : u[l].base = o[l].base
    BY <1>3
<1>5. IsNest(u)
    <2> SUFFICES ASSUME NEW l \in 1 .. Len(o)
                 PROVE  /\ IsChain(u[l])
                        /\ l > 1 => u[l].dag
                        /\ l < Len(o) => u[l].forked /\ u[l + 1].base = Reached(u[l])
        BY <1>3 DEF IsNest
    <2>1. /\ IsChain(o[l])
          /\ l > 1 => o[l].dag
          /\ l < Len(o) => o[l].forked /\ o[l + 1].base = Reached(o[l])
        BY <1>1 DEF IsNest
    <2>2. CASE l = Len(o)
        BY <1>3, <2>1, <2>2
    <2>3. CASE l # Len(o)
        <3>1. l < Len(o) /\ l + 1 \in 1 .. Len(o) /\ u[l] = o[l]
            BY <1>3, <2>3
        <3> QED
            BY <1>4, <2>1, <3>1
    <2> QED
        BY <2>2, <2>3
<1>6. u[1].base = Len(q) /\ (~ u[1].dag => p = <<>>)
    <2>1. o[1].base = Len(q) /\ (~ o[1].dag => p = <<>>)
        BY DEF NestWell
    <2>2. CASE Len(o) = 1
        BY <1>3, <2>1, <2>2
    <2>3. CASE Len(o) # 1
        BY <1>3, <2>1, <2>3
    <2> QED
        BY <2>2, <2>3
<1>7. \A l \in 1 .. Len(o) : Beside(u, l) = Beside(o, l)
    <2> SUFFICES ASSUME NEW l \in 1 .. Len(o)
                 PROVE  Beside(u, l) = Beside(o, l)
        OBVIOUS
    <2>1. l \in Nat /\ u[l].base = o[l].base /\ \A m \in 1 .. l - 1 : u[m] = o[m]
        BY <1>3, <1>4
    <2> QED
        BY <2>1, BesideStays
<1> QED
    BY <1>2, <1>3, <1>5, <1>6, <1>7 DEF NestWell

\* A step is lowered.
NewLinks(c) == {e \in Edges : /\ e[2] = Reached(c) + 1
                              /\ \E k \in 1 .. Len(c.frontier) : c.frontier[k] = e[1]}

LEMMA LoweredFacts ==
    ASSUME NEW c, IsChain(c), ~ c.forked, NEW x \in Queues
    PROVE  /\ IsChain(Lowered(c, x))
           /\ Lowered(c, x).base = c.base /\ Lowered(c, x).dag = c.dag
           /\ Lowered(c, x).forked = c.forked /\ Lowered(c, x).fork = c.fork
           /\ Lowered(c, x).frontier = <<Reached(c) + 1>>
           /\ Reached(Lowered(c, x)) = Reached(c) + 1
           /\ LinksOf(Lowered(c, x)) = LinksOf(c) \cup NewLinks(c)
<1>1. /\ c \in Chains /\ c.base \in Nat /\ c.queues \in Seq(Queues) /\ c.preds \in Seq(Seq(Steps))
      /\ c.frontier \in Seq(Steps) /\ c.dag \in BOOLEAN /\ Len(c.queues) \in Nat
      /\ Reached(c) \in Nat /\ Reached(c) = c.base + Len(c.queues)
    BY ChainTypes
<1>2. PICK t : t = Lowered(c, x)
    OBVIOUS
<1>3. PICK r \in Nat, b \in Nat, n \in Nat :
        r = Reached(c) /\ b = c.base /\ n = Len(c.queues) /\ r = b + n
    BY <1>1
<1>4. /\ t.base = c.base /\ t.dag = c.dag /\ t.forked = c.forked /\ t.fork = c.fork
      /\ t.frontier = <<r + 1>>
      /\ t.queues = Append(c.queues, x)
      /\ t.preds = IF c.dag THEN Append(c.preds, c.frontier) ELSE c.preds
      /\ t = [base |-> t.base, queues |-> t.queues, preds |-> t.preds, frontier |-> t.frontier,
              dag |-> t.dag, forked |-> t.forked, fork |-> t.fork]
    BY <1>1, <1>2, <1>3 DEF Lowered, Chains
<1>5. t.queues \in Seq(Queues) /\ Len(t.queues) = Len(c.queues) + 1
    BY <1>1, <1>4, AppendProperties
<1>6. /\ t.preds \in Seq(Seq(Steps))
      /\ c.dag => /\ Len(t.preds) = Len(c.preds) + 1
                  /\ t.preds[Len(c.preds) + 1] = c.frontier
                  /\ \A k \in 1 .. Len(c.preds) : t.preds[k] = c.preds[k]
    BY <1>1, <1>4, AppendProperties
<1>7. Reached(t) = r + 1
    <2>1. Reached(t) = t.base + Len(t.queues)
        BY DEF Reached
    <2>2. t.base = b /\ Len(t.queues) = n + 1
        BY <1>3, <1>4, <1>5
    <2>3. b + (n + 1) = r + 1
        BY <1>3
    <2> QED
        BY <2>1, <2>2, <2>3
<1>8. t.frontier \in Seq(Steps)
    <2>1. r + 1 \in Steps
        BY DEF Steps
    <2> QED
        BY <1>4, <2>1
<1>9. t \in Chains
    BY <1>1, <1>4, <1>5, <1>6, <1>8 DEF Chains
<1>10. IsChain(t)
    <2>1. t.dag => Len(t.preds) = Len(t.queues)
        BY <1>4, <1>5, <1>6 DEF IsChain
    <2>2. ~ t.dag => t.preds = <<>> /\ ~ t.forked
        BY <1>4 DEF IsChain
    <2>3. t.frontier = IF Reached(t) = 0 THEN <<>> ELSE <<Reached(t)>>
        BY <1>4, <1>7
    <2>4. ~ t.forked
        BY <1>4
    <2> QED
        BY <1>9, <2>1, <2>2, <2>3, <2>4 DEF IsChain
<1>11. LinksOf(t) = LinksOf(c) \cup NewLinks(c)
    <2>1. CASE c.dag
        <3>1. Len(c.preds) = Len(c.queues)
            BY <2>1 DEF IsChain
        <3>2. \A i \in b + 1 .. r : t.preds[i - b] = c.preds[i - b]
            <4>1. \A i \in b + 1 .. r : i - b \in 1 .. n
                BY <1>3
            <4>2. \A k \in 1 .. n : t.preds[k] = c.preds[k]
                BY <1>3, <1>6, <2>1, <3>1
            <4> QED
                BY <4>1, <4>2
        <3>3. t.preds[r + 1 - b] = c.frontier
            <4>1. r + 1 - b = n + 1
                BY <1>3
            <4>2. t.preds[n + 1] = c.frontier
                BY <1>3, <1>6, <2>1, <3>1
            <4> QED
                BY <4>1, <4>2
        <3>4. ASSUME NEW e \in Edges
              PROVE  e \in LinksOf(t) <=> e \in LinksOf(c) \/ e \in NewLinks(c)
            <4>1. e[2] \in Nat /\ e[1] \in Nat
                BY DEF Edges
            <4>2. CASE e[2] = r + 1
                <5>1. e[2] \in b + 1 .. r + 1 /\ e[2] \notin b + 1 .. r
                    BY <1>3, <4>2
                <5>2. e \in LinksOf(t) <=> \E k \in 1 .. Len(c.frontier) : c.frontier[k] = e[1]
                    <6>1. t.preds[e[2] - b] = c.frontier
                        BY <3>3, <4>2
                    <6>2. e \in LinksOf(t) <=>
                            \E k \in 1 .. Len(t.preds[e[2] - b]) : t.preds[e[2] - b][k] = e[1]
                        BY <1>3, <1>4, <1>7, <2>1, <5>1 DEF LinksOf
                    <6> QED
                        BY <6>1, <6>2
                <5>3. e \notin LinksOf(c)
                    BY <1>3, <5>1 DEF LinksOf
                <5> QED
                    BY <1>3, <4>2, <5>2, <5>3 DEF NewLinks
            <4>3. CASE e[2] # r + 1
                <5>1. e[2] \in b + 1 .. r + 1 <=> e[2] \in b + 1 .. r
                    BY <1>3, <4>1, <4>3
                <5>2. CASE e[2] \in b + 1 .. r
                    <6>1. t.preds[e[2] - b] = c.preds[e[2] - b]
                        BY <3>2, <5>2
                    <6>2. e \in LinksOf(t) <=>
                            \E k \in 1 .. Len(t.preds[e[2] - b]) : t.preds[e[2] - b][k] = e[1]
                        BY <1>3, <1>4, <1>7, <2>1, <5>1, <5>2 DEF LinksOf
                    <6>3. e \in LinksOf(c) <=>
                            \E k \in 1 .. Len(c.preds[e[2] - b]) : c.preds[e[2] - b][k] = e[1]
                        BY <1>3, <2>1, <5>2 DEF LinksOf
                    <6> QED
                        BY <1>3, <4>3, <6>1, <6>2, <6>3 DEF NewLinks
                <5>3. CASE e[2] \notin b + 1 .. r
                    BY <1>3, <1>4, <1>7, <4>3, <5>1, <5>3 DEF LinksOf, NewLinks
                <5> QED
                    BY <5>2, <5>3
            <4> QED
                BY <4>2, <4>3
        <3> QED
            BY <3>4 DEF LinksOf, NewLinks
    <2>2. CASE ~ c.dag
        <3>1. c.frontier = IF r = 0 THEN <<>> ELSE <<r>>
            BY <1>3, <2>2 DEF IsChain
        <3>2. ASSUME NEW e \in Edges
              PROVE  e \in NewLinks(c) <=> e[2] = r + 1 /\ e[1] = r /\ r # 0
            <4>1. CASE r = 0
                BY <1>3, <3>1, <4>1 DEF NewLinks
            <4>2. CASE r # 0
                <5>1. Len(c.frontier) = 1 /\ c.frontier[1] = r
                    BY <3>1, <4>2
                <5> QED
                    BY <1>3, <4>2, <5>1 DEF NewLinks
            <4> QED
                BY <4>1, <4>2
        <3>3. ASSUME NEW e \in Edges
              PROVE  e \in LinksOf(t) <=> e \in LinksOf(c) \/ e \in NewLinks(c)
            <4>1. e[2] \in Nat /\ e[1] \in Nat
                BY DEF Edges
            <4>2. e \in LinksOf(t) <=> e[2] \in b + 1 .. r + 1 /\ e[1] = e[2] - 1 /\ e[1] # 0
                BY <1>3, <1>4, <1>7, <2>2 DEF LinksOf
            <4>3. e \in LinksOf(c) <=> e[2] \in b + 1 .. r /\ e[1] = e[2] - 1 /\ e[1] # 0
                BY <1>3, <2>2 DEF LinksOf
            <4>4. PICK x1 \in Nat, x2 \in Nat : x1 = e[1] /\ x2 = e[2]
                BY <4>1
            <4>5. x2 \in b + 1 .. r + 1 /\ x1 = x2 - 1 /\ x1 # 0
                    <=> (x2 \in b + 1 .. r /\ x1 = x2 - 1 /\ x1 # 0) \/ (x2 = r + 1 /\ x1 = r /\ r # 0)
                BY <1>3
            <4> QED
                BY <3>2, <4>2, <4>3, <4>4, <4>5
        <3> QED
            BY <3>3 DEF LinksOf, NewLinks
    <2> QED
        BY <1>1, <2>1, <2>2
<1> QED
    BY <1>2, <1>3, <1>4, <1>7, <1>10, <1>11

\* A step is piped onto the innermost chain: it comes after all earlier steps
\* but those of the branches beside it, and after no others.
OnTop(o, t, r, N) ==
    /\ o # <<>> /\ t = o[Len(o)] /\ ~ t.forked
    /\ r \in Nat /\ r = Reached(t) /\ N = {<<i, r + 1>> : i \in Before(o, Len(o), r)}

LEMMA OneMore ==
    ASSUME NEW q, NEW p, NEW o, NEW A, Written(q, p, o, A), NEW x \in Queues,
           NEW t, NEW r, NEW N, OnTop(o, t, r, N)
    PROVE  Written(q, p, Append(Front(o), Lowered(t, x)), A \cup N)
<1>0. /\ o # <<>> /\ t = o[Len(o)] /\ ~ t.forked
      /\ r \in Nat /\ r = Reached(t) /\ N = {<<i, r + 1>> : i \in Before(o, Len(o), r)}
    BY DEF OnTop
<1>1. /\ GivenWell(q, p) /\ NestWell(q, p, o) /\ AskedWell(q, p, o, A)
      /\ FreeWell(o) /\ CoverWell(q, p, o, A) /\ IsNest(o) /\ o \in Seq(Chains)
    BY DEF Written, NestWell, IsNest
<1>2. Len(o) \in Nat \ {0}
    BY <1>0, <1>1, EmptySeq
<1>3. t = o[Len(o)]
    BY <1>0
<1>4. IsChain(t) /\ ~ t.forked
    BY <1>0, <1>1, <1>2, <1>3 DEF IsNest
<1>5. PICK L \in Nat : L = Len(o) /\ L # 0
    BY <1>2
<1>6. r \in Nat /\ r = Reached(t) /\ t.base <= r /\ t.base \in Nat
    BY <1>0, <1>4, ChainTypes
<1>7. PICK c : c = Lowered(t, x)
    OBVIOUS
<1>8. /\ IsChain(c) /\ c.base = t.base /\ c.dag = t.dag /\ ~ c.forked
      /\ c.frontier = <<r + 1>> /\ Reached(c) = r + 1
      /\ LinksOf(c) = LinksOf(t) \cup NewLinks(t)
    BY <1>4, <1>6, <1>7, LoweredFacts
<1>9. PICK u : u = Append(Front(o), c)
    OBVIOUS
<1>10. /\ NestWell(q, p, u) /\ u # <<>> /\ Len(u) = L /\ u[L] = c /\ u \in Seq(Chains)
       /\ \A l \in 1 .. L - 1 : u[l] = o[l]
       /\ \A l \in 1 .. L : Beside(u, l) = Beside(o, l)
    BY <1>0, <1>1, <1>3, <1>5, <1>8, <1>9, NestOfTop
<1>11. PICK B : B = Before(o, L, r)
    OBVIOUS
<1>12. N = {<<i, r + 1>> : i \in B}
    BY <1>0, <1>5, <1>11
<1>13. B \in SUBSET (1 .. r) /\ \A n : Before(u, L, n) = Before(o, L, n)
    BY <1>5, <1>10, <1>11 DEF Before
<1>14. \A k \in 1 .. Len(t.frontier) : t.frontier[k] \in B
    BY <1>1, <1>3, <1>5, <1>6, <1>11 DEF FreeWell, FreeAt
<1>15. PICK D : D = Drawn(q, p, o)
    OBVIOUS
<1>16. Drawn(q, p, u) = D \cup NewLinks(t)
    <2>1. NewLinks(t) \subseteq Edges
        BY DEF NewLinks
    <2>2. MoreLinks(o, u, NewLinks(t))
        BY <1>3, <1>5, <1>8, <1>10, <2>1 DEF MoreLinks
    <2> QED
        BY <1>15, <2>2, DrawnMore
<1>17. PICK E : E = D \cup NewLinks(t)
    OBVIOUS
<1>18. \A k \in 1 .. Len(t.frontier) : <<t.frontier[k], r + 1>> \in NewLinks(t)
    <2>1. t.frontier \in Seq(Steps)
        BY <1>4, ChainTypes
    <2>2. \A k \in 1 .. Len(t.frontier) : t.frontier[k] \in Nat
        BY <2>1, ElementOfSeq DEF Steps
    <2> QED
        BY <1>6, <2>2 DEF NewLinks, Edges
<1>19. AskedWell(q, p, u, A \cup N)
    <2>1. LastStep(q, o) = r /\ LastStep(q, u) = r + 1
        BY <1>3, <1>5, <1>6, <1>8, <1>10 DEF LastStep
    <2>2. A \in SUBSET (Steps \X (1 .. r)) /\ D \subseteq A
        BY <1>1, <1>15, <2>1 DEF AskedWell
    <2>3. A \in SUBSET (Steps \X (1 .. r + 1))
        BY <1>6, <2>2
    <2>4. N \in SUBSET (Steps \X (1 .. r + 1))
        BY <1>6, <1>12, <1>13 DEF Steps
    <2>5. NewLinks(t) \subseteq N
        <3> SUFFICES ASSUME NEW e \in NewLinks(t)
                     PROVE  e \in N
            OBVIOUS
        <3>1. PICK k \in 1 .. Len(t.frontier) : e[2] = r + 1 /\ t.frontier[k] = e[1] /\ e \in Edges
            BY <1>6 DEF NewLinks
        <3>2. e[1] \in B /\ e = <<e[1], r + 1>>
            BY <1>14, <3>1 DEF Edges
        <3> QED
            BY <1>12, <3>2
    <2> QED
        BY <1>16, <2>1, <2>2, <2>3, <2>4, <2>5 DEF AskedWell
<1>20. FreeWell(u)
    <2> SUFFICES ASSUME NEW l \in 1 .. L
                 PROVE  FreeAt(u, l)
        BY <1>10 DEF FreeWell
    <2>1. CASE l < L
        <3>1. FreeAt(o, l) /\ l \in Nat /\ l # 0
            BY <1>1, <1>5 DEF FreeWell
        <3>2. \A m \in 1 .. l : o[m] = u[m]
            BY <1>5, <1>10, <2>1
        <3> QED
            BY <3>1, <3>2, LowerStays
    <2>2. CASE l = L
        <3>1. Len(c.frontier) = 1 /\ c.frontier[1] = r + 1
            BY <1>8
        <3>2. r + 1 \notin Beside(o, L)
            <4>1. \A i \in Beside(o, L) : i \in Nat /\ i <= t.base
                BY <1>1, <1>3, <1>5, BesideIsBefore
            <4> QED
                BY <1>6, <4>1
        <3>3. r + 1 \in Before(u, L, r + 1)
            BY <1>6, <1>13, <3>2 DEF Before
        <3> QED
            BY <1>8, <1>10, <2>2, <3>1, <3>3 DEF FreeAt
    <2> QED
        BY <1>5, <2>1, <2>2
<1>21. CoverWell(q, p, u, A \cup N)
    <2> SUFFICES ASSUME Forward(GivenBy(q, p))
                 PROVE  /\ \A l \in 1 .. L : CoveredAt(E, u, l)
                        /\ \A e \in A \cup N : Covers(E, <<e[2]>>, {e[1]})
        BY <1>10, <1>16, <1>17 DEF CoverWell
    <2>1. /\ \A l \in 1 .. L : CoveredAt(D, o, l)
          /\ \A e \in A : Covers(D, <<e[2]>>, {e[1]})
        BY <1>1, <1>5, <1>15 DEF CoverWell
    <2>2. Covers(E, <<r + 1>>, B \cup {r + 1})
        <3> SUFFICES ASSUME NEW S \in SUBSET Nat, r + 1 \in S, Closed(E, S)
                     PROVE  B \subseteq S
            BY DEF Covers
        <3>1. \A k \in 1 .. Len(t.frontier) : t.frontier[k] \in S
            <4> SUFFICES ASSUME NEW k \in 1 .. Len(t.frontier)
                         PROVE  t.frontier[k] \in S
                OBVIOUS
            <4>1. <<t.frontier[k], r + 1>> \in E
                BY <1>17, <1>18
            <4> QED
                BY <4>1 DEF Closed
        <3>2. Closed(D, S)
            BY <1>17 DEF Closed
        <3>3. Covers(D, t.frontier, B)
            BY <1>3, <1>4, <1>5, <1>6, <1>11, <2>1 DEF CoveredAt
        <3> QED
            BY <3>1, <3>2, <3>3 DEF Covers
    <2>3. ASSUME NEW l \in 1 .. L
          PROVE  CoveredAt(E, u, l)
        <3>1. CASE l < L
            <4>1. CoveredAt(D, o, l) /\ l \in Nat /\ l # 0 /\ D \subseteq E
                BY <1>5, <1>17, <2>1
            <4>2. \A m \in 1 .. l : o[m] = u[m]
                BY <1>5, <1>10, <3>1
            <4> QED
                BY <4>1, <4>2, LowerStays
        <3>2. CASE l = L
            <4>1. Before(u, L, r + 1) \subseteq B \cup {r + 1}
                BY <1>6, <1>11, <1>13 DEF Before
            <4>2. Covers(E, <<r + 1>>, Before(u, L, r + 1))
                BY <2>2, <4>1 DEF Covers
            <4> QED
                BY <1>8, <1>10, <3>2, <4>2 DEF CoveredAt
        <3> QED
            BY <1>5, <3>1, <3>2
    <2>4. ASSUME NEW e \in A \cup N
          PROVE  Covers(E, <<e[2]>>, {e[1]})
        <3>1. CASE e \in A
            BY <1>17, <2>1, <3>1, CoversMore
        <3>2. CASE e \in N
            <4>1. PICK i \in B : e = <<i, r + 1>>
                BY <1>12, <3>2
            <4>2. Covers(E, <<r + 1>>, {i})
                BY <2>2 DEF Covers
            <4> QED
                BY <4>1, <4>2
        <3> QED
            BY <3>1, <3>2
    <2> QED
        BY <2>3, <2>4
<1>22. Written(q, p, u, A \cup N)
    BY <1>1, <1>10, <1>19, <1>20, <1>21 DEF Written
<1> QED
    BY <1>7, <1>9, <1>22

LEMMA BesideUsIs ==
    ASSUME IsNest(open), open # <<>>, NEW r \in Nat,
           NEW N, N = {<<i, r + 1>> : i \in Before(open, Len(open), r)}
    PROVE  AskedOf(r + 1) = N
<1>1. \A l \in 1 .. Len(open) : IsChain(open[l])
    BY DEF IsNest
<1>2. Len(open) \in Nat
    BY LenProperties DEF IsNest
<1>3. \A l \in 1 .. Len(open) : open[l].fork.start \in Nat /\ open[l].base \in Nat
    BY <1>1, ChainTypes
<1>4. \A i \in 1 .. r : i \in BesideUs <=> i \in Beside(open, Len(open))
    BY DEF BesideUs, Beside
<1>5. (1 .. r + 1 - 1) \ BesideUs = Before(open, Len(open), r)
    BY <1>4 DEF Before
<1> QED
    BY <1>5 DEF AskedOf

LEMMA PipeStays ==
    ASSUME NEW q \in Queues, BuildInv, Pipe(q)
    PROVE  Written(queues, preds, open, asked)'
<1>1. IsNest(open) /\ open # <<>> /\ Written(queues, preds, open, asked)
    BY DEF BuildInv, Written, NestWell, Pipe
<1>2. Len(open) \in 1 .. Len(open)
    <2>1. open \in Seq(Chains)
        BY <1>1 DEF IsNest
    <2> QED
        BY <1>1, <2>1, EmptySeq
<1>3. Top = open[Len(open)] /\ IsChain(Top) /\ ~ Top.forked
    BY <1>1, <1>2 DEF IsNest, Top, Last, Pipe
<1>4. PICK r \in Nat : r = Reached(Top)
    BY <1>3, ChainTypes
<1>5. PICK N : N = {<<i, r + 1>> : i \in Before(open, Len(open), r)}
    OBVIOUS
<1>6. AskedOf(r + 1) = N
    BY <1>1, <1>5, BesideUsIs
<1>7. open' = Append(Front(open), Lowered(Top, q)) /\ queues' = queues /\ preds' = preds
      /\ asked' = asked \cup N
    BY <1>4, <1>6 DEF Pipe, Below
<1>8. Written(queues, preds, Append(Front(open), Lowered(Top, q)), asked \cup N)
    <2>1. OnTop(open, Top, r, N)
        BY <1>1, <1>3, <1>4, <1>5 DEF OnTop
    <2> QED
        BY <1>1, <2>1, OneMore
<1> QED
    BY <1>7, <1>8

LEMMA CompositeStays ==
    ASSUME NEW q \in Queues, BuildInv, PipeComposite(q)
    PROVE  Written(queues, preds, open, asked)'
<1>1. IsNest(open) /\ open # <<>> /\ Written(queues, preds, open, asked) /\ open \in Seq(Chains)
      /\ NestWell(queues, preds, open)
    BY DEF BuildInv, Written, NestWell, PipeComposite, IsNest
<1>2. Len(open) \in 1 .. Len(open)
    BY <1>1, EmptySeq
<1>3. Top = open[Len(open)] /\ IsChain(Top) /\ ~ Top.forked
    BY <1>1, <1>2 DEF IsNest, Top, Last, PipeComposite
<1>4. PICK r \in Nat : r = Reached(Top)
    BY <1>3, ChainTypes
<1>5. PICK L : L = Len(open)
    OBVIOUS
<1>6. PICK c : c = Lowered(Top, q)
    OBVIOUS
<1>7. IsChain(c) /\ ~ c.forked /\ Reached(c) = r + 1 /\ c.base = Top.base /\ c.dag = Top.dag
    BY <1>3, <1>4, <1>6, LoweredFacts
<1>8. PICK u : u = Append(Front(open), c)
    OBVIOUS
<1>9. /\ u # <<>> /\ Len(u) = L /\ u[L] = c /\ u \in Seq(Chains) /\ Front(u) = Front(open)
      /\ Beside(u, L) = Beside(open, L)
    <2>1. /\ u # <<>> /\ Len(u) = L /\ u[L] = c /\ u \in Seq(Chains)
          /\ \A l \in 1 .. Len(open) : Beside(u, l) = Beside(open, l)
          /\ \A l \in 1 .. L - 1 : u[l] = open[l]
        BY <1>1, <1>3, <1>5, <1>7, <1>8, NestOfTop
    <2>2. c \in Chains
        BY <1>7, ChainTypes
    <2>3. /\ Front(u) \in Seq(Chains) /\ Len(Front(u)) = Len(u) - 1
          /\ \A l \in 1 .. Len(u) - 1 : Front(u)[l] = u[l]
        BY <2>1, <2>2, ReplaceTop
    <2>4. /\ Front(open) \in Seq(Chains) /\ Len(Front(open)) = Len(open) - 1
          /\ \A l \in 1 .. Len(open) - 1 : Front(open)[l] = open[l]
        BY <1>1, <2>2, ReplaceTop
    <2>5. Front(u) = Front(open)
        BY <1>5, <2>1, <2>3, <2>4, SeqEqual
    <2> QED
        BY <1>2, <1>5, <2>1, <2>5
<1>10. PICK N : N = {<<i, r + 1>> : i \in Before(open, L, r)}
    OBVIOUS
<1>11. Written(queues, preds, u, asked \cup N)
    <2>1. OnTop(open, Top, r, N)
        BY <1>1, <1>3, <1>4, <1>5, <1>10 DEF OnTop
    <2> QED
        BY <1>1, <1>6, <1>8, <2>1, OneMore
<1>12. PICK v \in Nat : v = r + 1
    OBVIOUS
<1>0. PICK M : M = {<<i, v + 1>> : i \in Before(u, L, v)}
    OBVIOUS
<1>13. Written(queues, preds, Append(Front(u), Lowered(c, q)), asked \cup N \cup M)
    <2>1. PICK B : B = asked \cup N
        OBVIOUS
    <2>2. Written(queues, preds, u, B) /\ OnTop(u, c, v, M)
        BY <1>0, <1>7, <1>9, <1>11, <1>12, <2>1 DEF OnTop
    <2>3. Written(queues, preds, Append(Front(u), Lowered(c, q)), B \cup M)
        BY <2>2, OneMore
    <2> QED
        BY <2>1, <2>3
<1>14. AskedOf(r + 1) = N
    BY <1>1, <1>5, <1>10, BesideUsIs
<1>15. AskedOf(v + 1) = M
    <2>1. Before(open, Len(open), v) = Before(u, L, v)
        BY <1>5, <1>9 DEF Before
    <2>2. M = {<<i, v + 1>> : i \in Before(open, Len(open), v)}
        BY <1>0, <2>1
    <2> QED
        BY <1>1, <2>2, BesideUsIs
<1>16. open' = Append(Front(open), Lowered(c, q)) /\ queues' = queues /\ preds' = preds
       /\ asked' = asked \cup N \cup M
    BY <1>4, <1>6, <1>12, <1>14, <1>15 DEF PipeComposite, Below
<1> QED
    BY <1>9, <1>13, <1>16

\* The innermost chain is replaced by another with the same links.
SameLinks(o, c, u) ==
    /\ o # <<>> /\ u = Append(Front(o), c) /\ IsChain(c)
    /\ c.base = o[Len(o)].base /\ Reached(c) = Reached(o[Len(o)])
    /\ o[Len(o)].dag => c.dag
    /\ LinksOf(c) = LinksOf(o[Len(o)])

LEMMA TopRestated ==
    ASSUME NEW q, NEW p, NEW o, NEW A, Written(q, p, o, A),
           NEW c, NEW u, SameLinks(o, c, u), FreeAt(u, Len(o)),
           Forward(GivenBy(q, p)) => CoveredAt(Drawn(q, p, o), u, Len(o))
    PROVE  Written(q, p, u, A)
<1>0. /\ o # <<>> /\ u = Append(Front(o), c) /\ IsChain(c)
      /\ c.base = o[Len(o)].base /\ Reached(c) = Reached(o[Len(o)])
      /\ o[Len(o)].dag => c.dag
      /\ LinksOf(c) = LinksOf(o[Len(o)])
    BY DEF SameLinks
<1>1. /\ GivenWell(q, p) /\ NestWell(q, p, o) /\ AskedWell(q, p, o, A)
      /\ FreeWell(o) /\ CoverWell(q, p, o, A) /\ IsNest(o) /\ o \in Seq(Chains)
    BY DEF Written, NestWell, IsNest
<1>2. PICK L \in Nat : L = Len(o) /\ L # 0
    BY <1>0, <1>1, EmptySeq
<1>3. /\ NestWell(q, p, u) /\ u # <<>> /\ Len(u) = L /\ u[L] = c /\ u \in Seq(Chains)
      /\ \A l \in 1 .. L - 1 : u[l] = o[l]
    BY <1>0, <1>1, <1>2, NestOfTop
<1>4. Drawn(q, p, u) = Drawn(q, p, o)
    <2>1. PICK X : X = {}
        OBVIOUS
    <2>2. X \subseteq Edges /\ LinksOf(u[L]) = LinksOf(o[L]) \cup X
        BY <1>0, <1>2, <1>3, <2>1
    <2>3. MoreLinks(o, u, X)
        BY <1>2, <1>3, <2>2 DEF MoreLinks
    <2>4. PICK D : D = Drawn(q, p, o)
        OBVIOUS
    <2>5. Drawn(q, p, u) = D \cup X
        BY <2>3, <2>4, DrawnMore
    <2> QED
        BY <2>1, <2>4, <2>5
<1>5. LastStep(q, u) = LastStep(q, o)
    BY <1>0, <1>2, <1>3 DEF LastStep
<1>6. AskedWell(q, p, u, A)
    BY <1>1, <1>4, <1>5 DEF AskedWell
<1>7. ASSUME NEW l \in 1 .. L, l # L
      PROVE  /\ FreeAt(o, l) => FreeAt(u, l)
             /\ CoveredAt(Drawn(q, p, o), o, l) => CoveredAt(Drawn(q, p, o), u, l)
    <2>1. l \in Nat /\ l # 0 /\ \A m \in 1 .. l : o[m] = u[m]
        BY <1>2, <1>3, <1>7
    <2> QED
        BY <2>1, LowerStays
<1>8. FreeWell(u)
    BY <1>1, <1>2, <1>3, <1>7 DEF FreeWell
<1>9. CoverWell(q, p, u, A)
    BY <1>1, <1>2, <1>3, <1>4, <1>7 DEF CoverWell
<1> QED
    BY <1>1, <1>3, <1>6, <1>8, <1>9 DEF Written

LEMMA OpenForkStays ==
    ASSUME BuildInv, OpenFork
    PROVE  Written(queues, preds, open, asked)'
<1>1. IsNest(open) /\ open # <<>> /\ Written(queues, preds, open, asked) /\ open \in Seq(Chains)
      /\ FreeWell(open) /\ CoverWell(queues, preds, open, asked)
    BY DEF BuildInv, Written, NestWell, OpenFork, IsNest
<1>2. PICK L \in Nat : L = Len(open) /\ L # 0
    BY <1>1, EmptySeq
<1>3. PICK t : t = open[L]
    OBVIOUS
<1>4. Top = t /\ IsChain(t) /\ ~ t.forked
    BY <1>1, <1>2, <1>3 DEF IsNest, Top, Last, OpenFork
<1>5. /\ t \in Chains /\ t.base \in Nat /\ t.queues \in Seq(Queues) /\ t.preds \in Seq(Seq(Steps))
      /\ t.frontier \in Seq(Steps) /\ t.dag \in BOOLEAN
    BY <1>4, ChainTypes
<1>6. PICK r \in Nat, b \in Nat, n \in Nat :
        r = Reached(t) /\ b = t.base /\ n = Len(t.queues) /\ r = b + n
    BY <1>4, ChainTypes
<1>7. PICK p : p = IF t.dag THEN t.preds
                   ELSE [i \in DOMAIN t.queues |-> IF b + i = 1 THEN <<>> ELSE <<b + i - 1>>]
    OBVIOUS
<1>8. PICK c : c = [t EXCEPT !.preds = p, !.dag = TRUE, !.frontier = <<>>, !.forked = TRUE,
                             !.fork = [incoming |-> t.frontier, start |-> r, branches |-> 0]]
    OBVIOUS
<1>9. /\ c.base = b /\ c.queues = t.queues /\ c.preds = p /\ c.dag /\ c.frontier = <<>> /\ c.forked
      /\ c.fork = [incoming |-> t.frontier, start |-> r, branches |-> 0]
      /\ c = [base |-> c.base, queues |-> c.queues, preds |-> c.preds, frontier |-> c.frontier,
              dag |-> c.dag, forked |-> c.forked, fork |-> c.fork]
      /\ c.dag \in BOOLEAN /\ c.forked \in BOOLEAN
    BY <1>5, <1>6, <1>8 DEF Chains
<1>10. p \in Seq(Seq(Steps)) /\ Len(p) = n
    <2>1. CASE t.dag
        BY <1>4, <1>5, <1>6, <1>7, <2>1 DEF IsChain
    <2>2. CASE ~ t.dag
        <3>1. DOMAIN t.queues = 1 .. n
            BY <1>5, <1>6
        <3>2. ASSUME NEW i \in 1 .. n
              PROVE  (IF b + i = 1 THEN <<>> ELSE <<b + i - 1>>) \in Seq(Steps)
            <4>1. CASE b + i = 1
                BY <4>1
            <4>2. CASE b + i # 1
                <5>1. b + i - 1 \in Steps
                    BY <4>2 DEF Steps
                <5> QED
                    BY <4>2, <5>1
            <4> QED
                BY <4>1, <4>2
        <3>3. p \in [1 .. n -> Seq(Steps)]
            BY <1>7, <2>2, <3>1, <3>2
        <3> QED
            BY <3>3
    <2> QED
        BY <1>5, <2>1, <2>2
<1>11. c.fork \in Forks /\ c.fork.incoming = t.frontier /\ c.fork.start = r /\ c.fork.branches = 0
    BY <1>5, <1>9 DEF Forks
<1>12. c \in Chains
    <2>1. c.frontier \in Seq(Steps)
        BY <1>9
    <2>2. c.base \in Nat /\ c.queues \in Seq(Queues) /\ c.preds \in Seq(Seq(Steps))
        BY <1>5, <1>6, <1>9, <1>10
    <2> QED
        BY <1>9, <1>11, <2>1, <2>2 DEF Chains
<1>13. Reached(c) = r
    BY <1>6, <1>9 DEF Reached
<1>14. IsChain(c)
    <2>1. Len(c.preds) = Len(c.queues)
        BY <1>6, <1>9, <1>10
    <2>2. c.fork.start \in 0 .. Reached(c) /\ c.fork.start = Reached(c) /\ c.frontier = <<>>
        BY <1>9, <1>11, <1>13
    <2> QED
        BY <1>9, <1>12, <2>1, <2>2 DEF IsChain
<1>15. LinksOf(c) = LinksOf(t)
    <2>1. CASE t.dag
        BY <1>6, <1>7, <1>9, <1>13, <2>1 DEF LinksOf
    <2>2. CASE ~ t.dag
        <3>1. DOMAIN t.queues = 1 .. n
            BY <1>5, <1>6
        <3>2. ASSUME NEW i \in b + 1 .. r
              PROVE  p[i - b] = IF i = 1 THEN <<>> ELSE <<i - 1>>
            <4>1. i - b \in 1 .. n /\ b + (i - b) = i
                BY <1>6
            <4> QED
                BY <1>7, <2>2, <3>1, <4>1
        <3>3. ASSUME NEW e \in Edges
              PROVE  e \in LinksOf(c) <=> e \in LinksOf(t)
            <4>1. e[1] \in Nat /\ e[2] \in Nat
                BY DEF Edges
            <4>2. CASE e[2] \in b + 1 .. r
                <5>1. e \in LinksOf(c) <=>
                        \E k \in 1 .. Len(p[e[2] - b]) : p[e[2] - b][k] = e[1]
                    BY <1>9, <1>13, <4>2 DEF LinksOf
                <5>2. e \in LinksOf(t) <=> e[1] = e[2] - 1 /\ e[1] # 0
                    BY <1>6, <2>2, <4>2 DEF LinksOf
                <5>3. p[e[2] - b] = IF e[2] = 1 THEN <<>> ELSE <<e[2] - 1>>
                    BY <3>2, <4>2
                <5>4. CASE e[2] = 1
                    BY <4>1, <5>1, <5>2, <5>3, <5>4
                <5>5. CASE e[2] # 1
                    <6>1. PICK w : w = p[e[2] - b]
                        OBVIOUS
                    <6>2. w = <<e[2] - 1>> /\ Len(w) = 1 /\ w[1] = e[2] - 1 /\ e[2] - 1 # 0
                        BY <4>1, <5>3, <5>5, <6>1
                    <6>3. e \in LinksOf(c) <=> w[1] = e[1]
                        BY <5>1, <6>1, <6>2
                    <6> QED
                        BY <5>2, <6>2, <6>3
                <5> QED
                    BY <5>4, <5>5
            <4>3. CASE e[2] \notin b + 1 .. r
                BY <1>6, <1>9, <1>13, <4>3 DEF LinksOf
            <4> QED
                BY <4>2, <4>3
        <3> QED
            BY <3>3 DEF LinksOf
    <2> QED
        BY <1>5, <2>1, <2>2
<1>16. PICK u : u = Append(Front(open), c)
    OBVIOUS
<1>17. u[L] = c /\ Beside(u, L) = Beside(open, L)
    <2>1. NestWell(queues, preds, open) /\ c.base = open[Len(open)].base
          /\ (open[Len(open)].dag => c.dag)
        BY <1>1, <1>2, <1>3, <1>6, <1>9 DEF Written
    <2>2. /\ Append(Front(open), c)[Len(open)] = c
          /\ \A l \in 1 .. Len(open) : Beside(Append(Front(open), c), l) = Beside(open, l)
        BY <1>1, <1>14, <2>1, NestOfTop
    <2> QED
        BY <1>2, <1>16, <2>2
<1>18. FreeAt(u, L)
    <2>1. \A k \in 1 .. Len(t.frontier) : t.frontier[k] \in Before(open, L, r)
        <3>1. FreeAt(open, L)
            BY <1>1, <1>2 DEF FreeWell
        <3> QED
            BY <1>3, <1>6, <3>1 DEF FreeAt
    <2>2. Before(u, L, r) = Before(open, L, r)
        BY <1>17 DEF Before
    <2> QED
        BY <1>9, <1>11, <1>17, <2>1, <2>2 DEF FreeAt
<1>19. Forward(GivenBy(queues, preds)) => CoveredAt(Drawn(queues, preds, open), u, L)
    <2> SUFFICES ASSUME Forward(GivenBy(queues, preds))
                 PROVE  CoveredAt(Drawn(queues, preds, open), u, L)
        OBVIOUS
    <2>1. CoveredAt(Drawn(queues, preds, open), open, L)
        BY <1>1, <1>2 DEF CoverWell
    <2>2. Covers(Drawn(queues, preds, open), t.frontier, Before(open, L, r))
        BY <1>3, <1>4, <1>6, <2>1 DEF CoveredAt
    <2>3. Before(u, L, r) = Before(open, L, r)
        BY <1>17 DEF Before
    <2> QED
        BY <1>9, <1>11, <1>17, <2>2, <2>3 DEF CoveredAt
<1>20. Written(queues, preds, u, asked)
    <2>1. SameLinks(open, c, u)
        BY <1>1, <1>2, <1>3, <1>6, <1>9, <1>13, <1>14, <1>15, <1>16 DEF SameLinks
    <2> QED
        BY <1>1, <1>2, <1>18, <1>19, <2>1, TopRestated
<1>21. open' = u /\ queues' = queues /\ preds' = preds /\ asked' = asked
    BY <1>4, <1>6, <1>7, <1>8, <1>16 DEF OpenFork, Below, vars, options
<1> QED
    BY <1>20, <1>21

LEMMA CloseForkStays ==
    ASSUME BuildInv, CloseFork
    PROVE  Written(queues, preds, open, asked)'
<1>1. IsNest(open) /\ open # <<>> /\ Written(queues, preds, open, asked) /\ open \in Seq(Chains)
      /\ FreeWell(open) /\ CoverWell(queues, preds, open, asked) /\ NestWell(queues, preds, open)
    BY DEF BuildInv, Written, NestWell, CloseFork, IsNest
<1>2. PICK L \in Nat : L = Len(open) /\ L # 0
    BY <1>1, EmptySeq
<1>3. PICK t : t = open[L]
    OBVIOUS
<1>4. Top = t /\ IsChain(t) /\ t.forked /\ t.dag /\ t.fork.branches # 0
    BY <1>1, <1>2, <1>3 DEF IsNest, Top, Last, CloseFork, IsChain
<1>5. /\ t \in Chains /\ t.base \in Nat /\ t.queues \in Seq(Queues) /\ t.preds \in Seq(Seq(Steps))
      /\ t.frontier \in Seq(Steps) /\ Reached(t) \in Nat
    BY <1>4, ChainTypes
<1>6. PICK c : c = [t EXCEPT !.forked = FALSE, !.fork = NoFork]
    OBVIOUS
<1>7. /\ c.base = t.base /\ c.queues = t.queues /\ c.preds = t.preds /\ c.dag /\ ~ c.forked
      /\ c.frontier = t.frontier /\ c.fork = NoFork /\ c.dag \in BOOLEAN /\ c.forked \in BOOLEAN
      /\ c = [base |-> c.base, queues |-> c.queues, preds |-> c.preds, frontier |-> c.frontier,
              dag |-> c.dag, forked |-> c.forked, fork |-> c.fork]
    BY <1>4, <1>5, <1>6 DEF Chains
<1>8. c \in Chains
    <2>1. NoFork \in Forks
        BY DEF NoFork, Forks
    <2> QED
        BY <1>5, <1>7, <2>1 DEF Chains
<1>9. Reached(c) = Reached(t)
    BY <1>7 DEF Reached
<1>10. IsChain(c)
    <2>1. Len(c.preds) = Len(c.queues)
        BY <1>4, <1>7 DEF IsChain
    <2> QED
        BY <1>7, <1>8, <2>1 DEF IsChain
<1>11. LinksOf(c) = LinksOf(t)
    BY <1>4, <1>7, <1>9 DEF LinksOf
<1>12. PICK u : u = Append(Front(open), c)
    OBVIOUS
<1>13. u[L] = c /\ \A n : Before(u, L, n) = Before(open, L, n)
    <2>1. c.base = open[Len(open)].base /\ (open[Len(open)].dag => c.dag)
        BY <1>2, <1>3, <1>7
    <2>2. /\ Append(Front(open), c)[Len(open)] = c
          /\ \A l \in 1 .. Len(open) : Beside(Append(Front(open), c), l) = Beside(open, l)
        BY <1>1, <1>10, <2>1, NestOfTop
    <2> QED
        BY <1>2, <1>12, <2>2 DEF Before
<1>14. FreeAt(u, L)
    <2>1. FreeAt(open, L)
        BY <1>1, <1>2 DEF FreeWell
    <2> QED
        BY <1>3, <1>7, <1>9, <1>13, <2>1 DEF FreeAt
<1>15. Forward(GivenBy(queues, preds)) => CoveredAt(Drawn(queues, preds, open), u, L)
    <2> SUFFICES ASSUME Forward(GivenBy(queues, preds))
                 PROVE  CoveredAt(Drawn(queues, preds, open), u, L)
        OBVIOUS
    <2>1. CoveredAt(Drawn(queues, preds, open), open, L)
        BY <1>1, <1>2 DEF CoverWell
    <2>2. Covers(Drawn(queues, preds, open), t.frontier, Before(open, L, Reached(t)))
        BY <1>3, <1>4, <2>1 DEF CoveredAt
    <2> QED
        BY <1>7, <1>9, <1>13, <2>2 DEF CoveredAt
<1>16. Written(queues, preds, u, asked)
    <2>1. SameLinks(open, c, u)
        BY <1>1, <1>2, <1>3, <1>7, <1>9, <1>10, <1>11, <1>12 DEF SameLinks
    <2> QED
        BY <1>1, <1>2, <1>14, <1>15, <2>1, TopRestated
<1>17. open' = u /\ queues' = queues /\ preds' = preds /\ asked' = asked
    BY <1>4, <1>6, <1>12 DEF CloseFork, Below, vars, options
<1> QED
    BY <1>16, <1>17

\* The edges of two nests are the same when those of their chains are.
SameEdges(o, u) ==
    \A e \in Edges : (\E l \in 1 .. Len(o) : e \in LinksOf(o[l]))
                        <=> (\E l \in 1 .. Len(u) : e \in LinksOf(u[l]))

LEMMA DrawnSame ==
    ASSUME NEW q, NEW p, NEW o, NEW u, SameEdges(o, u)
    PROVE  Drawn(q, p, u) = Drawn(q, p, o)
BY DEF SameEdges, Drawn

\* A branch begins after what the fork came after.
LEMMA OpenBranchStays ==
    ASSUME BuildInv, OpenBranch
    PROVE  Written(queues, preds, open, asked)'
<1>1. /\ IsNest(open) /\ open # <<>> /\ open \in Seq(Chains)
      /\ GivenWell(queues, preds) /\ AskedWell(queues, preds, open, asked)
      /\ FreeWell(open) /\ CoverWell(queues, preds, open, asked) /\ NestWell(queues, preds, open)
    BY DEF BuildInv, Written, NestWell, OpenBranch, IsNest
<1>2. PICK L \in Nat : L = Len(open) /\ L # 0
    BY <1>1, EmptySeq
<1>3. PICK t : t = open[L]
    OBVIOUS
<1>4. Top = t /\ IsChain(t) /\ t.forked
    BY <1>1, <1>2, <1>3 DEF IsNest, Top, Last, OpenBranch
<1>5. PICK r \in Nat, s \in Nat, F \in Seq(Steps) :
        r = Reached(t) /\ s = t.fork.start /\ F = t.fork.incoming
    BY <1>4, ChainTypes
<1>6. s <= r
    BY <1>4, <1>5 DEF IsChain
<1>7. PICK c : c = Chain(r, F, TRUE)
    OBVIOUS
<1>8. /\ c.base = r /\ c.queues = <<>> /\ c.preds = <<>> /\ c.frontier = F /\ c.dag /\ ~ c.forked
      /\ IsChain(c) /\ Reached(c) = r /\ c \in Chains
    <2>1. /\ c.base = r /\ c.queues = <<>> /\ c.preds = <<>> /\ c.frontier = F /\ c.dag /\ ~ c.forked
          /\ c.fork = NoFork
        BY <1>7 DEF Chain
    <2>2. NoFork \in Forks
        BY DEF NoFork, Forks
    <2>3. c \in Chains
        BY <1>5, <1>7, <2>2 DEF Chain, Chains
    <2>4. Reached(c) = r
        BY <2>1 DEF Reached
    <2> QED
        BY <2>1, <2>3, <2>4 DEF IsChain
<1>9. PICK u : u = Append(open, c)
    OBVIOUS
<1>10. /\ u \in Seq(Chains) /\ Len(u) = L + 1 /\ u[L + 1] = c /\ u # <<>>
       /\ \A l \in 1 .. L : u[l] = open[l]
    BY <1>1, <1>2, <1>8, <1>9, AppendProperties
<1>11. NestWell(queues, preds, u)
    <2>1. ASSUME NEW l \in 1 .. L + 1
          PROVE  /\ IsChain(u[l])
                 /\ l > 1 => u[l].dag
                 /\ l < L + 1 => u[l].forked /\ u[l + 1].base = Reached(u[l])
        <3>1. CASE l = L + 1
            BY <1>2, <1>8, <1>10, <3>1
        <3>2. CASE l = L
            <4>1. u[l] = t /\ u[l + 1] = c /\ (l > 1 => t.dag)
                BY <1>1, <1>2, <1>3, <1>10, <3>2 DEF IsNest
            <4> QED
                BY <1>4, <1>5, <1>8, <4>1
        <3>3. CASE l # L + 1 /\ l # L
            <4>1. l \in 1 .. L /\ l + 1 \in 1 .. L /\ l < L
                BY <1>2, <3>3
            <4>2. u[l] = open[l] /\ u[l + 1] = open[l + 1]
                BY <1>10, <4>1
            <4> QED
                BY <1>1, <1>2, <4>1, <4>2 DEF IsNest
        <3> QED
            BY <3>1, <3>2, <3>3
    <2>2. IsNest(u)
        BY <1>10, <2>1 DEF IsNest
    <2>3. u[1] = open[1]
        BY <1>2, <1>10
    <2> QED
        BY <1>1, <2>2, <2>3 DEF NestWell
<1>12. Drawn(queues, preds, u) = Drawn(queues, preds, open)
    <2>1. LinksOf(c) = {}
        BY <1>8 DEF LinksOf
    <2>2. SameEdges(open, u)
        <3> SUFFICES ASSUME NEW e \in Edges
                     PROVE  (\E l \in 1 .. L : e \in LinksOf(open[l]))
                                <=> (\E l \in 1 .. L + 1 : e \in LinksOf(u[l]))
            BY <1>2, <1>10 DEF SameEdges
        <3>1. ASSUME NEW l \in 1 .. L, e \in LinksOf(open[l])
              PROVE  \E m \in 1 .. L + 1 : e \in LinksOf(u[m])
            BY <1>2, <1>10, <3>1
        <3>2. ASSUME NEW l \in 1 .. L + 1, e \in LinksOf(u[l])
              PROVE  \E m \in 1 .. L : e \in LinksOf(open[m])
            <4>1. l # L + 1
                BY <1>10, <2>1, <3>2
            <4>2. l \in 1 .. L
                BY <1>2, <4>1
            <4> QED
                BY <1>10, <3>2, <4>2
        <3> QED
            BY <3>1, <3>2
    <2> QED
        BY <2>2, DrawnSame
<1>13. AskedWell(queues, preds, u, asked)
    <2>1. LastStep(queues, u) = r /\ LastStep(queues, open) = r
        BY <1>1, <1>2, <1>3, <1>5, <1>8, <1>10 DEF LastStep
    <2> QED
        BY <1>1, <1>12, <2>1 DEF AskedWell
<1>14. ASSUME NEW l \in 1 .. L, NEW D
       PROVE  /\ FreeAt(open, l) => FreeAt(u, l)
              /\ CoveredAt(D, open, l) => CoveredAt(D, u, l)
    <2>1. l \in Nat /\ l # 0 /\ \A m \in 1 .. l : open[m] = u[m]
        BY <1>2, <1>10
    <2> QED
        BY <2>1, LowerStays
<1>15. \A i \in Beside(u, L + 1) : i \in Beside(open, L) \/ i \in s + 1 .. r
    <2> SUFFICES ASSUME NEW i \in Beside(u, L + 1), i \notin Beside(open, L)
                 PROVE  i \in s + 1 .. r
        OBVIOUS
    <2>1. PICK m \in 1 .. L : i \in u[m].fork.start + 1 .. u[m + 1].base
        BY <1>2 DEF Beside
    <2>2. CASE m = L
        BY <1>3, <1>5, <1>8, <1>10, <2>1, <2>2
    <2>3. CASE m # L
        <3>1. m \in 1 .. L - 1 /\ m + 1 \in 1 .. L /\ i \in Nat
            BY <1>2, <2>3 DEF Beside
        <3>2. i \in open[m].fork.start + 1 .. open[m + 1].base
            BY <1>10, <2>1, <3>1
        <3> QED
            BY <3>1, <3>2 DEF Beside
    <2> QED
        BY <2>2, <2>3
<1>16. \A i \in Nat : i \in Beside(open, L) \/ i \in s + 1 .. r => i \in Beside(u, L + 1)
    <2> SUFFICES ASSUME NEW i \in Nat, i \in Beside(open, L) \/ i \in s + 1 .. r
                 PROVE  \E m \in 1 .. L + 1 - 1 : i \in u[m].fork.start + 1 .. u[m + 1].base
        BY DEF Beside
    <2>1. CASE i \in s + 1 .. r
        BY <1>2, <1>3, <1>5, <1>8, <1>10, <2>1
    <2>2. CASE i \in Beside(open, L)
        <3>1. PICK m \in 1 .. L - 1 : i \in open[m].fork.start + 1 .. open[m + 1].base
            BY <2>2 DEF Beside
        <3>2. m \in 1 .. L /\ m + 1 \in 1 .. L
            BY <1>2
        <3> QED
            BY <1>2, <1>10, <3>1, <3>2
    <2> QED
        BY <2>1, <2>2
<1>17. Before(u, L + 1, r) = Before(open, L, s)
    <2>1. ASSUME NEW i \in Before(u, L + 1, r)
          PROVE  i \in Before(open, L, s)
        BY <1>6, <1>16, <2>1 DEF Before
    <2>2. ASSUME NEW i \in Before(open, L, s)
          PROVE  i \in Before(u, L + 1, r)
        BY <1>6, <1>15, <2>2 DEF Before
    <2> QED
        BY <2>1, <2>2
<1>18. FreeWell(u)
    <2> SUFFICES ASSUME NEW l \in 1 .. L + 1
                 PROVE  FreeAt(u, l)
        BY <1>10 DEF FreeWell
    <2>1. CASE l \in 1 .. L
        BY <1>1, <1>2, <1>14, <2>1 DEF FreeWell
    <2>2. CASE l = L + 1
        <3>1. \A k \in 1 .. Len(F) : F[k] \in Before(open, L, s)
            BY <1>1, <1>2, <1>3, <1>4, <1>5 DEF FreeWell, FreeAt
        <3> QED
            BY <1>8, <1>10, <1>17, <2>2, <3>1 DEF FreeAt
    <2> QED
        BY <1>2, <2>1, <2>2
<1>19. CoverWell(queues, preds, u, asked)
    <2> SUFFICES ASSUME Forward(GivenBy(queues, preds)), NEW l \in 1 .. L + 1
                 PROVE  CoveredAt(Drawn(queues, preds, open), u, l)
        BY <1>1, <1>10, <1>12 DEF CoverWell
    <2>1. \A m \in 1 .. L : CoveredAt(Drawn(queues, preds, open), open, m)
        BY <1>1, <1>2 DEF CoverWell
    <2>2. CASE l \in 1 .. L
        BY <1>14, <2>1, <2>2
    <2>3. CASE l = L + 1
        <3>1. Covers(Drawn(queues, preds, open), F, Before(open, L, s))
            BY <1>2, <1>3, <1>4, <1>5, <2>1 DEF CoveredAt
        <3> QED
            BY <1>8, <1>10, <1>17, <2>3, <3>1 DEF CoveredAt
    <2> QED
        BY <1>2, <2>2, <2>3
<1>20. Written(queues, preds, u, asked)
    BY <1>1, <1>11, <1>13, <1>18, <1>19 DEF Written
<1>21. open' = u /\ queues' = queues /\ preds' = preds /\ asked' = asked
    BY <1>4, <1>5, <1>7, <1>9 DEF OpenBranch, vars, options
<1> QED
    BY <1>20, <1>21

\* One sequence after the other.
IsJoin(y, z, w, m, n) ==
    /\ m = Len(y) /\ n = Len(z) /\ Len(w) = m + n
    /\ \A k \in 1 .. m : w[k] = y[k]
    /\ \A k \in 1 .. n : w[m + k] = z[k]
    /\ \A k \in 1 .. m + n :
        \/ k \in 1 .. m /\ w[k] = y[k]
        \/ k - m \in 1 .. n /\ w[k] = z[k - m]

LEMMA JoinOf ==
    ASSUME NEW T, NEW y \in Seq(T), NEW z \in Seq(T), NEW w, w = y \o z
    PROVE  w \in Seq(T) /\ \E m \in Nat, n \in Nat : IsJoin(y, z, w, m, n)
<1>1. PICK m \in Nat, n \in Nat : m = Len(y) /\ n = Len(z)
    BY LenProperties
<1>2. m \in Nat /\ n \in Nat
    OBVIOUS
<1>3. /\ w \in Seq(T) /\ Len(w) = m + n
      /\ \A k \in 1 .. m + n : w[k] = IF k <= m THEN y[k] ELSE z[k - m]
    BY <1>1, ConcatProperties
<1>4. \A k \in 1 .. m : k \in 1 .. m + n /\ k <= m
    BY <1>2
<1>5. \A k \in 1 .. n : m + k \in 1 .. m + n /\ ~ (m + k <= m) /\ m + k - m = k
    BY <1>2
<1>6. \A k \in 1 .. m + n : (k <= m => k \in 1 .. m) /\ (~ (k <= m) => k - m \in 1 .. n)
    BY <1>2
<1>7. \A k \in 1 .. m : w[k] = y[k]
    BY <1>3, <1>4
<1>8. \A k \in 1 .. n : w[m + k] = z[k]
    <2> SUFFICES ASSUME NEW k \in 1 .. n
                 PROVE  w[m + k] = z[k]
        OBVIOUS
    <2>1. PICK j : j = m + k
        OBVIOUS
    <2>2. j \in 1 .. m + n /\ ~ (j <= m) /\ j - m = k
        BY <1>5, <2>1
    <2>3. w[j] = z[j - m]
        BY <1>3, <2>2
    <2> QED
        BY <2>1, <2>2, <2>3
<1>9. \A k \in 1 .. m + n :
        \/ k \in 1 .. m /\ w[k] = y[k]
        \/ k - m \in 1 .. n /\ w[k] = z[k - m]
    BY <1>3, <1>6
<1>10. IsJoin(y, z, w, m, n)
    BY <1>1, <1>3, <1>7, <1>8, <1>9 DEF IsJoin
<1> QED
    BY <1>3, <1>10

\* The links of two chains, of which one continues the other.
LEMMA LinksJoin ==
    ASSUME NEW b, NEW t, NEW c, IsChain(b), IsChain(t), b.dag, t.dag, c.dag,
           t.base = Reached(b), c.base = b.base,
           c.queues = b.queues \o t.queues, c.preds = b.preds \o t.preds
    PROVE  LinksOf(c) = LinksOf(b) \cup LinksOf(t) /\ Reached(c) = Reached(t)
<1>1. /\ b.queues \in Seq(Queues) /\ t.queues \in Seq(Queues)
      /\ b.preds \in Seq(Seq(Steps)) /\ t.preds \in Seq(Seq(Steps))
    BY ChainTypes
<1>2. PICK x \in Nat, m \in Nat, n \in Nat :
        /\ x = b.base /\ m = Len(b.queues) /\ n = Len(t.queues)
        /\ Reached(b) = x + m /\ t.base = x + m /\ Reached(t) = x + m + n
    BY ChainTypes
<1>0. x \in Nat /\ m \in Nat /\ n \in Nat
    BY <1>2
<1>3. Len(b.preds) = m /\ Len(t.preds) = n
    BY <1>2 DEF IsChain
<1>4. /\ Len(c.queues) = m + n /\ Len(c.preds) = m + n
      /\ \A k \in 1 .. m + n : c.preds[k] = IF k <= m THEN b.preds[k] ELSE t.preds[k - m]
    <2>1. Len(c.queues) = m + n
        BY <1>1, <1>2, ConcatProperties
    <2>0. PICK T : T = Seq(Steps)
        OBVIOUS
    <2>2. PICK y \in Seq(T), z \in Seq(T) : y = b.preds /\ z = t.preds
        BY <1>1, <2>0
    <2>3. /\ Len(y \o z) = Len(y) + Len(z)
          /\ \A k \in 1 .. Len(y) + Len(z) :
                (y \o z)[k] = IF k <= Len(y) THEN y[k] ELSE z[k - Len(y)]
        BY ConcatProperties
    <2>4. Len(y) = m /\ Len(z) = n /\ c.preds = y \o z
        BY <1>3, <2>2
    <2> QED
        BY <2>1, <2>2, <2>3, <2>4
<1>5. Reached(c) = x + m + n
    <2>1. Reached(c) = x + (m + n)
        BY <1>2, <1>4 DEF Reached
    <2>2. x + (m + n) = x + m + n
        BY <1>0
    <2> QED
        BY <2>1, <2>2
<1>6. \A k \in x + 1 .. x + m : c.preds[k - x] = b.preds[k - x]
    <2> SUFFICES ASSUME NEW k \in x + 1 .. x + m
                 PROVE  c.preds[k - x] = b.preds[k - x]
        OBVIOUS
    <2>1. k - x \in 1 .. m + n /\ k - x <= m
        BY <1>0
    <2> QED
        BY <1>4, <2>1
<1>7. \A k \in x + m + 1 .. x + m + n : c.preds[k - x] = t.preds[k - (x + m)]
    <2> SUFFICES ASSUME NEW k \in x + m + 1 .. x + m + n
                 PROVE  c.preds[k - x] = t.preds[k - (x + m)]
        OBVIOUS
    <2>1. k - x \in 1 .. m + n /\ ~ (k - x <= m) /\ k - x - m = k - (x + m)
        BY <1>0
    <2> QED
        BY <1>4, <2>1
<1>8. ASSUME NEW e \in Edges
      PROVE  e \in LinksOf(c) <=> e \in LinksOf(b) \/ e \in LinksOf(t)
    <2>1. e[2] \in Nat
        BY DEF Edges
    <2>2. CASE e[2] \in x + 1 .. x + m
        <3>1. e[2] \in x + 1 .. x + m + n /\ e[2] \notin x + m + 1 .. x + m + n
            BY <1>0, <2>1, <2>2
        <3>2. c.preds[e[2] - x] = b.preds[e[2] - x]
            BY <1>6, <2>2
        <3>3. e \in LinksOf(c) <=>
                \E k \in 1 .. Len(c.preds[e[2] - x]) : c.preds[e[2] - x][k] = e[1]
            BY <1>2, <1>5, <3>1 DEF LinksOf
        <3>4. e \in LinksOf(b) <=>
                \E k \in 1 .. Len(b.preds[e[2] - x]) : b.preds[e[2] - x][k] = e[1]
            BY <1>2, <2>2 DEF LinksOf
        <3>5. e \notin LinksOf(t)
            BY <1>2, <3>1 DEF LinksOf
        <3> QED
            BY <3>2, <3>3, <3>4, <3>5
    <2>3. CASE e[2] \in x + m + 1 .. x + m + n
        <3>1. e[2] \in x + 1 .. x + m + n /\ e[2] \notin x + 1 .. x + m
            BY <1>0, <2>1, <2>3
        <3>2. c.preds[e[2] - x] = t.preds[e[2] - (x + m)]
            BY <1>7, <2>3
        <3>3. e \in LinksOf(c) <=>
                \E k \in 1 .. Len(c.preds[e[2] - x]) : c.preds[e[2] - x][k] = e[1]
            BY <1>2, <1>5, <3>1 DEF LinksOf
        <3>4. e \in LinksOf(t) <=>
                \E k \in 1 .. Len(t.preds[e[2] - (x + m)]) : t.preds[e[2] - (x + m)][k] = e[1]
            BY <1>2, <2>3 DEF LinksOf
        <3>5. e \notin LinksOf(b)
            BY <1>2, <3>1 DEF LinksOf
        <3> QED
            BY <3>2, <3>3, <3>4, <3>5
    <2>4. CASE e[2] \notin x + 1 .. x + m /\ e[2] \notin x + m + 1 .. x + m + n
        <3>1. e[2] \notin x + 1 .. x + m + n
            BY <1>0, <2>1, <2>4
        <3> QED
            BY <1>2, <1>5, <2>4, <3>1 DEF LinksOf
    <2> QED
        BY <2>2, <2>3, <2>4
<1> QED
    BY <1>2, <1>5, <1>8 DEF LinksOf

\* A branch joins those before it.
LEMMA CloseBranchStays ==
    ASSUME BuildInv, CloseBranch
    PROVE  Written(queues, preds, open, asked)'
<1>1. /\ IsNest(open) /\ open \in Seq(Chains)
      /\ GivenWell(queues, preds) /\ AskedWell(queues, preds, open, asked)
      /\ FreeWell(open) /\ CoverWell(queues, preds, open, asked) /\ NestWell(queues, preds, open)
    BY DEF BuildInv, Written, NestWell, CloseBranch, IsNest
<1>2. PICK K \in Nat : Len(open) = K + 1 /\ K # 0
    <2>1. Len(open) \in Nat /\ Len(open) > 1
        BY <1>1, LenProperties DEF CloseBranch
    <2>2. PICK n \in Nat : n = Len(open) /\ n > 1
        BY <2>1
    <2>3. n - 1 \in Nat /\ n - 1 # 0 /\ n = n - 1 + 1
        BY <2>2
    <2> QED
        BY <2>2, <2>3
<1>3. PICK t : t = open[K + 1]
    OBVIOUS
<1>4. PICK b : b = open[K]
    OBVIOUS
<1>5. Top = t /\ IsChain(t) /\ t.dag /\ ~ t.forked /\ t.queues # <<>>
    BY <1>1, <1>2, <1>3 DEF IsNest, Top, Last, CloseBranch
<1>6. IsChain(b) /\ b.forked /\ b.dag /\ t.base = Reached(b)
    <2>1. K \in 1 .. Len(open) /\ K < Len(open)
        BY <1>2
    <2> QED
        BY <1>1, <1>2, <1>3, <1>4, <2>1 DEF IsNest, IsChain
<1>7. /\ open # <<>> /\ Front(open) \in Seq(Chains) /\ Len(Front(open)) = K
      /\ \A l \in 1 .. K : Front(open)[l] = open[l]
    <2>1. open # <<>> /\ t \in Chains
        BY <1>1, <1>2, <1>5, ChainTypes
    <2>2. PICK n \in Nat : n = Len(open) /\ n - 1 = K
        BY <1>2
    <2>3. /\ Front(open) \in Seq(Chains) /\ Len(Front(open)) = Len(open) - 1
          /\ \A l \in 1 .. Len(open) - 1 : Front(open)[l] = open[l]
        BY <1>1, <2>1, ReplaceTop
    <2> QED
        BY <2>1, <2>2, <2>3
<1>8. PICK w : w = Front(open)
    OBVIOUS
<1>9. w # <<>> /\ Last(w) = b /\ w \in Seq(Chains) /\ Len(w) = K /\ \A l \in 1 .. K : w[l] = open[l]
    BY <1>2, <1>4, <1>7, <1>8 DEF Last
<1>10. PICK c : c = [b EXCEPT !.queues = @ \o t.queues, !.preds = @ \o t.preds,
                              !.frontier = @ \o t.frontier, !.fork.branches = @ + 1]
    OBVIOUS
<1>11. /\ b.queues \in Seq(Queues) /\ t.queues \in Seq(Queues)
       /\ b.preds \in Seq(Seq(Steps)) /\ t.preds \in Seq(Seq(Steps))
       /\ b.frontier \in Seq(Steps) /\ t.frontier \in Seq(Steps)
       /\ b.fork \in Forks /\ b.fork.branches \in Nat /\ b.base \in Nat /\ b \in Chains
       /\ Reached(b) \in Nat /\ Reached(t) \in Nat /\ Reached(b) <= Reached(t)
    <2>1. t.base <= Reached(t)
        BY <1>5, ChainTypes
    <2> QED
        BY <1>5, <1>6, <2>1, ChainTypes
<1>12. /\ c.base = b.base /\ c.queues = b.queues \o t.queues /\ c.preds = b.preds \o t.preds
       /\ c.frontier = b.frontier \o t.frontier /\ c.dag /\ c.forked
       /\ c.dag \in BOOLEAN /\ c.forked \in BOOLEAN
       /\ c.fork.incoming = b.fork.incoming /\ c.fork.start = b.fork.start
       /\ c.fork.branches = b.fork.branches + 1 /\ c.fork \in Forks
       /\ c = [base |-> c.base, queues |-> c.queues, preds |-> c.preds, frontier |-> c.frontier,
               dag |-> c.dag, forked |-> c.forked, fork |-> c.fork]
    <2>0. PICK g \in Forks : g = b.fork
        BY <1>11
    <2>1. PICK f : f = [g EXCEPT !.branches = @ + 1]
        OBVIOUS
    <2>4. g.branches \in Nat /\ g.branches + 1 \in Nat
        BY DEF Forks
    <2>5. /\ f.incoming = g.incoming /\ f.start = g.start /\ f.branches = g.branches + 1
        BY <2>1 DEF Forks
    <2>6. f \in Forks
        BY <2>1, <2>4 DEF Forks
    <2>2. /\ f \in Forks /\ f.incoming = b.fork.incoming /\ f.start = b.fork.start
          /\ f.branches = b.fork.branches + 1
        BY <2>0, <2>5, <2>6
    <2>3. c.fork = f
        BY <1>10, <1>11, <2>0, <2>1 DEF Chains
    <2> QED
        BY <1>6, <1>10, <1>11, <2>2, <2>3 DEF Chains
<1>13. LinksOf(c) = LinksOf(b) \cup LinksOf(t) /\ Reached(c) = Reached(t)
    BY <1>5, <1>6, <1>12, LinksJoin
<1>14. c \in Chains
    <2>1. /\ c.queues \in Seq(Queues) /\ c.preds \in Seq(Seq(Steps)) /\ c.frontier \in Seq(Steps)
        BY <1>11, <1>12, ConcatProperties
    <2> QED
        BY <1>11, <1>12, <2>1 DEF Chains
<1>15. IsChain(c)
    <2>1. Len(b.preds) = Len(b.queues) /\ Len(t.preds) = Len(t.queues)
        BY <1>5, <1>6 DEF IsChain
    <2>6. PICK m \in Nat, n \in Nat : IsJoin(b.queues, t.queues, c.queues, m, n)
        BY <1>11, <1>12, JoinOf
    <2>7. PICK T : T = Seq(Steps)
        OBVIOUS
    <2>8. PICK i \in Nat, j \in Nat : IsJoin(b.preds, t.preds, c.preds, i, j)
        BY <1>11, <1>12, <2>7, JoinOf
    <2>2. Len(c.preds) = Len(c.queues)
        BY <2>1, <2>6, <2>8 DEF IsJoin
    <2>3. b.fork.start \in 0 .. Reached(b)
        BY <1>6 DEF IsChain
    <2>4. c.fork.start \in 0 .. Reached(c)
        BY <1>11, <1>12, <1>13, <2>3
    <2>5. c.fork.branches # 0
        BY <1>11, <1>12
    <2> QED
        BY <1>12, <1>14, <2>2, <2>4, <2>5 DEF IsChain

<1>16. NestWell(queues, preds, w)
    <2>1. ASSUME NEW l \in 1 .. K
          PROVE  /\ IsChain(w[l])
                 /\ l > 1 => w[l].dag
                 /\ l < K => w[l].forked /\ w[l + 1].base = Reached(w[l])
        <3>1. l \in 1 .. Len(open) /\ l < Len(open) /\ w[l] = open[l]
            BY <1>2, <1>9
        <3>2. /\ IsChain(open[l]) /\ (l > 1 => open[l].dag)
              /\ open[l].forked /\ open[l + 1].base = Reached(open[l])
            BY <1>1, <3>1 DEF IsNest
        <3>3. l < K => l + 1 \in 1 .. K
            BY <1>2
        <3> QED
            BY <1>9, <3>1, <3>2, <3>3
    <2>2. IsNest(w)
        BY <1>9, <2>1 DEF IsNest
    <2>3. w[1] = open[1]
        BY <1>2, <1>9
    <2> QED
        BY <1>1, <1>7, <2>2, <2>3 DEF NestWell
<1>17. PICK u : u = Append(Front(w), c)
    OBVIOUS
<1>18. /\ NestWell(queues, preds, u) /\ u # <<>> /\ Len(u) = K /\ u[K] = c
       /\ \A l \in 1 .. K - 1 : u[l] = open[l]
    <2>1. c.base = w[Len(w)].base
        BY <1>2, <1>4, <1>9, <1>12
    <2>2. /\ NestWell(queues, preds, u) /\ u # <<>> /\ Len(u) = Len(w) /\ u[Len(w)] = c
          /\ \A l \in 1 .. Len(w) - 1 : u[l] = w[l]
        BY <1>9, <1>12, <1>15, <1>16, <1>17, <2>1, NestOfTop
    <2>3. \A l \in 1 .. K - 1 : u[l] = w[l] /\ w[l] = open[l]
        BY <1>2, <1>9, <2>2
    <2> QED
        BY <1>9, <2>2, <2>3
<1>19. Drawn(queues, preds, u) = Drawn(queues, preds, open)
    <2>1. ASSUME NEW e \in Edges, NEW l \in 1 .. K, e \in LinksOf(u[l])
          PROVE  \E m \in 1 .. K + 1 : e \in LinksOf(open[m])
        <3>1. CASE l = K
            <4>1. e \in LinksOf(open[K]) \/ e \in LinksOf(open[K + 1])
                BY <1>3, <1>4, <1>13, <1>18, <2>1, <3>1
            <4> QED
                BY <1>2, <4>1
        <3>2. CASE l # K
            <4>1. l \in 1 .. K - 1 /\ l \in 1 .. K + 1
                BY <1>2, <3>2
            <4> QED
                BY <1>18, <2>1, <4>1
        <3> QED
            BY <3>1, <3>2
    <2>2. ASSUME NEW e \in Edges, NEW l \in 1 .. K + 1, e \in LinksOf(open[l])
          PROVE  \E m \in 1 .. K : e \in LinksOf(u[m])
        <3>1. CASE l = K \/ l = K + 1
            <4>1. e \in LinksOf(u[K])
                BY <1>3, <1>4, <1>13, <1>18, <2>2, <3>1
            <4> QED
                BY <1>2, <4>1
        <3>2. CASE l # K /\ l # K + 1
            <4>1. l \in 1 .. K - 1 /\ l \in 1 .. K
                BY <1>2, <3>2
            <4> QED
                BY <1>18, <2>2, <4>1
        <3> QED
            BY <3>1, <3>2
    <2>3. SameEdges(open, u)
        BY <1>2, <1>18, <2>1, <2>2 DEF SameEdges
    <2> QED
        BY <2>3, DrawnSame
<1>20. AskedWell(queues, preds, u, asked)
    <2>1. LastStep(queues, open) = Reached(t)
        BY <1>2, <1>3, <1>7 DEF LastStep
    <2>2. LastStep(queues, u) = Reached(t)
        BY <1>13, <1>18 DEF LastStep
    <2> QED
        BY <1>1, <1>19, <2>1, <2>2 DEF AskedWell
<1>21. ASSUME NEW l \in 1 .. K - 1, NEW D
       PROVE  /\ FreeAt(open, l) => FreeAt(u, l)
              /\ CoveredAt(D, open, l) => CoveredAt(D, u, l)
    <2>1. l \in Nat /\ l # 0 /\ \A m \in 1 .. l : open[m] = u[m]
        BY <1>2, <1>18
    <2> QED
        BY <2>1, LowerStays
<1>22. PICK x \in Nat, y \in Nat, s \in Nat :
        x = Reached(b) /\ y = Reached(t) /\ s = b.fork.start /\ x <= y /\ s <= x
    <2>1. b.fork.start \in 0 .. Reached(b)
        BY <1>6 DEF IsChain
    <2> QED
        BY <1>11, <2>1
<1>23. Beside(u, K) = Beside(open, K)
    <2>1. open[K].base = u[K].base /\ \A m \in 1 .. K - 1 : open[m] = u[m]
        BY <1>4, <1>12, <1>18
    <2> QED
        BY <1>2, <2>1, BesideStays
<1>24. \A i \in Beside(open, K) : i \in Beside(open, K + 1)
    <2> SUFFICES ASSUME NEW i \in Beside(open, K)
                 PROVE  i \in Beside(open, K + 1)
        OBVIOUS
    <2>1. PICK m \in 1 .. K - 1 : i \in open[m].fork.start + 1 .. open[m + 1].base
        BY DEF Beside
    <2>2. m \in 1 .. K + 1 - 1 /\ i \in Nat
        BY <1>2 DEF Beside
    <2> QED
        BY <2>1, <2>2 DEF Beside
<1>25. \A i \in Beside(open, K + 1) : i \in Beside(open, K) \/ i \in s + 1 .. x
    <2> SUFFICES ASSUME NEW i \in Beside(open, K + 1), i \notin Beside(open, K)
                 PROVE  i \in s + 1 .. x
        OBVIOUS
    <2>1. PICK m \in 1 .. K : i \in open[m].fork.start + 1 .. open[m + 1].base
        BY <1>2 DEF Beside
    <2>2. CASE m = K
        BY <1>3, <1>4, <1>6, <1>22, <2>1, <2>2
    <2>3. CASE m # K
        <3>1. m \in 1 .. K - 1 /\ i \in Nat
            BY <1>2, <2>3 DEF Beside
        <3> QED
            BY <2>1, <3>1 DEF Beside
    <2> QED
        BY <2>2, <2>3
<1>26. FreeWell(u)
    <2> SUFFICES ASSUME NEW l \in 1 .. K
                 PROVE  FreeAt(u, l)
        BY <1>18 DEF FreeWell
    <2>1. CASE l # K
        <3>1. l \in 1 .. K - 1 /\ FreeAt(open, l)
            BY <1>1, <1>2, <2>1 DEF FreeWell
        <3> QED
            BY <1>21, <3>1
    <2>2. CASE l = K
        <3>1. FreeAt(open, K) /\ FreeAt(open, K + 1)
            BY <1>1, <1>2 DEF FreeWell
        <3>2. \A k \in 1 .. Len(b.frontier) : b.frontier[k] \in Before(u, K, y)
            <4>1. \A k \in 1 .. Len(b.frontier) : b.frontier[k] \in Before(open, K, x)
                BY <1>4, <1>22, <3>1 DEF FreeAt
            <4> QED
                BY <1>22, <1>23, <4>1 DEF Before
        <3>3. \A k \in 1 .. Len(t.frontier) : t.frontier[k] \in Before(u, K, y)
            <4>1. \A k \in 1 .. Len(t.frontier) : t.frontier[k] \in Before(open, K + 1, y)
                BY <1>3, <1>22, <3>1 DEF FreeAt
            <4> QED
                BY <1>23, <1>24, <4>1 DEF Before
        <3>4. \A k \in 1 .. Len(c.frontier) : c.frontier[k] \in Before(u, K, y)
            <4> SUFFICES ASSUME NEW k \in 1 .. Len(c.frontier)
                         PROVE  c.frontier[k] \in Before(u, K, y)
                OBVIOUS
            <4>1. PICK m \in Nat, n \in Nat :
                    /\ m = Len(b.frontier) /\ n = Len(t.frontier) /\ Len(c.frontier) = m + n
                    /\ \A j \in 1 .. m + n :
                        \/ j \in 1 .. m /\ c.frontier[j] = b.frontier[j]
                        \/ j - m \in 1 .. n /\ c.frontier[j] = t.frontier[j - m]
                <5>1. PICK m \in Nat, n \in Nat : IsJoin(b.frontier, t.frontier, c.frontier, m, n)
                    BY <1>11, <1>12, JoinOf
                <5> QED
                    BY <5>1 DEF IsJoin
            <4>2. \/ k \in 1 .. m /\ c.frontier[k] = b.frontier[k]
                  \/ k - m \in 1 .. n /\ c.frontier[k] = t.frontier[k - m]
                BY <4>1
            <4> QED
                BY <3>2, <3>3, <4>1, <4>2
        <3>5. \A k \in 1 .. Len(c.fork.incoming) : c.fork.incoming[k] \in Before(u, K, s)
            <4>1. \A k \in 1 .. Len(b.fork.incoming) : b.fork.incoming[k] \in Before(open, K, s)
                BY <1>4, <1>6, <1>22, <3>1 DEF FreeAt
            <4> QED
                BY <1>12, <1>23, <4>1 DEF Before
        <3> QED
            BY <1>12, <1>13, <1>18, <1>22, <2>2, <3>4, <3>5 DEF FreeAt
    <2> QED
        BY <2>1, <2>2
<1>27. CoverWell(queues, preds, u, asked)
    <2> SUFFICES ASSUME Forward(GivenBy(queues, preds)), NEW l \in 1 .. K
                 PROVE  CoveredAt(Drawn(queues, preds, open), u, l)
        BY <1>1, <1>18, <1>19 DEF CoverWell
    <2>1. PICK D : D = Drawn(queues, preds, open)
        OBVIOUS
    <2>2. \A m \in 1 .. K + 1 : CoveredAt(D, open, m)
        BY <1>1, <1>2, <2>1 DEF CoverWell
    <2>3. CASE l # K
        <3>1. l \in 1 .. K - 1 /\ CoveredAt(D, open, l)
            BY <1>2, <2>2, <2>3
        <3> QED
            BY <1>21, <2>1, <3>1
    <2>4. CASE l = K
        <3>1. CoveredAt(D, open, K) /\ CoveredAt(D, open, K + 1)
            BY <1>2, <2>2
        <3>2. Covers(D, c.fork.incoming, Before(u, K, s))
            <4>1. Covers(D, b.fork.incoming, Before(open, K, s))
                BY <1>4, <1>6, <1>22, <3>1 DEF CoveredAt
            <4> QED
                BY <1>12, <1>23, <4>1 DEF Before
        <3>3. Covers(D, t.frontier, Before(open, K + 1, y))
            BY <1>3, <1>5, <1>22, <3>1 DEF CoveredAt
        <3>4. b.fork.branches # 0 => Covers(D, b.frontier, Before(open, K, x))
            BY <1>4, <1>6, <1>22, <3>1 DEF CoveredAt
        <3>5. b.fork.branches = 0 => s = x
            BY <1>6, <1>22 DEF IsChain
        <3>6. Covers(D, c.frontier, Before(u, K, y))
            <4> SUFFICES ASSUME NEW S \in SUBSET Nat, Closed(D, S),
                                \A k \in 1 .. Len(c.frontier) : c.frontier[k] \in S,
                                NEW i \in Before(u, K, y)
                         PROVE  i \in S
                BY DEF Covers
            <4>1. PICK m \in Nat, n \in Nat :
                    /\ m = Len(b.frontier) /\ n = Len(t.frontier) /\ Len(c.frontier) = m + n
                    /\ \A k \in 1 .. m : c.frontier[k] = b.frontier[k]
                    /\ \A k \in 1 .. n : c.frontier[m + k] = t.frontier[k]
                <5>1. PICK m \in Nat, n \in Nat : IsJoin(b.frontier, t.frontier, c.frontier, m, n)
                    BY <1>11, <1>12, JoinOf
                <5> QED
                    BY <5>1 DEF IsJoin
            <4>2. m \in Nat /\ n \in Nat
                OBVIOUS
            <4>3. \A k \in 1 .. Len(b.frontier) : b.frontier[k] \in S
                <5>1. \A k \in 1 .. m : k \in 1 .. m + n
                    BY <4>2
                <5> QED
                    BY <4>1, <5>1
            <4>4. \A k \in 1 .. Len(t.frontier) : t.frontier[k] \in S
                <5>1. \A k \in 1 .. n : m + k \in 1 .. m + n
                    BY <4>2
                <5> QED
                    BY <4>1, <5>1
            <4>5. CASE i \in Beside(open, K + 1)
                <5>1. i \in s + 1 .. x /\ i \notin Beside(open, K) /\ i \in 1 .. y
                    BY <1>23, <1>25, <4>5 DEF Before
                <5>2. b.fork.branches # 0 /\ i \in 1 .. x
                    BY <1>22, <3>5, <5>1
                <5>3. i \in Before(open, K, x) /\ Covers(D, b.frontier, Before(open, K, x))
                    BY <3>4, <5>1, <5>2 DEF Before
                <5> QED
                    BY <4>3, <5>3 DEF Covers
            <4>6. CASE i \notin Beside(open, K + 1)
                <5>1. i \in Before(open, K + 1, y)
                    BY <4>6 DEF Before
                <5> QED
                    BY <3>3, <4>4, <5>1 DEF Covers
            <4> QED
                BY <4>5, <4>6
        <3> QED
            BY <1>12, <1>13, <1>18, <1>22, <2>1, <2>4, <3>2, <3>6 DEF CoveredAt
    <2> QED
        BY <2>3, <2>4
<1>28. Written(queues, preds, u, asked)
    BY <1>1, <1>18, <1>20, <1>26, <1>27 DEF Written
<1>29. open' = u /\ queues' = queues /\ preds' = preds /\ asked' = asked
    BY <1>5, <1>8, <1>9, <1>10, <1>17 DEF CloseBranch, Below, vars, options
<1> QED
    BY <1>28, <1>29

-----------------------------------------------------------------------------
(* Steps are given *)

\* Chain t is added to queues q and predecessors p, which become r and s.
Adds(q, p, t, r, s) ==
    /\ GivenWell(q, p) /\ IsChain(t)
    /\ t.base = Len(q) /\ t.queues # <<>> /\ (~ t.dag => p = <<>>)
    /\ r = q \o t.queues
    /\ s = IF t.dag THEN (IF p = <<>> THEN ChainPreds(Len(q)) ELSE p) \o t.preds ELSE p

LEMMA GivenMore ==
    ASSUME NEW q, NEW p, NEW t, NEW r, NEW s, Adds(q, p, t, r, s)
    PROVE  /\ GivenWell(r, s) /\ Len(r) = Reached(t)
           /\ GivenBy(r, s) = GivenBy(q, p) \cup LinksOf(t)
<1>1. /\ q \in Seq(Queues) /\ p \in Seq(Seq(Steps)) /\ (p # <<>> => Len(p) = Len(q))
      /\ IsChain(t) /\ t.base = Len(q) /\ t.queues # <<>> /\ (~ t.dag => p = <<>>)
      /\ r = q \o t.queues
      /\ s = IF t.dag THEN (IF p = <<>> THEN ChainPreds(Len(q)) ELSE p) \o t.preds ELSE p
    BY DEF Adds, GivenWell
<1>2. t.queues \in Seq(Queues) /\ t.preds \in Seq(Seq(Steps)) /\ t.dag \in BOOLEAN
      /\ Reached(t) = t.base + Len(t.queues)
    BY <1>1, ChainTypes
<1>3. PICK n \in Nat, m \in Nat : IsJoin(q, t.queues, r, n, m)
    BY <1>1, <1>2, JoinOf
<1>4. n = Len(q) /\ m = Len(t.queues) /\ Len(r) = n + m /\ r \in Seq(Queues)
      /\ n \in Nat /\ m \in Nat /\ t.base = n /\ Reached(t) = n + m
    BY <1>1, <1>2, <1>3, ConcatProperties DEF IsJoin
<1>5. m # 0
    BY <1>1, <1>2, <1>4, EmptySeq
<1>6. \A i \in Nat : i \in 1 .. n + m <=> i \in 1 .. n \/ i \in n + 1 .. n + m
    BY <1>4
<1>7. CASE ~ t.dag
    <2>1. p = <<>> /\ s = <<>>
        BY <1>1, <1>7
    <2>2. ASSUME NEW e \in Edges
          PROVE  e \in GivenBy(r, s) <=> e \in GivenBy(q, p) \/ e \in LinksOf(t)
        <3>1. e[2] \in Nat
            BY DEF Edges
        <3>2. e \in GivenBy(r, s) <=> e[2] \in 1 .. n + m /\ e[1] = e[2] - 1 /\ e[1] # 0
            BY <1>4, <2>1 DEF GivenBy
        <3>3. e \in GivenBy(q, p) <=> e[2] \in 1 .. n /\ e[1] = e[2] - 1 /\ e[1] # 0
            BY <1>4, <2>1 DEF GivenBy
        <3>4. e \in LinksOf(t) <=> e[2] \in n + 1 .. n + m /\ e[1] = e[2] - 1 /\ e[1] # 0
            BY <1>4, <1>7 DEF LinksOf
        <3> QED
            BY <1>6, <3>1, <3>2, <3>3, <3>4
    <2>3. GivenWell(r, s)
        BY <1>1, <1>4, <2>1 DEF GivenWell
    <2> QED
        BY <1>4, <2>2, <2>3 DEF GivenBy, LinksOf
<1>8. CASE t.dag
    <2>1. PICK w : w = IF p = <<>> THEN ChainPreds(n) ELSE p
        OBVIOUS
    <2>2. w \in Seq(Seq(Steps)) /\ Len(w) = n
        <3>1. CASE p = <<>>
            <4>1. \A i \in 1 .. n : (IF i = 1 THEN <<>> ELSE <<i - 1>>) \in Seq(Steps)
                <5> SUFFICES ASSUME NEW i \in 1 .. n
                             PROVE  (IF i = 1 THEN <<>> ELSE <<i - 1>>) \in Seq(Steps)
                    OBVIOUS
                <5>1. CASE i = 1
                    BY <5>1
                <5>2. CASE i # 1
                    <6>1. i - 1 \in Steps
                        BY <1>4, <5>2 DEF Steps
                    <6> QED
                        BY <5>2, <6>1
                <5> QED
                    BY <5>1, <5>2
            <4>2. w \in [1 .. n -> Seq(Steps)]
                BY <2>1, <3>1, <4>1 DEF ChainPreds
            <4> QED
                BY <4>2
        <3>2. CASE p # <<>>
            BY <1>1, <1>4, <2>1, <3>2
        <3> QED
            BY <3>1, <3>2
    <2>3. PICK T : T = Seq(Steps)
        OBVIOUS
    <2>4. PICK v : v = t.preds
        OBVIOUS
    <2>5. w \in Seq(T) /\ v \in Seq(T) /\ s = w \o v /\ Len(v) = m
        BY <1>1, <1>2, <1>4, <1>8, <2>1, <2>2, <2>3, <2>4 DEF IsChain
    <2>6. s \in Seq(T) /\ \E i \in Nat, j \in Nat : IsJoin(w, v, s, i, j)
        BY <2>5, JoinOf
    <2>7. IsJoin(w, v, s, n, m)
        <3>1. PICK i \in Nat, j \in Nat : IsJoin(w, v, s, i, j)
            BY <2>6
        <3>2. i = n /\ j = m
            BY <2>2, <2>5, <3>1 DEF IsJoin
        <3> QED
            BY <3>1, <3>2
    <2>8. /\ Len(s) = n + m
          /\ \A k \in 1 .. n : s[k] = w[k]
          /\ \A k \in 1 .. m : s[n + k] = v[k]
        BY <2>7 DEF IsJoin
    <2>9. s # <<>> /\ GivenWell(r, s)
        <3>1. Len(s) # 0
            BY <1>4, <1>5, <2>8
        <3> QED
            BY <1>4, <2>3, <2>6, <2>8, <3>1 DEF GivenWell
    <2>10. \A k \in n + 1 .. n + m : s[k] = v[k - n]
        <3> SUFFICES ASSUME NEW k \in n + 1 .. n + m
                     PROVE  s[k] = v[k - n]
            OBVIOUS
        <3>1. PICK j : j = k - n
            OBVIOUS
        <3>2. j \in 1 .. m /\ n + j = k
            BY <1>4, <3>1
        <3> QED
            BY <2>8, <3>1, <3>2
    <2>11. ASSUME NEW e \in Edges, e[2] \in 1 .. n
           PROVE  e \in GivenBy(q, p) <=> \E k \in 1 .. Len(w[e[2]]) : w[e[2]][k] = e[1]
        <3>1. e[1] \in Nat /\ e[2] \in Nat
            BY DEF Edges
        <3>2. CASE p # <<>>
            BY <1>4, <2>1, <2>11, <3>2 DEF GivenBy
        <3>3. CASE p = <<>>
            <4>1. e \in GivenBy(q, p) <=> e[1] = e[2] - 1 /\ e[1] # 0
                BY <1>4, <2>11, <3>3 DEF GivenBy
            <4>2. w[e[2]] = IF e[2] = 1 THEN <<>> ELSE <<e[2] - 1>>
                BY <2>1, <2>11, <3>3 DEF ChainPreds
            <4>3. PICK x : x = w[e[2]]
                OBVIOUS
            <4>4. CASE e[2] = 1
                <5>1. x = <<>>
                    BY <4>2, <4>3, <4>4
                <5> QED
                    BY <3>1, <4>1, <4>3, <4>4, <5>1
            <4>5. CASE e[2] # 1
                <5>1. x = <<e[2] - 1>> /\ Len(x) = 1 /\ x[1] = e[2] - 1 /\ e[2] - 1 # 0
                    BY <3>1, <4>2, <4>3, <4>5
                <5>2. (\E k \in 1 .. Len(x) : x[k] = e[1]) <=> e[1] = e[2] - 1
                    BY <5>1
                <5> QED
                    BY <4>1, <4>3, <5>1, <5>2
            <4> QED
                BY <4>4, <4>5
        <3> QED
            BY <3>2, <3>3
    <2>12. ASSUME NEW e \in Edges
           PROVE  e \in GivenBy(r, s) <=> e \in GivenBy(q, p) \/ e \in LinksOf(t)
        <3>1. e[2] \in Nat
            BY DEF Edges
        <3>2. CASE e[2] \in 1 .. n
            <4>1. e \in GivenBy(r, s) <=> \E k \in 1 .. Len(s[e[2]]) : s[e[2]][k] = e[1]
                BY <1>4, <1>6, <2>9, <3>1, <3>2 DEF GivenBy
            <4>2. s[e[2]] = w[e[2]]
                BY <2>8, <3>2
            <4>3. e \notin LinksOf(t)
                BY <1>4, <3>1, <3>2 DEF LinksOf
            <4> QED
                BY <2>11, <3>2, <4>1, <4>2, <4>3
        <3>3. CASE e[2] \in n + 1 .. n + m
            <4>1. e \in GivenBy(r, s) <=> \E k \in 1 .. Len(s[e[2]]) : s[e[2]][k] = e[1]
                BY <1>4, <1>6, <2>9, <3>1, <3>3 DEF GivenBy
            <4>2. s[e[2]] = v[e[2] - n]
                BY <2>10, <3>3
            <4>3. e \in LinksOf(t) <=> \E k \in 1 .. Len(v[e[2] - n]) : v[e[2] - n][k] = e[1]
                BY <1>4, <1>8, <2>4, <3>3 DEF LinksOf
            <4>4. e \notin GivenBy(q, p)
                BY <1>4, <3>1, <3>3 DEF GivenBy
            <4> QED
                BY <4>1, <4>2, <4>3, <4>4
        <3>4. CASE e[2] \notin 1 .. n /\ e[2] \notin n + 1 .. n + m
            BY <1>4, <1>6, <3>1, <3>4 DEF GivenBy, LinksOf
        <3> QED
            BY <3>2, <3>3, <3>4
    <2> QED
        BY <1>4, <2>9, <2>12 DEF GivenBy, LinksOf
<1> QED
    BY <1>2, <1>7, <1>8

\* Chain t was collected in nest o, or is added to the graph at once; edges X
\* were asked for with it.
Completes(o, t, A, X) ==
    /\ o = <<>> \/ o = <<t>>
    /\ X \subseteq LinksOf(t) /\ X \subseteq Steps \X (1 .. Reached(t))
    /\ LinksOf(t) \subseteq A \cup X

LEMMA GivenAdded ==
    ASSUME NEW q, NEW p, NEW o, NEW A, NEW t, NEW r, NEW s, NEW X,
           Written(q, p, o, A), Adds(q, p, t, r, s), Completes(o, t, A, X)
    PROVE  Written(r, s, <<>>, A \cup X)
<1>1. /\ GivenWell(q, p) /\ AskedWell(q, p, o, A) /\ CoverWell(q, p, o, A)
    BY DEF Written
<1>2. /\ GivenWell(r, s) /\ Len(r) = Reached(t)
      /\ GivenBy(r, s) = GivenBy(q, p) \cup LinksOf(t)
    BY GivenMore
<1>3. /\ o = <<>> \/ o = <<t>>
      /\ X \subseteq LinksOf(t) /\ X \subseteq Steps \X (1 .. Reached(t))
      /\ LinksOf(t) \subseteq A \cup X
    BY DEF Completes
<1>4. t.base = Len(q) /\ t.base \in Nat /\ Reached(t) \in Nat /\ t.base <= Reached(t)
    BY ChainTypes DEF Adds
<1>5. PICK E : E = Drawn(r, s, <<>>)
    OBVIOUS
<1>6. E = GivenBy(q, p) \cup LinksOf(t)
    <2>1. E = GivenBy(r, s)
        BY <1>5 DEF Drawn, GivenBy
    <2> QED
        BY <1>2, <2>1
<1>7. PICK D : D = Drawn(q, p, o)
    OBVIOUS
<1>8. D \subseteq E
    <2> SUFFICES ASSUME NEW e \in D
                 PROVE  e \in GivenBy(q, p) \cup LinksOf(t)
        BY <1>6
    <2>1. e \in GivenBy(q, p) \/ \E l \in 1 .. Len(o) : e \in LinksOf(o[l])
        BY <1>7 DEF Drawn
    <2>2. CASE o = <<>>
        BY <2>1, <2>2
    <2>3. CASE o = <<t>>
        <3>1. Len(o) = 1 /\ o[1] = t
            BY <2>3
        <3> QED
            BY <2>1, <3>1
    <2> QED
        BY <1>3, <2>2, <2>3
<1>9. NestWell(r, s, <<>>)
    BY DEF NestWell, IsNest
<1>10. AskedWell(r, s, <<>>, A \cup X)
    <2>1. A \in SUBSET (Steps \X (1 .. LastStep(q, o))) /\ D \subseteq A
        BY <1>1, <1>7 DEF AskedWell
    <2>2. LastStep(q, o) \in Nat /\ LastStep(q, o) <= Reached(t)
        <3>1. CASE o = <<>>
            BY <1>4, <3>1 DEF LastStep
        <3>2. CASE o = <<t>>
            <4>1. o # <<>> /\ o[Len(o)] = t
                BY <3>2
            <4> QED
                BY <1>4, <4>1 DEF LastStep
        <3> QED
            BY <1>3, <3>1, <3>2
    <2>3. A \in SUBSET (Steps \X (1 .. Reached(t)))
        BY <1>4, <2>1, <2>2
    <2>4. LastStep(r, <<>>) = Reached(t)
        BY <1>2 DEF LastStep
    <2>5. E \subseteq A \cup X
        <3>1. GivenBy(q, p) \subseteq D
            BY <1>7 DEF Drawn, GivenBy
        <3> QED
            BY <1>3, <1>6, <2>1, <3>1
    <2> QED
        BY <1>3, <1>5, <2>3, <2>4, <2>5 DEF AskedWell
<1>11. FreeWell(<<>>)
    BY DEF FreeWell
<1>12. CoverWell(r, s, <<>>, A \cup X)
    <2> SUFFICES ASSUME Forward(GivenBy(r, s)), NEW e \in A \cup X
                 PROVE  Covers(E, <<e[2]>>, {e[1]})
        BY <1>5 DEF CoverWell
    <2>1. CASE e \in A
        <3>1. Forward(GivenBy(q, p))
            BY <1>2 DEF Forward
        <3>2. Covers(D, <<e[2]>>, {e[1]})
            BY <1>1, <1>7, <2>1, <3>1 DEF CoverWell
        <3> QED
            BY <1>8, <3>2, CoversMore
    <2>2. CASE e \in X
        <3>1. e \in E
            BY <1>3, <1>6, <2>2
        <3> QED
            BY <3>1 DEF Covers, Closed
    <2> QED
        BY <2>1, <2>2
<1> QED
    BY <1>2, <1>9, <1>10, <1>11, <1>12 DEF Written

LEMMA MaterializeStays ==
    ASSUME BuildInv, Materialize
    PROVE  Written(queues, preds, open, asked)'
<1>1. /\ Written(queues, preds, open, asked) /\ IsNest(open) /\ open \in Seq(Chains)
      /\ GivenWell(queues, preds) /\ AskedWell(queues, preds, open, asked)
      /\ NestWell(queues, preds, open)
    BY DEF BuildInv, Written, NestWell, IsNest
<1>2. PICK t : t = open[1]
    OBVIOUS
<1>3. open = <<t>> /\ Top = t /\ IsChain(t) /\ t.queues # <<>> /\ open # <<>>
    <2>1. Len(open) = 1 /\ ~ Top.forked /\ Top.queues # <<>>
        BY DEF Materialize
    <2>2. open = <<t>>
        BY <1>1, <1>2, <2>1
    <2>3. Top = t /\ IsChain(t)
        BY <1>1, <1>2, <2>1 DEF IsNest, Top, Last
    <2> QED
        BY <2>1, <2>2, <2>3
<1>4. Adds(queues, preds, t, queues', preds')
    <2>1. t.base = Len(queues) /\ (~ t.dag => preds = <<>>)
        BY <1>1, <1>2, <1>3 DEF NestWell
    <2> QED
        BY <1>1, <1>3, <2>1 DEF Adds, Materialize
<1>5. PICK X : X = {}
    OBVIOUS
<1>6. Completes(open, t, asked, X)
    <2>1. LinksOf(t) \subseteq Drawn(queues, preds, open)
        BY <1>2, <1>3 DEF Drawn, LinksOf
    <2>2. Drawn(queues, preds, open) \subseteq asked
        BY <1>1 DEF AskedWell
    <2> QED
        BY <1>3, <1>5, <2>1, <2>2 DEF Completes
<1>7. PICK B : B = asked \cup X
    OBVIOUS
<1>8. Written(queues', preds', <<>>, B)
    BY <1>1, <1>4, <1>6, <1>7, GivenAdded
<1>9. open' = <<>> /\ asked' = B
    BY <1>5, <1>7 DEF Materialize
<1> QED
    BY <1>8, <1>9

\* append and append_after add a chain of one step.
OneStep(n, x, dag, incoming) ==
    [base |-> n, queues |-> <<x>>, preds |-> IF dag THEN <<incoming>> ELSE <<>>,
     frontier |-> <<n + 1>>, dag |-> dag, forked |-> FALSE, fork |-> NoFork]

LEMMA OneStepIs ==
    ASSUME NEW n \in Nat, NEW x \in Queues, NEW dag \in BOOLEAN, NEW incoming \in Seq(Steps),
           NEW t, t = OneStep(n, x, dag, incoming)
    PROVE  /\ IsChain(t) /\ t.base = n /\ t.queues = <<x>> /\ t.queues # <<>> /\ t.dag = dag
           /\ t.preds = (IF dag THEN <<incoming>> ELSE <<>>) /\ Reached(t) = n + 1
           /\ LinksOf(t) = {e \in Edges : /\ e[2] = n + 1
                                          /\ \/ ~ dag /\ e[1] = n /\ n # 0
                                             \/ dag /\ e[1] \in Range(incoming)}
<1>1. /\ t.base = n /\ t.queues = <<x>> /\ t.preds = (IF dag THEN <<incoming>> ELSE <<>>)
      /\ t.frontier = <<n + 1>> /\ t.dag = dag /\ t.forked = FALSE /\ t.fork = NoFork
    BY DEF OneStep
<1>2. t \in Chains
    <2>1. NoFork \in Forks
        BY DEF NoFork, Forks
    <2>2. <<n + 1>> \in Seq(Steps)
        BY DEF Steps
    <2>3. (IF dag THEN <<incoming>> ELSE <<>>) \in Seq(Seq(Steps))
        <3>1. <<incoming>> \in Seq(Seq(Steps)) /\ <<>> \in Seq(Seq(Steps))
            OBVIOUS
        <3> QED
            BY <3>1
    <2> QED
        BY <2>1, <2>2, <2>3 DEF Chains, OneStep
<1>3. Len(t.queues) = 1 /\ t.queues # <<>>
    BY <1>1
<1>4. Reached(t) = n + 1
    BY <1>1, <1>3 DEF Reached
<1>5. IsChain(t)
    <2>1. t.dag => Len(t.preds) = Len(t.queues)
        BY <1>1
    <2>2. ~ t.dag => t.preds = <<>>
        BY <1>1
    <2>3. t.frontier = IF Reached(t) = 0 THEN <<>> ELSE <<Reached(t)>>
        BY <1>1, <1>4
    <2> QED
        BY <1>1, <1>2, <2>1, <2>2, <2>3 DEF IsChain
<1>6. ASSUME NEW e \in Edges
      PROVE  e \in LinksOf(t) <=> /\ e[2] = n + 1
                                  /\ \/ ~ dag /\ e[1] = n /\ n # 0
                                     \/ dag /\ e[1] \in Range(incoming)
    <2>1. e[1] \in Nat /\ e[2] \in Nat
        BY DEF Edges
    <2>2. e[2] \in n + 1 .. n + 1 <=> e[2] = n + 1
        BY <2>1
    <2>3. CASE ~ dag
        <3>1. e \in LinksOf(t) <=> e[2] = n + 1 /\ e[1] = e[2] - 1 /\ e[1] # 0
            BY <1>1, <1>4, <2>2, <2>3 DEF LinksOf
        <3> QED
            BY <2>1, <2>3, <3>1
    <2>4. CASE dag
        <3>1. CASE e[2] = n + 1
            <4>1. e[2] - n = 1 /\ t.preds = <<incoming>>
                BY <1>1, <2>4, <3>1
            <4>2. t.preds[e[2] - n] = incoming
                BY <4>1
            <4>3. e \in LinksOf(t) <=> \E k \in 1 .. Len(incoming) : incoming[k] = e[1]
                BY <1>1, <1>4, <2>2, <2>4, <3>1, <4>2 DEF LinksOf
            <4>4. DOMAIN incoming = 1 .. Len(incoming)
                OBVIOUS
            <4>5. e[1] \in Range(incoming) <=> \E k \in 1 .. Len(incoming) : incoming[k] = e[1]
                BY <4>4 DEF Range
            <4> QED
                BY <2>4, <3>1, <4>3, <4>5
        <3>2. CASE e[2] # n + 1
            BY <1>1, <1>4, <2>2, <3>2 DEF LinksOf
        <3> QED
            BY <3>1, <3>2
    <2> QED
        BY <2>3, <2>4
<1>7. LinksOf(t) \subseteq Edges
    BY DEF LinksOf
<1> QED
    BY <1>1, <1>3, <1>4, <1>5, <1>6, <1>7

LEMMA AppendStepStays ==
    ASSUME BuildInv, open = <<>>, NEW q \in Queues, AppendStep(q)
    PROVE  Written(queues', preds', <<>>, asked')
<1>1. /\ Written(queues, preds, <<>>, asked) /\ GivenWell(queues, preds)
      /\ queues \in Seq(Queues) /\ preds \in Seq(Seq(Steps))
      /\ (preds # <<>> => Len(preds) = Len(queues))
    BY DEF BuildInv, Written, GivenWell
<1>2. PICK n \in Nat : n = Len(queues)
    BY <1>1, LenProperties
<1>3. PICK dag \in BOOLEAN : dag = (preds # <<>>)
    OBVIOUS
<1>4. dag => n # 0
    <2> SUFFICES ASSUME preds # <<>>
                 PROVE  n # 0
        BY <1>3
    <2> QED
        BY <1>1, <1>2, EmptySeq
<1>5. PICK incoming \in Seq(Steps) : dag => incoming = <<n>>
    <2>1. CASE dag
        <3>1. n \in Steps
            BY <1>4, <2>1 DEF Steps
        <3>2. <<n>> \in Seq(Steps)
            BY <3>1
        <3> QED
            BY <3>2
    <2>2. CASE ~ dag
        <3>1. <<>> \in Seq(Steps)
            OBVIOUS
        <3> QED
            BY <2>2, <3>1
    <2> QED
        BY <2>1, <2>2
<1>6. PICK t : t = OneStep(n, q, dag, incoming)
    OBVIOUS
<1>7. /\ IsChain(t) /\ t.base = n /\ t.queues = <<q>> /\ t.queues # <<>> /\ t.dag = dag
      /\ t.preds = (IF dag THEN <<incoming>> ELSE <<>>) /\ Reached(t) = n + 1
      /\ LinksOf(t) = {e \in Edges : /\ e[2] = n + 1
                                     /\ \/ ~ dag /\ e[1] = n /\ n # 0
                                        \/ dag /\ e[1] \in Range(incoming)}
    BY <1>6, OneStepIs
<1>8. PICK X : X = {<<i, n + 1>> : i \in {n} \ {0}}
    OBVIOUS
<1>9. LinksOf(t) = X
    <2>1. dag => Range(incoming) = {n}
        BY <1>5 DEF Range
    <2>2. \A e \in LinksOf(t) : e \in X
        BY <1>4, <1>7, <1>8, <2>1 DEF Edges
    <2>3. \A e \in X : e \in LinksOf(t)
        BY <1>4, <1>7, <1>8, <2>1 DEF Edges
    <2> QED
        BY <2>2, <2>3
<1>10. X \subseteq Steps \X (1 .. n + 1)
    BY <1>8 DEF Steps
<1>11. Completes(<<>>, t, asked, X)
    BY <1>7, <1>9, <1>10 DEF Completes
<1>12. Adds(queues, preds, t, queues', preds')
    <2>1. queues' = queues \o t.queues
        BY <1>1, <1>7, AppendIsConcat DEF AppendStep
    <2>2. CASE dag
        <3>1. PICK T : T = Seq(Steps)
            OBVIOUS
        <3>2. preds \in Seq(T) /\ incoming \in T
            BY <1>1, <3>1
        <3>3. Append(preds, incoming) = preds \o <<incoming>>
            BY <3>2, AppendIsConcat
        <3>4. preds' = Append(preds, incoming)
            BY <1>2, <1>3, <1>5, <2>2 DEF AppendStep
        <3> QED
            BY <1>1, <1>2, <1>3, <1>7, <2>1, <2>2, <3>3, <3>4 DEF Adds
    <2>3. CASE ~ dag
        <3>1. preds = <<>> /\ preds' = <<>>
            BY <1>3, <2>3 DEF AppendStep
        <3> QED
            BY <1>1, <1>2, <1>7, <2>1, <2>3, <3>1 DEF Adds
    <2> QED
        BY <2>2, <2>3
<1>13. asked' = asked \cup X
    BY <1>2, <1>8 DEF AppendStep
<1>14. Written(queues', preds', <<>>, asked \cup X)
    BY <1>1, <1>11, <1>12, GivenAdded
<1> QED
    BY <1>13, <1>14

LEMMA AppendAfterStays ==
    ASSUME BuildInv, open = <<>>, NEW q \in Queues, NEW incoming \in Seq(Steps),
           AppendAfter(q, incoming)
    PROVE  Written(queues', preds', <<>>, asked')
<1>1. /\ Written(queues, preds, <<>>, asked) /\ GivenWell(queues, preds)
      /\ queues \in Seq(Queues) /\ preds \in Seq(Seq(Steps))
    BY DEF BuildInv, Written, GivenWell
<1>2. PICK n \in Nat : n = Len(queues)
    BY <1>1, LenProperties
<1>3. PICK t : t = OneStep(n, q, TRUE, incoming)
    OBVIOUS
<1>4. /\ IsChain(t) /\ t.base = n /\ t.queues = <<q>> /\ t.queues # <<>> /\ t.dag
      /\ t.preds = <<incoming>> /\ Reached(t) = n + 1
      /\ LinksOf(t) = {e \in Edges : e[2] = n + 1 /\ e[1] \in Range(incoming)}
    <2>1. PICK dag \in BOOLEAN : dag = TRUE
        OBVIOUS
    <2>2. t = OneStep(n, q, dag, incoming)
        BY <1>3, <2>1
    <2>3. /\ IsChain(t) /\ t.base = n /\ t.queues = <<q>> /\ t.queues # <<>> /\ t.dag = dag
          /\ t.preds = (IF dag THEN <<incoming>> ELSE <<>>) /\ Reached(t) = n + 1
          /\ LinksOf(t) = {e \in Edges : /\ e[2] = n + 1
                                       /\ \/ ~ dag /\ e[1] = n /\ n # 0
                                          \/ dag /\ e[1] \in Range(incoming)}
        BY <2>2, OneStepIs
    <2> QED
        BY <2>1, <2>3
<1>5. PICK X : X = {<<p, n + 1>> : p \in Range(incoming)}
    OBVIOUS
<1>6. Range(incoming) \subseteq Steps
    BY DEF Range
<1>7. LinksOf(t) = X
    <2>1. \A e \in LinksOf(t) : e \in X
        BY <1>4, <1>5 DEF Edges
    <2>2. \A e \in X : e \in LinksOf(t)
        BY <1>4, <1>5, <1>6 DEF Edges, Steps
    <2> QED
        BY <2>1, <2>2
<1>8. X \subseteq Steps \X (1 .. n + 1)
    BY <1>5, <1>6
<1>9. Completes(<<>>, t, asked, X)
    BY <1>4, <1>7, <1>8 DEF Completes
<1>10. Adds(queues, preds, t, queues', preds')
    <2>1. queues' = queues \o t.queues
        BY <1>1, <1>4, AppendIsConcat DEF AppendAfter
    <2>2. PICK w : w = IF preds = <<>> THEN ChainPreds(Len(queues)) ELSE preds
        OBVIOUS
    <2>3. w \in Seq(Seq(Steps))
        <3>1. CASE preds = <<>>
            <4>1. ASSUME NEW i \in 1 .. n
                  PROVE  (IF i = 1 THEN <<>> ELSE <<i - 1>>) \in Seq(Steps)
                <5>1. CASE i = 1
                    BY <5>1
                <5>2. CASE i # 1
                    <6>1. i - 1 \in Steps
                        BY <5>2 DEF Steps
                    <6> QED
                        BY <5>2, <6>1
                <5> QED
                    BY <5>1, <5>2
            <4>2. w \in [1 .. n -> Seq(Steps)]
                BY <1>2, <2>2, <3>1, <4>1 DEF ChainPreds
            <4> QED
                BY <4>2
        <3>2. CASE preds # <<>>
            BY <1>1, <2>2, <3>2
        <3> QED
            BY <3>1, <3>2
    <2>4. PICK T : T = Seq(Steps)
        OBVIOUS
    <2>5. Append(w, incoming) = w \o <<incoming>>
        BY <2>3, <2>4, AppendIsConcat
    <2>6. preds' = w \o t.preds
        BY <1>4, <2>2, <2>5 DEF AppendAfter
    <2> QED
        BY <1>1, <1>2, <1>4, <2>1, <2>2, <2>6 DEF Adds
<1>11. asked' = asked \cup X
    BY <1>2, <1>5 DEF AppendAfter
<1>12. Written(queues', preds', <<>>, asked \cup X)
    BY <1>1, <1>9, <1>10, GivenAdded
<1> QED
    BY <1>11, <1>12

LEMMA LargestNumber ==
    ASSUME NEW n \in Nat, NEW S, NEW x \in 1 .. n, x \notin S
    PROVE  \E i \in Nat : i \in 1 .. n /\ i \notin S /\ \A j \in 1 .. n : j \notin S => j <= i
<1> DEFINE M == {m \in Nat : n - m \in 1 .. n /\ n - m \notin S}
<1>1. \A j \in 1 .. n : j \notin S => n - j \in M
    <2> SUFFICES ASSUME NEW j \in 1 .. n, j \notin S
                 PROVE  n - j \in M
        OBVIOUS
    <2>1. n - j \in Nat /\ n - (n - j) = j
        OBVIOUS
    <2> QED
        BY <2>1
<1>2. PICK m \in M : \A j \in M : m <= j
    <2>1. M \in SUBSET Nat /\ M # {}
        BY <1>1
    <2> HIDE DEF M
    <2> QED
        BY <2>1, FirstNumber
<1>3. n - m \in 1 .. n /\ n - m \notin S /\ m \in Nat
    BY <1>2
<1>4. ASSUME NEW j \in 1 .. n, j \notin S
      PROVE  j <= n - m
    <2>1. m <= n - j
        BY <1>1, <1>2, <1>4
    <2> QED
        BY <1>3, <2>1
<1> QED
    BY <1>3, <1>4

\* What is piped onto a graph comes after all of its steps: the steps that
\* nobody comes after come after all others.
LEMMA FrontierCovers ==
    ASSUME NEW n \in Nat, n = Len(queues), GivenWell(queues, preds),
           Forward(GivenBy(queues, preds))
    PROVE  Covers(GivenBy(queues, preds), GraphFrontier, 1 .. n)
<1> SUFFICES ASSUME NEW S \in SUBSET Nat, Closed(GivenBy(queues, preds), S),
                    \A k \in 1 .. Len(GraphFrontier) : GraphFrontier[k] \in S,
                    NEW x \in 1 .. n, x \notin S
             PROVE  FALSE
    BY DEF Covers
<1>1. PICK F : F = GraphFrontier
    OBVIOUS
<1>2. \A k \in 1 .. Len(F) : F[k] \in S
    BY <1>1
<1>3. PICK i \in Nat : i \in 1 .. n /\ i \notin S /\ \A j \in 1 .. n : j \notin S => j <= i
    BY LargestNumber
<1>4. n # 0 /\ queues # <<>>
    BY <1>3
<1>5. CASE preds = <<>>
    <2>1. F = <<n>>
        BY <1>1, <1>4, <1>5 DEF GraphFrontier
    <2>2. n \in S
        BY <1>2, <2>1
    <2>3. i + 1 \in 1 .. n /\ i + 1 \in S
        BY <1>3, <2>2
    <2>4. <<i, i + 1>> \in GivenBy(queues, preds)
        BY <1>3, <1>5, <2>3 DEF GivenBy, Edges
    <2> QED
        BY <1>3, <2>3, <2>4 DEF Closed
<1>6. CASE preds # <<>>
    <2>1. preds \in Seq(Seq(Steps)) /\ Len(preds) = n
        BY <1>6 DEF GivenWell
    <2>2. DOMAIN preds = 1 .. n /\ DOMAIN queues = 1 .. n
        BY <2>1 DEF GivenWell
    <2>3. PICK H : H = (DOMAIN queues) \ UNION {Range(preds[j]) : j \in DOMAIN preds}
        OBVIOUS
    <2>4. F = InOrder(H) /\ H \in SUBSET (1 .. n)
        BY <1>1, <1>4, <1>6, <2>2, <2>3 DEF GraphFrontier
    <2>5. \A y \in H : \E k \in 1 .. Len(F) : F[k] = y
        BY <2>4, InOrderFacts
    <2>6. i \notin H
        BY <1>2, <1>3, <2>5
    <2>7. PICK j \in 1 .. n : i \in Range(preds[j])
        BY <1>3, <2>2, <2>3, <2>6
    <2>8. PICK k \in 1 .. Len(preds[j]) : preds[j][k] = i
        <3>1. preds[j] \in Seq(Steps)
            BY <2>1, <2>2
        <3>2. DOMAIN preds[j] = 1 .. Len(preds[j])
            BY <3>1
        <3> QED
            BY <2>7, <3>2 DEF Range
    <2>9. <<i, j>> \in GivenBy(queues, preds)
        BY <1>3, <1>6, <2>7, <2>8 DEF GivenBy, Edges
    <2>10. i < j
        BY <2>9 DEF Forward
    <2>11. j \in S
        BY <1>3, <2>7, <2>10
    <2> QED
        BY <1>3, <2>9, <2>11 DEF Closed
<1> QED
    BY <1>5, <1>6

LEMMA CollectStays ==
    ASSUME BuildInv, Collect
    PROVE  Written(queues', preds', open', asked')
<1>1. /\ Written(queues, preds, open, asked) /\ GivenWell(queues, preds) /\ open = <<>>
      /\ queues \in Seq(Queues) /\ preds \in Seq(Seq(Steps))
      /\ (preds # <<>> => Len(preds) = Len(queues))
      /\ AskedWell(queues, preds, <<>>, asked) /\ CoverWell(queues, preds, <<>>, asked)
    BY DEF BuildInv, Written, GivenWell, Collect
<1>2. queues' = queues /\ preds' = preds /\ asked' = asked
    BY DEF Collect
<1>3. CASE open' = open
    BY <1>1, <1>2, <1>3
<1>4. CASE open' = <<Chain(Len(queues), GraphFrontier, preds # <<>>)>>
    <2>1. PICK n \in Nat : n = Len(queues)
        BY <1>1, LenProperties
    <2>2. PICK dag \in BOOLEAN : dag = (preds # <<>>)
        OBVIOUS
    <2>3. PICK F : F = GraphFrontier
        OBVIOUS
    <2>4. PICK c : c = [base |-> n, queues |-> <<>>, preds |-> <<>>, frontier |-> F,
                        dag |-> dag, forked |-> FALSE, fork |-> NoFork]
        OBVIOUS
    <2>5. open' = <<c>>
        BY <1>4, <2>1, <2>2, <2>3, <2>4 DEF Chain
    <2>6. DOMAIN queues = 1 .. n
        BY <1>1, <2>1
    <2>7. F \in Seq(1 .. n)
        <3>1. CASE queues = <<>>
            BY <2>3, <3>1 DEF GraphFrontier
        <3>2. CASE queues # <<>> /\ preds = <<>>
            <4>1. n # 0
                BY <1>1, <2>1, <3>2, EmptySeq
            <4>2. F = <<n>>
                BY <2>1, <2>3, <3>2 DEF GraphFrontier
            <4> QED
                BY <4>1, <4>2
        <3>3. CASE queues # <<>> /\ preds # <<>>
            <4>1. PICK H \in SUBSET (1 .. n) : F = InOrder(H)
                BY <2>3, <2>6, <3>3 DEF GraphFrontier
            <4>2. F \in Seq(H)
                BY <4>1, InOrderFacts
            <4>3. Len(F) \in Nat /\ F \in [1 .. Len(F) -> H]
                BY <4>2
            <4>4. F \in [1 .. Len(F) -> 1 .. n]
                BY <4>3
            <4> QED
                BY <4>3, <4>4
        <3> QED
            BY <3>1, <3>2, <3>3
    <2>8. F \in Seq(Steps) /\ \A k \in 1 .. Len(F) : F[k] \in 1 .. n
        <3>1. 1 .. n \subseteq Steps
            BY DEF Steps
        <3> QED
            BY <2>7, <3>1, ElementOfSeq
    <2>9. /\ c.base = n /\ c.queues = <<>> /\ c.preds = <<>> /\ c.frontier = F /\ c.dag = dag
          /\ ~ c.forked /\ c \in Chains
        <3>1. NoFork \in Forks
            BY DEF NoFork, Forks
        <3> QED
            BY <2>4, <2>8, <3>1 DEF Chains
    <2>10. Reached(c) = n
        BY <2>9 DEF Reached
    <2>11. IsChain(c)
        <3>1. ~ dag => F = IF n = 0 THEN <<>> ELSE <<n>>
            <4> SUFFICES ASSUME preds = <<>>
                         PROVE  F = IF n = 0 THEN <<>> ELSE <<n>>
                BY <2>2
            <4>1. n = 0 <=> queues = <<>>
                BY <1>1, <2>1, EmptySeq
            <4> QED
                BY <2>1, <2>3, <4>1 DEF GraphFrontier
        <3> QED
            BY <2>9, <2>10, <3>1 DEF IsChain
    <2>12. PICK o : o = <<c>>
        OBVIOUS
    <2>13. /\ o \in Seq(Chains) /\ Len(o) = 1 /\ o[1] = c /\ o # <<>>
        BY <2>9, <2>12
    <2>14. NestWell(queues, preds, o)
        <3>1. IsNest(o)
            BY <2>11, <2>13 DEF IsNest
        <3> QED
            BY <2>1, <2>2, <2>9, <2>13, <3>1 DEF NestWell
    <2>15. Drawn(queues, preds, o) = Drawn(queues, preds, <<>>)
        <3>1. LinksOf(c) = {}
            BY <2>9, <2>10 DEF LinksOf
        <3> QED
            BY <2>13, <3>1 DEF Drawn
    <2>16. AskedWell(queues, preds, o, asked)
        <3>1. LastStep(queues, o) = n /\ LastStep(queues, <<>>) = n
            BY <2>1, <2>10, <2>13 DEF LastStep
        <3> QED
            BY <1>1, <2>15, <3>1 DEF AskedWell
    <2>17. Before(o, 1, n) = 1 .. n
        BY DEF Before, Beside
    <2>18. FreeWell(o)
        <3>1. FreeAt(o, 1)
            BY <2>8, <2>9, <2>10, <2>13, <2>17 DEF FreeAt
        <3> QED
            BY <2>13, <3>1 DEF FreeWell
    <2>19. CoverWell(queues, preds, o, asked)
        <3> SUFFICES ASSUME Forward(GivenBy(queues, preds))
                     PROVE  CoveredAt(Drawn(queues, preds, <<>>), o, 1)
            BY <1>1, <2>13, <2>15 DEF CoverWell
        <3>1. Covers(GivenBy(queues, preds), F, 1 .. n)
            BY <1>1, <2>1, <2>3, FrontierCovers
        <3>2. GivenBy(queues, preds) \subseteq Drawn(queues, preds, <<>>)
            BY DEF Drawn, GivenBy
        <3>3. Covers(Drawn(queues, preds, <<>>), F, 1 .. n)
            BY <3>1, <3>2, CoversMore
        <3> QED
            BY <2>9, <2>10, <2>13, <2>17, <3>3 DEF CoveredAt
    <2>20. Written(queues, preds, o, asked)
        BY <1>1, <2>14, <2>16, <2>18, <2>19 DEF Written
    <2> QED
        BY <1>2, <2>5, <2>12, <2>20
<1> QED
    BY <1>3, <1>4 DEF Collect

\* What is under collection is not given to the planner.
LEMMA BuildStarts == BuilderInit => BuildInv
<1> SUFFICES ASSUME BuilderInit
             PROVE  BuildInv
    OBVIOUS
<1>1. queues = <<>> /\ preds = <<>> /\ open = <<>> /\ asked = {}
    BY DEF BuilderInit, Init
<1>2. GivenWell(queues, preds)
    BY <1>1 DEF GivenWell
<1>3. NestWell(queues, preds, open)
    BY <1>1 DEF NestWell, IsNest
<1>4. AskedWell(queues, preds, open, asked)
    <2>1. Drawn(<<>>, <<>>, <<>>) = {}
        BY DEF Drawn, GivenBy
    <2> QED
        BY <1>1, <2>1 DEF AskedWell
<1>5. FreeWell(open)
    BY <1>1 DEF FreeWell
<1>6. CoverWell(queues, preds, open, asked)
    BY <1>1 DEF CoverWell
<1> QED
    BY <1>1, <1>2, <1>3, <1>4, <1>5, <1>6 DEF BuildInv, Written

LEMMA BuildStep ==
    ASSUME BuildInv, [BuilderNext]_<<vars, builderVars>>
    PROVE  BuildInv'
<1>1. ASSUME Written(queues', preds', open', asked'), open' # <<>> => phase' = "building"
      PROVE  BuildInv'
    BY <1>1 DEF BuildInv
<1>2. CASE Collect
    <2>1. open' # <<>> => phase' = "building"
        BY <1>2 DEF Collect
    <2> QED
        BY <1>1, <1>2, <2>1, CollectStays
<1>3. ASSUME \/ OpenFork \/ OpenBranch \/ CloseBranch \/ CloseFork \/ Materialize
             \/ \E q \in Queues : Pipe(q) \/ PipeComposite(q)
      PROVE  open # <<>> /\ phase' = phase
    <2>1. Materialize => open # <<>>
        <3>1. Materialize => Len(open) = 1
            BY DEF Materialize
        <3>2. Len(open) = 1 => open # <<>>
            OBVIOUS
        <3> QED
            BY <3>1, <3>2
    <2>2. CloseBranch => open # <<>>
        BY DEF CloseBranch
    <2> QED
        BY <1>3, <2>1, <2>2
        DEF OpenFork, OpenBranch, CloseBranch, CloseFork, Materialize, Pipe, PipeComposite, vars
<1>4. CASE OpenFork
    BY <1>1, <1>3, <1>4, OpenForkStays DEF BuildInv
<1>5. CASE OpenBranch
    BY <1>1, <1>3, <1>5, OpenBranchStays DEF BuildInv
<1>6. CASE CloseBranch
    BY <1>1, <1>3, <1>6, CloseBranchStays DEF BuildInv
<1>7. CASE CloseFork
    BY <1>1, <1>3, <1>7, CloseForkStays DEF BuildInv
<1>8. CASE Materialize
    BY <1>1, <1>3, <1>8, MaterializeStays DEF BuildInv
<1>9. ASSUME NEW q \in Queues, Pipe(q)
      PROVE  BuildInv'
    BY <1>1, <1>3, <1>9, PipeStays DEF BuildInv
<1>10. ASSUME NEW q \in Queues, PipeComposite(q)
       PROVE  BuildInv'
    BY <1>1, <1>3, <1>10, CompositeStays DEF BuildInv
<1>11. CASE Appending
    <2>1. open = <<>> /\ open' = <<>> /\ AppendCall
        BY <1>11 DEF Appending, builderVars
    <2>2. PICK q \in Queues : AppendStep(q) \/ \E incoming \in IncomingLists : AppendAfter(q, incoming)
        BY <2>1 DEF AppendCall
    <2>3. CASE AppendStep(q)
        BY <1>1, <2>1, <2>3, AppendStepStays
    <2>4. ASSUME NEW incoming \in IncomingLists, AppendAfter(q, incoming)
          PROVE  BuildInv'
        <3>1. PICK n \in Nat : n = Len(queues)
            BY LenProperties DEF BuildInv, Written, GivenWell
        <3>2. incoming \in Seq(1 .. n + 1)
            <4>1. incoming \in BoundedSeq(1 .. n + 1, 2)
                BY <3>1 DEF IncomingLists
            <4>2. PICK m \in 0 .. 2 : incoming \in [1 .. m -> 1 .. n + 1]
                BY <4>1 DEF BoundedSeq, SeqOf
            <4> QED
                BY <4>2
        <3>3. incoming \in Seq(Steps)
            <4>1. 1 .. n + 1 \subseteq Steps
                BY DEF Steps
            <4> QED
                BY <3>2, <4>1
        <3> QED
            BY <1>1, <2>1, <2>4, <3>3, AppendAfterStays
    <2> QED
        BY <2>2, <2>3, <2>4
<1>12. CASE Starting
    <2>1. open = <<>> /\ open' = <<>> /\ queues' = queues /\ preds' = preds /\ asked' = asked
        BY <1>12 DEF Starting, builderVars, StartGraph, PlanGraph, OpenScopes, PrepareTerminal,
                     PrepareSync
    <2> QED
        BY <1>1, <2>1 DEF BuildInv
<1>13. CASE UNCHANGED <<vars, builderVars>>
    BY <1>13 DEF vars, builderVars, BuildInv
<1> QED
    BY <1>2, <1>4, <1>5, <1>6, <1>7, <1>8, <1>9, <1>10, <1>11, <1>12, <1>13 DEF BuilderNext, Piping

-----------------------------------------------------------------------------
(* What holds while a plan is made *)

AnyBatch == [queue : Queues, first : Nat, last : Nat, preds : Seq(Nat)]

\* What the resource tracker reports: a step comes after an earlier one.
IsHazard(e) == e[1] \in 1 .. Len(queues) /\ e[2] \in 1 .. Len(queues) /\ e[1] < e[2]

Holds(P, b, i) == i \in P[b].first .. P[b].last
Follows(P, b, c) == \E k \in 1 .. Len(P[c].preds) : P[c].preds[k] = b
Between(P, b, c, e) == Holds(P, b, e[1]) /\ Holds(P, c, e[2])

\* Batches come after earlier ones.
Earlier(P) == \A b \in 1 .. Len(P) : \A k \in 1 .. Len(P[b].preds) : P[b].preds[k] \in 1 .. b - 1

\* P has the batches of B, and what comes after what in B and by edges E does
\* in P. It may have empty batches more.
Grown(B, P, E) ==
    /\ P \in Seq(AnyBatch) /\ Earlier(P) /\ Len(B) <= Len(P)
    /\ \A b \in 1 .. Len(B) : P[b].first = B[b].first /\ P[b].last = B[b].last
    /\ \A b \in Len(B) + 1 .. Len(P) : P[b].first > P[b].last
    /\ \A b, c \in 1 .. Len(B) : Follows(B, b, c) => Follows(P, b, c)
    /\ \A e \in E : \A b, c \in 1 .. Len(B) : Between(B, b, c, e) => b = c \/ Follows(P, b, c)

\* In P nothing more comes before batch c.
NoMore(B, P, E, c) ==
    \A b \in 1 .. Len(B) :
        Follows(P, b, c) => Follows(B, b, c) \/ \E e \in E : Between(B, b, c, e)

\* Every batch but the last has one that comes after it.
Joined(P) == \A b \in 1 .. Len(P) - 1 : \E d \in b + 1 .. Len(P) : Follows(P, b, d)

PlannedPhases == {"planned", "recorded", "joined", "ready"}

PTypes ==
    /\ phase \in {"building", "rejected"} \cup PlannedPhases
    /\ {presenting, timeline} \subseteq BOOLEAN /\ scopes \in Nat
    /\ hazards \in Seq(Nat \X Nat)
    /\ phase \notin PlannedPhases => plan = <<>>

PGiven ==
    phase \in PlannedPhases =>
        /\ IsPlan(RecordedPlan) /\ Forward(GivenBy(queues, preds))
        /\ \A e \in Range(hazards) : IsHazard(e)

PGrown ==
    phase \in PlannedPhases =>
        /\ Grown(RecordedPlan, plan, Range(hazards))
        /\ \A c \in 1 .. Len(RecordedPlan) :
            \/ NoMore(RecordedPlan, plan, Range(hazards), c)
            \/ presenting /\ preds # <<>> /\ c = Len(plan)
        /\ (preds = <<>> \/ phase \in {"planned", "recorded"}) => Len(plan) = Len(RecordedPlan)

PJoined == phase \in {"joined", "ready"} => Joined(plan)

PScopes ==
    /\ phase \in {"recorded", "joined"} => scopes = IF plan = <<>> THEN 1 ELSE Len(plan)
    /\ phase = "ready" => plan # <<>>

PlanInv == PTypes /\ PGiven /\ PGrown /\ PJoined /\ PScopes /\ RefusedForCause
-----------------------------------------------------------------------------
(* Which batches end before which *)

LEMMA SeqOfMore ==
    ASSUME NEW S, NEW T, S \subseteq T, NEW s \in Seq(S)
    PROVE  s \in Seq(T)
<1>1. PICK l \in Nat : s \in [1 .. l -> S]
    BY LenProperties
<1>2. s \in [1 .. l -> T]
    BY <1>1
<1> QED
    BY <1>2

LEMMA EarlierBatches ==
    ASSUME NEW P, P \in Seq(AnyBatch), Earlier(P)
    PROVE  /\ Len(P) \in Nat /\ DOMAIN P = 1 .. Len(P)
           /\ \A b \in 1 .. Len(P) :
                /\ P[b].queue \in Queues /\ P[b].first \in Nat /\ P[b].last \in Nat
                /\ P[b].preds \in Seq(Nat) /\ Range(P[b].preds) \subseteq 1 .. b - 1
                /\ \A a : a \in Range(P[b].preds) <=> Follows(P, a, b)
<1>1. Len(P) \in Nat /\ DOMAIN P = 1 .. Len(P) /\ \A b \in 1 .. Len(P) : P[b] \in AnyBatch
    BY LenProperties, ElementOfSeq
<1>2. ASSUME NEW b \in 1 .. Len(P)
      PROVE  /\ P[b].queue \in Queues /\ P[b].first \in Nat /\ P[b].last \in Nat
             /\ P[b].preds \in Seq(Nat) /\ Range(P[b].preds) \subseteq 1 .. b - 1
             /\ \A a : a \in Range(P[b].preds) <=> Follows(P, a, b)
    <2>1. /\ P[b].queue \in Queues /\ P[b].first \in Nat /\ P[b].last \in Nat
          /\ P[b].preds \in Seq(Nat)
        BY <1>1 DEF AnyBatch
    <2>2. DOMAIN P[b].preds = 1 .. Len(P[b].preds)
        BY <2>1
    <2>3. \A a : a \in Range(P[b].preds) <=> Follows(P, a, b)
        BY <2>2 DEF Range, Follows
    <2>4. \A k \in 1 .. Len(P[b].preds) : P[b].preds[k] \in 1 .. b - 1
        BY DEF Earlier
    <2> QED
        BY <2>1, <2>2, <2>3, <2>4 DEF Range
<1> QED
    BY <1>1, <1>2

\* S has what comes before b, and what comes before that.
Above(R, n, b, S) ==
    /\ S \in SUBSET Nat /\ R[b] \subseteq S
    /\ \A x \in S : x \in 1 .. n => R[x] \subseteq S

\* What comes before a number, directly or not, is well defined: the least sets
\* that are closed.
LEMMA AllBefore ==
    ASSUME NEW n \in Nat, NEW R \in [1 .. n -> SUBSET Nat], \A b \in 1 .. n : R[b] \subseteq 1 .. n
    PROVE  \E f : f = [b \in 1 .. n |-> R[b] \cup UNION {f[p] : p \in R[b]}]
<1>1. PICK g : g = [b \in 1 .. n |-> {a \in Nat : \A S \in SUBSET Nat : Above(R, n, b, S) => a \in S}]
    OBVIOUS
<1>2. \A b \in 1 .. n : \A a : a \in g[b] <=> a \in Nat /\ \A S \in SUBSET Nat : Above(R, n, b, S) => a \in S
    BY <1>1
<1>3. \A b \in 1 .. n : \A a \in R[b] : a \in Nat /\ a \in 1 .. n
    OBVIOUS
<1>4. \A b \in 1 .. n : \A a \in R[b] : a \in g[b]
    BY <1>2, <1>3 DEF Above
<1>5. ASSUME NEW b \in 1 .. n, NEW x \in g[b], x \in 1 .. n, NEW a \in R[x]
      PROVE  a \in g[b]
    <2>1. a \in Nat
        BY <1>3, <1>5
    <2>2. ASSUME NEW S \in SUBSET Nat, Above(R, n, b, S)
          PROVE  a \in S
        <3>1. x \in S
            BY <1>2, <2>2
        <3> QED
            BY <1>5, <2>2, <3>1 DEF Above
    <2> QED
        BY <1>2, <2>1, <2>2
<1>6. \A b \in 1 .. n : g[b] \in SUBSET Nat
    BY <1>2
<1>7. ASSUME NEW b \in 1 .. n, NEW p \in R[b]
      PROVE  \A a \in g[p] : a \in g[b]
    <2>1. p \in g[b] /\ p \in 1 .. n
        BY <1>3, <1>4
    <2>2. Above(R, n, p, g[b])
        BY <1>5, <1>6, <2>1 DEF Above
    <2> QED
        BY <1>2, <1>6, <2>1, <2>2
<1>8. ASSUME NEW b \in 1 .. n
      PROVE  g[b] = R[b] \cup UNION {g[p] : p \in R[b]}
    <2>1. PICK U : U = R[b] \cup UNION {g[p] : p \in R[b]}
        OBVIOUS
    <2>2. \A a : a \in U <=> a \in R[b] \/ \E p \in R[b] : a \in g[p]
        BY <2>1
    <2>3. \A a \in U : a \in g[b]
        BY <1>4, <1>7, <2>2
    <2>4. U \in SUBSET Nat
        BY <1>6, <2>3
    <2>5. ASSUME NEW x \in U, x \in 1 .. n, NEW a \in R[x]
          PROVE  a \in U
        <3>1. CASE x \in R[b]
            BY <1>4, <2>2, <2>5, <3>1
        <3>2. ASSUME NEW p \in R[b], x \in g[p]
              PROVE  a \in U
            <4>1. p \in 1 .. n
                BY <1>3
            <4>2. a \in g[p]
                BY <1>5, <2>5, <3>2, <4>1
            <4> QED
                BY <2>2, <4>2
        <3> QED
            BY <2>2, <2>5, <3>1, <3>2
    <2>6. Above(R, n, b, U)
        BY <2>2, <2>4, <2>5 DEF Above
    <2>7. \A a \in g[b] : a \in U
        BY <1>2, <2>4, <2>6
    <2>8. g[b] = U
        BY <2>3, <2>7
    <2> QED
        BY <2>1, <2>8
<1>9. g = [b \in 1 .. n |-> g[b]]
    BY <1>1
<1>10. g = [b \in 1 .. n |-> R[b] \cup UNION {g[p] : p \in R[b]}]
    BY <1>8, <1>9
<1> QED
    BY <1>10

LEMMA AncestorsAre ==
    ASSUME plan \in Seq(AnyBatch), Earlier(plan)
    PROVE  Ancestors = [b \in 1 .. Len(plan) |->
                Range(plan[b].preds) \cup UNION {Ancestors[p] : p \in Range(plan[b].preds)}]
<1>1. PICK n \in Nat : n = Len(plan) /\ DOMAIN plan = 1 .. n
    BY EarlierBatches
<1>2. \A b \in 1 .. n : Range(plan[b].preds) \subseteq 1 .. b - 1
    BY <1>1, EarlierBatches
<1>3. PICK R : R = [b \in 1 .. n |-> Range(plan[b].preds)]
    OBVIOUS
<1>4. R \in [1 .. n -> SUBSET Nat] /\ \A b \in 1 .. n : R[b] \subseteq 1 .. n
    <2>1. \A b \in 1 .. n : R[b] = Range(plan[b].preds)
        BY <1>3
    <2>2. \A b \in 1 .. n : R[b] \subseteq 1 .. n /\ R[b] \in SUBSET Nat
        <3>1. \A b \in 1 .. n : R[b] \subseteq 1 .. b - 1
            BY <1>2, <2>1
        <3>2. \A b \in 1 .. n : 1 .. b - 1 \subseteq 1 .. n /\ 1 .. b - 1 \subseteq Nat
            OBVIOUS
        <3> QED
            BY <3>1, <3>2
    <2>3. R = [b \in 1 .. n |-> R[b]]
        BY <1>3
    <2> QED
        BY <2>2, <2>3
<1>5. PICK f : f = [b \in 1 .. n |-> R[b] \cup UNION {f[p] : p \in R[b]}]
    BY <1>4, AllBefore
<1>6. f = [b \in DOMAIN plan |->
            Range(plan[b].preds) \cup UNION {f[p] : p \in Range(plan[b].preds)}]
    BY <1>1, <1>3, <1>5
<1>7. Ancestors = [b \in DOMAIN plan |->
            Range(plan[b].preds) \cup UNION {Ancestors[p] : p \in Range(plan[b].preds)}]
    BY <1>6 DEF Ancestors
<1> QED
    BY <1>1, <1>7

LEMMA AncestorsFacts ==
    ASSUME plan \in Seq(AnyBatch), Earlier(plan)
    PROVE  \A b \in 1 .. Len(plan) :
            /\ Ancestors[b] \subseteq 1 .. b - 1
            /\ \A a : Follows(plan, a, b) => a \in Ancestors[b]
            /\ \A c \in Ancestors[b] : Ancestors[c] \subseteq Ancestors[b]
            /\ \A a \in Ancestors[b] :
                Follows(plan, a, b) \/ \E p \in Ancestors[b] : Follows(plan, p, b) /\ a \in Ancestors[p]
<1> DEFINE R(b) == Range(plan[b].preds)
           Good == {b \in Nat : b \in 1 .. Len(plan) =>
                        /\ Ancestors[b] \subseteq 1 .. b - 1
                        /\ \A c \in Ancestors[b] : Ancestors[c] \subseteq Ancestors[b]}
<1>1. Len(plan) \in Nat /\ \A b \in 1 .. Len(plan) : R(b) \subseteq 1 .. b - 1
    BY EarlierBatches
<1>2. \A b \in 1 .. Len(plan) : \A a : a \in R(b) <=> Follows(plan, a, b)
    BY EarlierBatches
<1>3. \A b \in 1 .. Len(plan) : Ancestors[b] = R(b) \cup UNION {Ancestors[p] : p \in R(b)}
    <2>1. PICK f : f = Ancestors
        OBVIOUS
    <2>2. f = [b \in 1 .. Len(plan) |-> R(b) \cup UNION {f[p] : p \in R(b)}]
        BY <2>1, AncestorsAre
    <2> HIDE DEF R
    <2>3. \A b \in 1 .. Len(plan) : f[b] = R(b) \cup UNION {f[p] : p \in R(b)}
        BY <2>2
    <2> QED
        BY <2>1, <2>3
<1> HIDE DEF R
<1>4. ASSUME NEW b \in Nat, \A d \in 0 .. b - 1 : d \in Good
      PROVE  b \in Good
    <2> SUFFICES ASSUME b \in 1 .. Len(plan)
                 PROVE  /\ Ancestors[b] \subseteq 1 .. b - 1
                        /\ \A c \in Ancestors[b] : Ancestors[c] \subseteq Ancestors[b]
        OBVIOUS
    <2>1. \A p \in R(b) : /\ p \in 1 .. b - 1 /\ p \in 1 .. Len(plan)
                          /\ Ancestors[p] \subseteq 1 .. p - 1
                          /\ \A c \in Ancestors[p] : Ancestors[c] \subseteq Ancestors[p]
                          /\ Ancestors[p] \subseteq Ancestors[b]
        <3> SUFFICES ASSUME NEW p \in R(b)
                     PROVE  /\ p \in 1 .. b - 1 /\ p \in 1 .. Len(plan)
                            /\ Ancestors[p] \subseteq 1 .. p - 1
                            /\ \A c \in Ancestors[p] : Ancestors[c] \subseteq Ancestors[p]
                            /\ Ancestors[p] \subseteq Ancestors[b]
            OBVIOUS
        <3>1. p \in 1 .. b - 1 /\ p \in 1 .. Len(plan) /\ p \in 0 .. b - 1
            BY <1>1
        <3>2. p \in Good
            BY <1>4, <3>1
        <3> QED
            BY <1>3, <3>1, <3>2
    <2>2. ASSUME NEW a \in Ancestors[b]
          PROVE  a \in 1 .. b - 1
        <3>1. a \in R(b) \/ \E p \in R(b) : a \in Ancestors[p]
            BY <1>3
        <3> QED
            BY <2>1, <3>1
    <2>3. ASSUME NEW c \in Ancestors[b]
          PROVE  Ancestors[c] \subseteq Ancestors[b]
        <3>1. c \in R(b) \/ \E p \in R(b) : c \in Ancestors[p]
            BY <1>3
        <3> QED
            BY <2>1, <3>1
    <2> QED
        BY <2>2, <2>3
<1>5. \A b \in Nat : b \in Good
    <2> HIDE DEF Good
    <2> QED
        BY <1>4, AllNumbers
<1>6. \A b \in 1 .. Len(plan) : b \in Good
    BY <1>1, <1>5
<1> QED
    BY <1>2, <1>3, <1>6

-----------------------------------------------------------------------------
(* Edges between batches *)

\* Batch d comes after the batches of sequence s, too.
MorePreds(P, Q, d, s) == Q = [P EXCEPT ![d].preds = @ \o s]

\* Nothing but the edges is changed.
SameBatches(P, Q) ==
    /\ Q \in Seq(AnyBatch) /\ Earlier(Q) /\ Len(Q) = Len(P)
    /\ \A b \in 1 .. Len(P) : Q[b].first = P[b].first /\ Q[b].last = P[b].last /\ Q[b].queue = P[b].queue

LEMMA MorePredsAre ==
    ASSUME NEW P, NEW Q, NEW d, NEW s,
           P \in Seq(AnyBatch), Earlier(P), d \in 1 .. Len(P), s \in Seq(1 .. d - 1), MorePreds(P, Q, d, s)
    PROVE  /\ SameBatches(P, Q)
           /\ \A c \in 1 .. Len(P) : \A b :
                Follows(Q, b, c) <=> Follows(P, b, c) \/ (c = d /\ b \in Range(s))
<1>1. PICK n \in Nat : n = Len(P) /\ DOMAIN P = 1 .. n
    BY EarlierBatches
<1>2. \A b \in 1 .. n : /\ P[b] \in AnyBatch /\ P[b].preds \in Seq(Nat)
                        /\ \A k \in 1 .. Len(P[b].preds) : P[b].preds[k] \in 1 .. b - 1
    BY <1>1, EarlierBatches, ElementOfSeq DEF Earlier
<1>3. d \in 1 .. n
    BY <1>1
<1>4. PICK y \in Seq(Nat) : y = P[d].preds
    BY <1>2, <1>3
<1>5. s \in Seq(Nat)
    BY <1>3
<1>6. PICK w : w = y \o s
    OBVIOUS
<1>7. w \in Seq(Nat) /\ \E m \in Nat, l \in Nat : IsJoin(y, s, w, m, l)
    BY <1>5, <1>6, JoinOf
<1>8. PICK m \in Nat, l \in Nat : IsJoin(y, s, w, m, l)
    BY <1>7
<1>9. \A k \in 1 .. l : s[k] \in 1 .. d - 1
    BY <1>8 DEF IsJoin
<1>10. PICK D : D = [P[d] EXCEPT !.preds = w]
    OBVIOUS
<1>11. /\ D \in AnyBatch /\ D.preds = w /\ D.first = P[d].first /\ D.last = P[d].last
       /\ D.queue = P[d].queue
    <2>1. P[d] \in AnyBatch
        BY <1>2, <1>3
    <2> QED
        BY <1>7, <1>10, <2>1 DEF AnyBatch
<1>12. Q = [P EXCEPT ![d] = D]
    BY <1>4, <1>6, <1>10 DEF MorePreds
<1>13. Q \in Seq(AnyBatch) /\ Len(Q) = n /\ Q[d] = D /\ \A b \in 1 .. n : b # d => Q[b] = P[b]
    BY <1>1, <1>3, <1>11, <1>12, ExceptSeq
<1>14. \A b \in 1 .. n : Q[b].first = P[b].first /\ Q[b].last = P[b].last /\ Q[b].queue = P[b].queue
    BY <1>11, <1>13
<1>15. \A k \in 1 .. Len(w) : w[k] \in 1 .. d - 1
    <2> SUFFICES ASSUME NEW k \in 1 .. Len(w)
                 PROVE  w[k] \in 1 .. d - 1
        OBVIOUS
    <2>1. Len(w) = m + l /\ k \in 1 .. m + l
        BY <1>8 DEF IsJoin
    <2>2. CASE k \in 1 .. m /\ w[k] = y[k]
        BY <1>2, <1>3, <1>4, <1>8, <2>2 DEF IsJoin
    <2>3. CASE k - m \in 1 .. l /\ w[k] = s[k - m]
        BY <1>9, <2>3
    <2> QED
        BY <1>8, <2>1, <2>2, <2>3 DEF IsJoin
<1>16. Earlier(Q)
    <2> SUFFICES ASSUME NEW b \in 1 .. n, NEW k \in 1 .. Len(Q[b].preds)
                 PROVE  Q[b].preds[k] \in 1 .. b - 1
        BY <1>13 DEF Earlier
    <2>1. CASE b = d
        BY <1>11, <1>13, <1>15, <2>1
    <2>2. CASE b # d
        BY <1>2, <1>13, <2>2
    <2> QED
        BY <2>1, <2>2
<1>17. ASSUME NEW c \in 1 .. n, NEW b
       PROVE  Follows(Q, b, c) <=> Follows(P, b, c) \/ (c = d /\ b \in Range(s))
    <2>1. CASE c # d
        <3>1. Q[c] = P[c]
            BY <1>13, <2>1
        <3>2. Follows(Q, b, c) <=> Follows(P, b, c)
            BY <3>1 DEF Follows
        <3> QED
            BY <2>1, <3>2
    <2>2. CASE c = d
        <3>1. Follows(Q, b, c) <=> \E k \in 1 .. Len(w) : w[k] = b
            BY <1>11, <1>13, <2>2 DEF Follows
        <3>2. Follows(P, b, c) <=> \E k \in 1 .. m : y[k] = b
            BY <1>4, <1>8, <2>2 DEF Follows, IsJoin
        <3>3. b \in Range(s) <=> \E k \in 1 .. l : s[k] = b
            <4>1. DOMAIN s = 1 .. l
                BY <1>5, <1>8 DEF IsJoin
            <4> QED
                BY <4>1 DEF Range
        <3>4. (\E k \in 1 .. Len(w) : w[k] = b) => (\E k \in 1 .. m : y[k] = b) \/ \E k \in 1 .. l : s[k] = b
            <4>1. Len(w) = m + l
                BY <1>8 DEF IsJoin
            <4>2. \A k \in 1 .. m + l : (k \in 1 .. m /\ w[k] = y[k]) \/ (k - m \in 1 .. l /\ w[k] = s[k - m])
                BY <1>8 DEF IsJoin
            <4> QED
                BY <4>1, <4>2
        <3>5. (\E k \in 1 .. m : y[k] = b) => \E k \in 1 .. Len(w) : w[k] = b
            <4>1. \A k \in 1 .. m : k \in 1 .. Len(w) /\ w[k] = y[k]
                BY <1>8 DEF IsJoin
            <4> QED
                BY <4>1
        <3>6. (\E k \in 1 .. l : s[k] = b) => \E k \in 1 .. Len(w) : w[k] = b
            <4>1. \A k \in 1 .. l : m + k \in 1 .. Len(w) /\ w[m + k] = s[k]
                BY <1>8 DEF IsJoin
            <4> QED
                BY <4>1
        <3>7. Follows(Q, b, c) <=> Follows(P, b, c) \/ b \in Range(s)
            BY <3>1, <3>2, <3>3, <3>4, <3>5, <3>6
        <3> QED
            BY <2>2, <3>7
    <2> QED
        BY <2>1, <2>2
<1> QED
    BY <1>1, <1>13, <1>14, <1>16, <1>17 DEF SameBatches

\* A batch comes after no other twice.
NoneTwice(P) ==
    \A b \in 1 .. Len(P) : \A k, l \in 1 .. Len(P[b].preds) : P[b].preds[k] = P[b].preds[l] => k = l

\* What is new and different stays so.
LEMMA StillNoneTwice ==
    ASSUME NEW P, NEW Q, NEW d, NEW s,
           P \in Seq(AnyBatch), Earlier(P), d \in 1 .. Len(P), s \in Seq(1 .. d - 1), MorePreds(P, Q, d, s),
           NoneTwice(P), \A i, j \in 1 .. Len(s) : s[i] = s[j] => i = j,
           \A i \in 1 .. Len(s) : ~ Follows(P, s[i], d)
    PROVE  NoneTwice(Q)
<1>1. PICK n \in Nat : n = Len(P) /\ DOMAIN P = 1 .. n
    BY EarlierBatches
<1>2. \A b \in 1 .. n : P[b] \in AnyBatch /\ P[b].preds \in Seq(Nat)
    BY <1>1, EarlierBatches, ElementOfSeq
<1>3. d \in 1 .. n
    BY <1>1
<1>4. PICK y \in Seq(Nat) : y = P[d].preds
    BY <1>2, <1>3
<1>5. s \in Seq(Nat)
    BY <1>3
<1>6. PICK w : w = y \o s
    OBVIOUS
<1>7. w \in Seq(Nat) /\ \E m \in Nat, l \in Nat : IsJoin(y, s, w, m, l)
    BY <1>5, <1>6, JoinOf
<1>8. PICK m \in Nat, l \in Nat : IsJoin(y, s, w, m, l)
    BY <1>7
<1>9. PICK D : D = [P[d] EXCEPT !.preds = w]
    OBVIOUS
<1>10. D \in AnyBatch /\ D.preds = w
    <2>1. P[d] \in AnyBatch
        BY <1>2, <1>3
    <2> QED
        BY <1>7, <1>9, <2>1 DEF AnyBatch
<1>11. Q = [P EXCEPT ![d] = D]
    BY <1>4, <1>6, <1>9 DEF MorePreds
<1>12. Len(Q) = n /\ Q[d].preds = w /\ \A b \in 1 .. n : b # d => Q[b] = P[b]
    <2>1. Q \in Seq(AnyBatch) /\ Len(Q) = n /\ Q[d] = D /\ \A b \in 1 .. n : b # d => Q[b] = P[b]
        BY <1>1, <1>3, <1>10, <1>11, ExceptSeq
    <2> QED
        BY <1>10, <2>1
<1>13. /\ Len(w) = m + l
       /\ \A k \in 1 .. m + l : (k \in 1 .. m /\ w[k] = y[k]) \/ (k - m \in 1 .. l /\ w[k] = s[k - m])
       /\ \A j, k \in 1 .. m : y[j] = y[k] => j = k
       /\ \A j, k \in 1 .. l : s[j] = s[k] => j = k
       /\ \A j \in 1 .. m, k \in 1 .. l : y[j] # s[k]
    <2>1. m = Len(y) /\ l = Len(s)
        BY <1>8 DEF IsJoin
    <2>2. \A j, k \in 1 .. m : y[j] = y[k] => j = k
        BY <1>1, <1>3, <1>4, <2>1 DEF NoneTwice
    <2>3. \A j \in 1 .. m, k \in 1 .. l : y[j] # s[k]
        BY <1>4, <2>1 DEF Follows
    <2> QED
        BY <1>8, <2>1, <2>2, <2>3 DEF IsJoin
<1>14. ASSUME NEW j \in 1 .. m + l, NEW k \in 1 .. m + l, w[j] = w[k]
       PROVE  j = k
    <2>1. CASE j \in 1 .. m /\ w[j] = y[j] /\ k \in 1 .. m /\ w[k] = y[k]
        BY <1>13, <1>14, <2>1
    <2>2. CASE j - m \in 1 .. l /\ w[j] = s[j - m] /\ k - m \in 1 .. l /\ w[k] = s[k - m]
        <3>1. j - m = k - m
            BY <1>13, <1>14, <2>2
        <3> QED
            BY <3>1
    <2>3. CASE j \in 1 .. m /\ w[j] = y[j] /\ k - m \in 1 .. l /\ w[k] = s[k - m]
        BY <1>13, <1>14, <2>3
    <2>4. CASE j - m \in 1 .. l /\ w[j] = s[j - m] /\ k \in 1 .. m /\ w[k] = y[k]
        BY <1>13, <1>14, <2>4
    <2> QED
        BY <1>13, <2>1, <2>2, <2>3, <2>4
<1>15. ASSUME NEW b \in 1 .. n, NEW j \in 1 .. Len(Q[b].preds), NEW k \in 1 .. Len(Q[b].preds),
              Q[b].preds[j] = Q[b].preds[k]
       PROVE  j = k
    <2>1. CASE b = d
        BY <1>12, <1>13, <1>14, <1>15, <2>1
    <2>2. CASE b # d
        BY <1>1, <1>12, <1>15, <2>2 DEF NoneTwice
    <2> QED
        BY <2>1, <2>2
<1> QED
    BY <1>12, <1>15 DEF NoneTwice

\* Later steps are in later batches.
LEMMA StepsInOrder ==
    ASSUME NEW B, IsPlan(B), NEW b \in 1 .. Len(B), NEW c \in 1 .. Len(B),
           NEW i, NEW j, Holds(B, b, i), Holds(B, c, j), i <= j
    PROVE  b <= c /\ (i = j => b = c)
<1>1. Len(B) \in Nat /\ \A a \in 1 .. Len(B) : B[a] \in Batches
    BY LenProperties, ElementOfSeq DEF IsPlan
<1>2. \A a \in 1 .. Len(B) : B[a].first \in Nat /\ B[a].last \in Nat
    BY <1>1 DEF Batches
<1>3. ASSUME NEW x \in 1 .. Len(B), NEW y \in 1 .. Len(B), NEW p, NEW r,
             Holds(B, x, p), Holds(B, y, r), p <= r
      PROVE  x <= y
    <2> SUFFICES ASSUME ~ x <= y
                 PROVE  FALSE
        OBVIOUS
    <2>1. y \in 1 .. x - 1
        BY <1>1
    <2>2. B[y].last < B[x].first
        BY <2>1, BatchesInOrder
    <2>3. p \in B[x].first .. B[x].last /\ r \in B[y].first .. B[y].last
        BY <1>3 DEF Holds
    <2> QED
        BY <1>2, <1>3, <2>2, <2>3
<1>4. b <= c
    BY <1>3
<1>5. i = j => c <= b
    <2>1. i \in Nat /\ j \in Nat
        BY <1>2 DEF Holds
    <2> QED
        BY <1>3, <2>1
<1> QED
    BY <1>1, <1>4, <1>5

\* The batch of a step is the one that holds it.
LEMMA BatchOfIs ==
    ASSUME NEW B, IsPlan(B), queues \in Seq(Queues), NEW P, NEW E, Grown(B, P, E),
           NEW i \in 1 .. Len(queues)
    PROVE  /\ BatchOf(P, i) \in 1 .. Len(B) /\ Holds(B, BatchOf(P, i), i)
           /\ Holds(P, BatchOf(P, i), i)
           /\ \A b \in 1 .. Len(B) : Holds(B, b, i) => b = BatchOf(P, i)
<1>1. PICK n \in Nat, m \in Nat : n = Len(B) /\ m = Len(P) /\ DOMAIN P = 1 .. m /\ n <= m
    BY EarlierBatches, LenProperties DEF Grown, IsPlan
<1>2. \A b \in 1 .. m : P[b].first \in Nat /\ P[b].last \in Nat
    BY <1>1, EarlierBatches DEF Grown
<1>3. PICK a \in 1 .. n : Holds(B, a, i)
    BY <1>1, EveryStepHasABatch DEF Holds
<1>4. a \in DOMAIN P /\ i \in P[a].first .. P[a].last
    BY <1>1, <1>3 DEF Holds, Grown
<1>5. BatchOf(P, i) \in DOMAIN P /\ i \in P[BatchOf(P, i)].first .. P[BatchOf(P, i)].last
    BY <1>4 DEF BatchOf
<1>6. PICK x : x = BatchOf(P, i)
    OBVIOUS
<1>7. x \in 1 .. m /\ i \in P[x].first .. P[x].last
    BY <1>1, <1>5, <1>6
<1>8. x \in 1 .. n
    <2> SUFFICES ASSUME x \notin 1 .. n
                 PROVE  FALSE
        OBVIOUS
    <2>1. x \in n + 1 .. m
        BY <1>7
    <2>2. P[x].first > P[x].last
        BY <1>1, <2>1 DEF Grown
    <2> QED
        BY <1>2, <1>7, <2>2
<1>9. Holds(B, x, i)
    BY <1>1, <1>7, <1>8 DEF Holds, Grown
<1>10. \A b \in 1 .. n : Holds(B, b, i) => b = x
    BY <1>1, <1>8, <1>9, StepsInOrder
<1> QED
    BY <1>1, <1>6, <1>7, <1>8, <1>9, <1>10 DEF Holds

\* P is B with the edges E, and nothing else.
GrownBy(B, P, E) ==
    /\ Grown(B, P, E) /\ Len(P) = Len(B) /\ \A c \in 1 .. Len(B) : NoMore(B, P, E, c)
    /\ NoneTwice(B) => NoneTwice(P)

\* One resource hazard adds the edge it needs, and no other.
LEMMA AddEdgeKeeps ==
    ASSUME NEW B, IsPlan(B), queues \in Seq(Queues), NEW P, NEW E, GrownBy(B, P, E),
           NEW e, IsHazard(e), NEW Q, Q = AddEdge(P, e)
    PROVE  GrownBy(B, Q, E \cup {e})
<1> /\ Grown(B, P, E) /\ Len(P) = Len(B) /\ \A c \in 1 .. Len(B) : NoMore(B, P, E, c)
    /\ NoneTwice(B) => NoneTwice(P)
    BY DEF GrownBy
<1> e[1] \in 1 .. Len(queues) /\ e[2] \in 1 .. Len(queues) /\ e[1] < e[2]
    BY DEF IsHazard
<1>1. PICK n \in Nat : n = Len(B) /\ n = Len(P) /\ P \in Seq(AnyBatch) /\ Earlier(P)
    BY LenProperties DEF Grown, IsPlan
<1>2. PICK s \in 1 .. n : /\ s = BatchOf(P, e[1]) /\ Holds(B, s, e[1])
                          /\ \A b \in 1 .. n : Holds(B, b, e[1]) => b = s
    BY <1>1, BatchOfIs
<1>3. PICK d \in 1 .. n : /\ d = BatchOf(P, e[2]) /\ Holds(B, d, e[2])
                          /\ \A b \in 1 .. n : Holds(B, b, e[2]) => b = d
    BY <1>1, BatchOfIs
<1>4. s <= d
    <2>1. e[1] <= e[2]
        OBVIOUS
    <2> QED
        BY <1>1, <1>2, <1>3, <2>1, StepsInOrder
<1>5. Between(B, s, d, e)
    BY <1>2, <1>3 DEF Between
<1>6. \A b, c \in 1 .. n : Between(B, b, c, e) => b = s /\ c = d
    BY <1>2, <1>3 DEF Between
<1>7. DOMAIN P[d].preds = 1 .. Len(P[d].preds) /\ P[d].preds \in Seq(Nat)
    BY <1>1, EarlierBatches
<1>8. /\ \A b \in 1 .. n : P[b].first = B[b].first /\ P[b].last = B[b].last
      /\ \A b \in n + 1 .. n : P[b].first > P[b].last
      /\ \A b, c \in 1 .. n : Follows(B, b, c) => Follows(P, b, c)
      /\ \A f \in E : \A b, c \in 1 .. n : Between(B, b, c, f) => b = c \/ Follows(P, b, c)
    BY <1>1 DEF Grown
<1>9. Q = IF s = d \/ Contains(P[d].preds, s) THEN P
          ELSE [P EXCEPT ![d].preds = Append(@, s)]
    BY <1>2, <1>3 DEF AddEdge
<1>10. CASE s = d \/ Contains(P[d].preds, s)
    <2>1. Q = P
        BY <1>9, <1>10
    <2>2. s = d \/ Follows(P, s, d)
        BY <1>10 DEF Contains, Follows
    <2>3. \A f \in E \cup {e} : \A b, c \in 1 .. n : Between(B, b, c, f) => b = c \/ Follows(Q, b, c)
        BY <1>6, <1>8, <2>1, <2>2
    <2>4. Grown(B, Q, E \cup {e})
        BY <1>1, <1>8, <2>1, <2>3 DEF Grown
    <2>5. \A c \in 1 .. n : NoMore(B, Q, E \cup {e}, c)
        BY <1>1, <2>1 DEF NoMore
    <2> QED
        BY <1>1, <2>1, <2>4, <2>5 DEF GrownBy
<1>11. CASE ~ (s = d \/ Contains(P[d].preds, s))
    <2>1. s \in 1 .. d - 1
        BY <1>4, <1>11
    <2>2. PICK one : one = <<s>>
        OBVIOUS
    <2>3. one \in Seq(1 .. d - 1) /\ \A b : b \in Range(one) <=> b = s
        BY <2>1, <2>2 DEF Range
    <2>4. MorePreds(P, Q, d, one)
        <3>1. Append(P[d].preds, s) = P[d].preds \o one
            <4>1. PICK y \in Seq(Nat) : y = P[d].preds
                BY <1>7
            <4>2. s \in Nat
                OBVIOUS
            <4> QED
                BY <2>2, <4>1, <4>2, AppendIsConcat
        <3> QED
            BY <1>9, <1>11, <3>1 DEF MorePreds
    <2>5. /\ SameBatches(P, Q)
          /\ \A c \in 1 .. n : \A b : Follows(Q, b, c) <=> Follows(P, b, c) \/ (c = d /\ b = s)
        <3>1. d \in 1 .. Len(P)
            BY <1>1
        <3> QED
            BY <1>1, <2>3, <2>4, <3>1, MorePredsAre
    <2>6. Q \in Seq(AnyBatch) /\ Earlier(Q) /\ Len(Q) = n
        BY <1>1, <2>5 DEF SameBatches
    <2>7. \A b \in 1 .. n : Q[b].first = B[b].first /\ Q[b].last = B[b].last
        BY <1>1, <1>8, <2>5 DEF SameBatches
    <2>8. \A b, c \in 1 .. n : Follows(B, b, c) => Follows(Q, b, c)
        BY <1>8, <2>5
    <2>9. ASSUME NEW f \in E \cup {e}, NEW b \in 1 .. n, NEW c \in 1 .. n, Between(B, b, c, f)
          PROVE  b = c \/ Follows(Q, b, c)
        <3>1. CASE f \in E
            BY <1>8, <2>5, <2>9, <3>1
        <3>2. CASE f = e
            BY <1>6, <2>5, <2>9, <3>2
        <3> QED
            BY <2>9, <3>1, <3>2
    <2>10. Grown(B, Q, E \cup {e})
        <3>1. n + 1 .. n = {}
            BY <1>1
        <3> QED
            BY <1>1, <2>6, <2>7, <2>8, <2>9, <3>1 DEF Grown
    <2>11. ASSUME NEW c \in 1 .. n
           PROVE  NoMore(B, Q, E \cup {e}, c)
        <3> SUFFICES ASSUME NEW b \in 1 .. n, Follows(Q, b, c)
                     PROVE  Follows(B, b, c) \/ \E f \in E \cup {e} : Between(B, b, c, f)
            BY <1>1 DEF NoMore
        <3>1. CASE c = d /\ b = s
            BY <1>5, <3>1
        <3>2. CASE Follows(P, b, c)
            BY <1>1, <3>2 DEF NoMore
        <3> QED
            BY <2>5, <3>1, <3>2
    <2>12. NoneTwice(P) => NoneTwice(Q)
        <3>1. \A i, j \in 1 .. Len(one) : one[i] = one[j] => i = j
            BY <2>2
        <3>2. \A i \in 1 .. Len(one) : ~ Follows(P, one[i], d)
            <4>1. ~ Follows(P, s, d)
                BY <1>11 DEF Contains, Follows
            <4>2. \A i \in 1 .. Len(one) : one[i] = s
                BY <2>2
            <4> QED
                BY <4>1, <4>2
        <3> QED
            BY <1>1, <2>3, <2>4, <3>1, <3>2, StillNoneTwice
    <2> QED
        BY <1>1, <2>6, <2>10, <2>11, <2>12 DEF GrownBy
<1> QED
    BY <1>10, <1>11

\* The recursion of AddResourceDependencies has a solution.
Added(B, edges, m, g) ==
    g = [n \in 0 .. m |-> IF n = 0 THEN B ELSE AddEdge(g[n - 1], edges[n])]

LEMMA AddedExists ==
    ASSUME NEW B, NEW edges
    PROVE  \A m \in Nat : \E g : Added(B, edges, m, g)
<1> DEFINE Good == {m \in Nat : \E g : Added(B, edges, m, g)}
<1>1. ASSUME NEW m \in Nat, \A k \in 0 .. m - 1 : k \in Good
      PROVE  m \in Good
    <2>1. CASE m = 0
        <3>1. PICK g : g = [n \in 0 .. 0 |-> B]
            OBVIOUS
        <3>2. Added(B, edges, 0, g)
            BY <3>1 DEF Added
        <3> QED
            BY <2>1, <3>2
    <2>2. CASE m # 0
        <3>1. m - 1 \in Good
            BY <1>1, <2>2
        <3>2. PICK h : h = [n \in 0 .. m - 1 |-> IF n = 0 THEN B ELSE AddEdge(h[n - 1], edges[n])]
            BY <3>1 DEF Added
        <3>3. PICK g : g = [n \in 0 .. m |-> IF n = m THEN AddEdge(h[m - 1], edges[m]) ELSE h[n]]
            OBVIOUS
        <3>4. ASSUME NEW n \in 0 .. m
              PROVE  g[n] = IF n = 0 THEN B ELSE AddEdge(g[n - 1], edges[n])
            <4>1. CASE n = 0
                BY <2>2, <3>2, <3>3, <4>1
            <4>2. CASE n # 0
                <5>1. n - 1 \in 0 .. m - 1 /\ n - 1 \in 0 .. m /\ n - 1 # m
                    BY <4>2
                <5>2. g[n - 1] = h[n - 1]
                    BY <3>3, <5>1
                <5>3. CASE n = m
                    <6>1. g[n] = AddEdge(h[m - 1], edges[m])
                        BY <3>3, <5>3
                    <6> QED
                        BY <4>2, <5>2, <5>3, <6>1
                <5>4. CASE n # m
                    <6>1. n \in 0 .. m - 1 /\ g[n] = h[n]
                        BY <3>3, <5>4
                    <6>2. h[n] = AddEdge(h[n - 1], edges[n])
                        BY <3>2, <4>2, <6>1
                    <6> QED
                        BY <4>2, <5>2, <6>1, <6>2
                <5> QED
                    BY <5>3, <5>4
            <4> QED
                BY <4>1, <4>2
        <3>5. g = [n \in 0 .. m |-> g[n]]
            BY <3>3
        <3>6. Added(B, edges, m, g)
            BY <3>4, <3>5 DEF Added
        <3> QED
            BY <3>6
    <2> QED
        BY <2>1, <2>2
<1> HIDE DEF Good
<1>2. \A m \in Nat : m \in Good
    BY <1>1, AllNumbers
<1> QED
    BY <1>2 DEF Good

\* What the planner makes is a plan in itself.
LEMMA PlanIsGrown ==
    ASSUME NEW B, IsPlan(B)
    PROVE  GrownBy(B, B, {})
<1>1. PICK n \in Nat : n = Len(B) /\ B \in Seq(Batches)
    BY LenProperties DEF IsPlan
<1>2. Batches \subseteq AnyBatch
    BY DEF Batches, AnyBatch
<1>3. B \in Seq(AnyBatch)
    BY <1>1, <1>2
<1>4. Earlier(B)
    BY DEF IsPlan, Earlier
<1>5. n + 1 .. n = {}
    BY <1>1
<1> QED
    BY <1>1, <1>3, <1>4, <1>5 DEF GrownBy, Grown, NoMore

\* The hazards add the edges they need, and no others.
LEMMA HazardsKeep ==
    ASSUME NEW B, IsPlan(B), queues \in Seq(Queues), NEW edges, edges \in Seq(Nat \X Nat),
           \A e \in Range(edges) : IsHazard(e),
           NEW Q, Q = AddResourceDependencies(B, edges)
    PROVE  GrownBy(B, Q, Range(edges))
<1>1. PICK m \in Nat : m = Len(edges)
    BY LenProperties
<1>2. \A n \in 1 .. m : IsHazard(edges[n])
    <2>1. DOMAIN edges = 1 .. m
        BY <1>1
    <2>2. \A n \in 1 .. m : edges[n] \in Range(edges)
        BY <2>1 DEF Range
    <2> QED
        BY <2>2
<1>3. PICK E : E = [n \in 0 .. m |-> {edges[k] : k \in 1 .. n}]
    OBVIOUS
<1>4. E[0] = {} /\ \A n \in 1 .. m : E[n] = E[n - 1] \cup {edges[n]}
    <2>1. E[0] = {}
        BY <1>3
    <2>2. ASSUME NEW n \in 1 .. m
          PROVE  E[n] = E[n - 1] \cup {edges[n]}
        <3>1. E[n] = {edges[k] : k \in 1 .. n} /\ E[n - 1] = {edges[k] : k \in 1 .. n - 1}
            BY <1>3
        <3>2. \A k : k \in 1 .. n <=> k \in 1 .. n - 1 \/ k = n
            OBVIOUS
        <3> QED
            BY <3>1, <3>2
    <2> QED
        BY <2>1, <2>2
<1>5. E[m] = Range(edges)
    <2>1. E[m] = {edges[k] : k \in 1 .. m} /\ DOMAIN edges = 1 .. m
        BY <1>1, <1>3
    <2> QED
        BY <2>1 DEF Range
<1>6. \E g : Added(B, edges, m, g)
    BY AddedExists
<1>7. PICK h : Added(B, edges, m, h) /\ Q = h[m]
    <2>1. PICK h : h = CHOOSE a : Added(B, edges, m, a)
        OBVIOUS
    <2>2. Added(B, edges, m, h)
        BY <1>6, <2>1
    <2>3. Q = h[m]
        BY <1>1, <2>1 DEF AddResourceDependencies, Added
    <2> QED
        BY <2>2, <2>3
<1>8. h[0] = B /\ \A n \in 1 .. m : h[n] = AddEdge(h[n - 1], edges[n])
    BY <1>7 DEF Added
<1> DEFINE Good == {n \in Nat : n \in 0 .. m => GrownBy(B, h[n], E[n])}
<1>9. ASSUME NEW n \in Nat, \A k \in 0 .. n - 1 : k \in Good
      PROVE  n \in Good
    <2> SUFFICES ASSUME n \in 0 .. m
                 PROVE  GrownBy(B, h[n], E[n])
        OBVIOUS
    <2>1. CASE n = 0
        <3>1. h[n] = B /\ E[n] = {}
            BY <1>4, <1>8, <2>1
        <3> HIDE DEF Good
        <3> QED
            BY <3>1, PlanIsGrown
    <2>2. CASE n # 0
        <3>1. n - 1 \in Good /\ n - 1 \in 0 .. m /\ n \in 1 .. m
            BY <1>9, <2>2
        <3>2. PICK P, D, e : P = h[n - 1] /\ D = E[n - 1] /\ e = edges[n]
            OBVIOUS
        <3>3. IsHazard(e)
            BY <1>2, <3>1, <3>2
        <3>4. GrownBy(B, P, D)
            BY <3>1, <3>2
        <3>5. h[n] = AddEdge(P, e) /\ E[n] = D \cup {e}
            BY <1>4, <1>8, <3>1, <3>2
        <3> HIDE DEF Good
        <3> QED
            BY <3>3, <3>4, <3>5, AddEdgeKeeps
    <2> QED
        BY <2>1, <2>2
<1> HIDE DEF Good
<1>10. m \in Good
    BY <1>9, AllNumbers
<1> QED
    BY <1>5, <1>7, <1>10 DEF Good

-----------------------------------------------------------------------------
(* Which graphs are planned, and which are refused *)

\* The batches of a graph that is no chain are its steps.
LEMMA DagIs ==
    ASSUME GivenWell(queues, preds), Forward(GivenBy(queues, preds)), preds # <<>>
    PROVE  /\ IsPlan(PlanDag) /\ Len(PlanDag) = Len(queues)
           /\ \A b \in 1 .. Len(queues) :
                /\ PlanDag[b].first = b /\ PlanDag[b].last = b /\ PlanDag[b].preds = preds[b]
<1>1. PICK n \in Nat, p \in Seq(Seq(Steps)) :
        n = Len(queues) /\ p = preds /\ n = Len(p) /\ queues \in Seq(Queues) /\ DOMAIN p = 1 .. n
    BY LenProperties DEF GivenWell
<1>2. \A i \in 1 .. n : p[i] \in Seq(Steps)
    BY <1>1
<1>3. ASSUME NEW i \in 1 .. n, NEW k \in 1 .. Len(p[i])
      PROVE  p[i][k] \in 1 .. i - 1
    <2>1. p[i][k] \in Steps
        BY <1>2, ElementOfSeq
    <2>2. PICK e : e = <<p[i][k], i>>
        OBVIOUS
    <2>3. e \in GivenBy(queues, preds)
        <3>1. e \in Edges /\ e[1] = p[i][k] /\ e[2] = i
            BY <1>1, <2>1, <2>2 DEF Edges, Steps
        <3> QED
            BY <1>1, <3>1 DEF GivenBy
    <2>4. p[i][k] < i
        BY <2>2, <2>3 DEF Forward
    <2> QED
        BY <2>1, <2>4 DEF Steps
<1>4. p \in Seq(Seq(Nat))
    <2>1. \A i \in 1 .. n : p[i] \in Seq(Nat)
        BY <1>2, SeqOfMore DEF Steps
    <2>2. PICK T : T = Seq(Nat)
        OBVIOUS
    <2>3. p \in [1 .. n -> T]
        BY <1>1, <2>1, <2>2
    <2>4. p \in Seq(T)
        BY <2>3
    <2> QED
        BY <2>2, <2>4
<1>5. /\ IsPlan(PlanDag) /\ Len(PlanDag) = Len(queues)
      /\ \A b \in 1 .. Len(queues) : PlanDag[b] = Batch(queues[b], b, b, preds[b])
    BY <1>1, <1>3, <1>4, PlanOfDag
<1>6. PICK P : P = PlanDag
    OBVIOUS
<1>7. \A b \in 1 .. n : P[b] = [queue |-> queues[b], first |-> b, last |-> b, preds |-> preds[b]]
    BY <1>1, <1>5, <1>6 DEF Batch
<1>8. ASSUME NEW b \in 1 .. n
      PROVE  P[b].first = b /\ P[b].last = b /\ P[b].preds = preds[b]
    <2>1. PICK r : r = P[b]
        OBVIOUS
    <2>2. r = [queue |-> queues[b], first |-> b, last |-> b, preds |-> preds[b]]
        BY <1>7, <2>1
    <2>3. r.first = b /\ r.last = b /\ r.preds = preds[b]
        BY <2>2
    <2> QED
        BY <2>1, <2>3
<1> QED
    BY <1>1, <1>5, <1>6, <1>8

\* What is well formed is planned, after edges from earlier to later steps.
LEMMA PlannedWell ==
    ASSUME GivenWell(queues, preds), \A i \in DOMAIN preds : WellFormed(i)
    PROVE  IsPlan(RecordedPlan) /\ Forward(GivenBy(queues, preds))
<1>1. queues \in Seq(Queues) /\ preds \in Seq(Seq(Steps)) /\ (preds # <<>> => Len(preds) = Len(queues))
    BY DEF GivenWell
<1>2. CASE preds = <<>>
    <2>1. IsPlan(RecordedPlan)
        BY <1>1, <1>2, PlanOfChain DEF RecordedPlan
    <2>2. ASSUME NEW e \in GivenBy(queues, preds)
          PROVE  e[1] < e[2]
        <3>1. e \in Edges /\ e[1] = e[2] - 1
            BY <1>2 DEF GivenBy
        <3> QED
            BY <3>1 DEF Edges
    <2> QED
        BY <2>1, <2>2 DEF Forward
<1>3. CASE preds # <<>>
    <2>1. PICK n \in Nat, p \in Seq(Seq(Steps)) : n = Len(queues) /\ p = preds /\ n = Len(p)
        BY <1>1, <1>3, LenProperties
    <2>2. DOMAIN p = 1 .. n
        BY <2>1
    <2>3. ASSUME NEW e \in GivenBy(queues, preds)
          PROVE  e[1] < e[2]
        <3>1. e[2] \in 1 .. n /\ \E k \in 1 .. Len(p[e[2]]) : p[e[2]][k] = e[1]
            BY <1>3, <2>1 DEF GivenBy
        <3>2. PICK i \in 1 .. n, r \in Seq(Steps) : i = e[2] /\ r = p[i]
            <4>1. PICK i \in 1 .. n : i = e[2]
                BY <3>1
            <4>2. p[i] \in Seq(Steps)
                BY <2>1, ElementOfSeq
            <4> QED
                BY <4>1, <4>2
        <3>3. e[1] \in Range(r)
            BY <3>1, <3>2 DEF Range
        <3> QED
            BY <2>1, <2>2, <3>2, <3>3 DEF WellFormed
    <2>4. Forward(GivenBy(queues, preds))
        BY <2>3 DEF Forward
    <2> QED
        BY <1>3, <2>4, DagIs DEF RecordedPlan
<1> QED
    BY <1>2, <1>3

\* The planner's own checks do not refuse a graph.
LEMMA PlanIsValid ==
    ASSUME NEW B, IsPlan(B), queues \in Seq(Queues)
    PROVE  /\ ValidBatches(B)
           /\ B = <<>> <=> queues = <<>>
           /\ B # <<>> => Last(B).queue = Last(queues)
<1>1. PICK n \in Nat : n = Len(B) /\ B \in Seq(Batches) /\ DOMAIN B = 1 .. n
    BY LenProperties DEF IsPlan
<1>2. \A b \in 1 .. n : /\ B[b].first \in 1 .. Len(queues) /\ B[b].last \in 1 .. Len(queues)
                        /\ B[b].preds \in Seq(Nat)
    <2>1. \A b \in 1 .. n : B[b] \in Batches
        BY <1>1, ElementOfSeq
    <2> QED
        BY <2>1 DEF Batches
<1>3. B = <<>> <=> queues = <<>>
    BY DEF IsPlan
<1>4. ASSUME B # <<>>
      PROVE  n \in 1 .. n /\ B[1].first = 1 /\ B[n].last = Len(queues)
    BY <1>1, <1>4, EmptySeq DEF IsPlan
<1>5. ASSUME NEW b \in 1 .. n
      PROVE  /\ B[b].first = IF b = 1 THEN 1 ELSE B[b - 1].last + 1
             /\ B[b].first <= B[b].last
             /\ b = n => B[b].last = Len(queues)
             /\ \A p \in Range(B[b].preds) : p < b
    <2>1. B # <<>>
        BY <1>1
    <2>2. B[b].first = IF b = 1 THEN 1 ELSE B[b - 1].last + 1
        BY <1>1, <1>4, <2>1 DEF IsPlan
    <2>3. B[b].first <= B[b].last /\ (b = n => B[b].last = Len(queues))
        BY <1>1, <1>4, <2>1 DEF IsPlan
    <2>4. \A k \in 1 .. Len(B[b].preds) : B[b].preds[k] \in 1 .. b - 1
        BY <1>1 DEF IsPlan
    <2>5. DOMAIN B[b].preds = 1 .. Len(B[b].preds)
        BY <1>2
    <2>6. \A p \in Range(B[b].preds) : p \in 1 .. b - 1
        BY <2>4, <2>5 DEF Range
    <2> QED
        BY <2>2, <2>3, <2>6
<1>6. ValidBatches(B)
    BY <1>1, <1>3, <1>5 DEF ValidBatches
<1>7. ASSUME B # <<>>
      PROVE  Last(B).queue = Last(queues)
    <2>1. n \in 1 .. n /\ B[n].last = Len(queues)
        BY <1>4, <1>7
    <2>2. B[n].first \in Nat /\ B[n].last \in Nat /\ B[n].first <= B[n].last
        BY <1>2, <1>5, <2>1
    <2>3. \A i \in B[n].first .. B[n].last : queues[i] = B[n].queue
        BY <1>1, <2>1 DEF IsPlan
    <2>4. B[n].last \in B[n].first .. B[n].last
        BY <2>2
    <2> QED
        BY <1>1, <2>1, <2>3, <2>4 DEF Last
<1> QED
    BY <1>3, <1>6, <1>7

\* What is reported to the planner is an edge from an earlier to a later step.
LEMMA HazardListsAre ==
    ASSUME queues \in Seq(Queues), MaxHazards \in Nat, NEW l \in HazardLists
    PROVE  l \in Seq(Nat \X Nat) /\ \A e \in Range(l) : IsHazard(e)
<1>1. PICK n \in Nat : n = Len(queues) /\ DOMAIN queues = 1 .. n
    BY LenProperties
<1>2. PICK E : E = {e \in (1 .. n) \X (1 .. n) : e[1] < e[2]}
    OBVIOUS
<1>3. l \in BoundedSeq(E, MaxHazards)
    BY <1>1, <1>2 DEF HazardLists
<1>4. PICK m \in 0 .. MaxHazards : l \in [1 .. m -> E]
    BY <1>3 DEF BoundedSeq, SeqOf
<1>5. \A e \in E : e \in Nat \X Nat /\ IsHazard(e)
    BY <1>1, <1>2 DEF IsHazard
<1>6. l \in [1 .. m -> Nat \X Nat]
    BY <1>4, <1>5
<1>7. l \in Seq(Nat \X Nat)
    BY <1>6
<1>8. \A e \in Range(l) : e \in E
    BY <1>4 DEF Range
<1> QED
    BY <1>5, <1>7, <1>8

LEMMA PlanGraphKeeps ==
    ASSUME BuildInv, PlanInv, MaxHazards \in Nat, NEW present \in BOOLEAN, PlanGraph(present)
    PROVE  PlanInv'
<1>1. PICK B : B = RecordedPlan
    OBVIOUS
<1>2. PICK fits \in BOOLEAN : fits = (/\ \A i \in DOMAIN preds : WellFormed(i)
                                      /\ ValidBatches(B) /\ PresentationFits(B, present))
    OBVIOUS
<1>3. /\ phase = "building" /\ presenting' = present
      /\ \/ fits /\ phase' = "planned" /\ hazards' \in HazardLists
            /\ plan' = AddResourceDependencies(B, hazards')
         \/ ~ fits /\ phase' = "rejected" /\ hazards' = hazards /\ plan' = plan
      /\ UNCHANGED <<queues, preds, timeline, scopes, sync, asked>>
    BY <1>1, <1>2 DEF PlanGraph, RecordedPlan
<1>4. GivenWell(queues, preds) /\ queues \in Seq(Queues)
    BY DEF BuildInv, Written, GivenWell
<1>5. RecordedPlan' = B
    BY <1>1, <1>3 DEF RecordedPlan, PlanBatches, PlanDag
<1>6. CASE fits
    <2>1. /\ phase' = "planned" /\ hazards' \in HazardLists
          /\ plan' = AddResourceDependencies(B, hazards')
        BY <1>3, <1>6
    <2>2. IsPlan(B) /\ Forward(GivenBy(queues, preds))
        BY <1>1, <1>2, <1>4, <1>6, PlannedWell
    <2>3. PICK l \in HazardLists : l = hazards'
        BY <2>1
    <2>4. l \in Seq(Nat \X Nat) /\ \A e \in Range(l) : IsHazard(e)
        BY <1>4, HazardListsAre
    <2>5. GrownBy(B, plan', Range(l))
        BY <1>4, <2>1, <2>2, <2>3, <2>4, HazardsKeep
    <2>6. PTypes'
        BY <1>3, <2>1, <2>3, <2>4 DEF PlanInv, PTypes, PlannedPhases
    <2>7. PGiven'
        <3>1. IsPlan(B)'
            BY <1>3, <2>2 DEF IsPlan, Batches
        <3>2. \A e \in Range(l) : IsHazard(e)'
            BY <1>3, <2>4 DEF IsHazard
        <3>3. IsPlan(RecordedPlan)'
            BY <1>5, <3>1 DEF IsPlan, Batches
        <3>4. Forward(GivenBy(queues, preds))'
            BY <1>3, <2>2
        <3>5. \A e \in Range(hazards') : IsHazard(e)'
            BY <2>3, <3>2
        <3> QED
            BY <3>3, <3>4, <3>5 DEF PGiven
    <2>8. PGrown'
        BY <1>5, <2>1, <2>3, <2>5 DEF PGrown, GrownBy
    <2> QED
        BY <2>1, <2>6, <2>7, <2>8 DEF PlanInv, PJoined, PScopes, RefusedForCause
<1>7. CASE ~ fits
    <2>1. phase' = "rejected" /\ hazards' = hazards /\ plan' = plan
        BY <1>3, <1>7
    <2>2. PTypes'
        BY <1>3, <2>1 DEF PlanInv, PTypes, PlannedPhases
    <2>3. \/ \E i \in DOMAIN preds : \E p \in Range(preds[i]) : p >= i
          \/ \E i \in DOMAIN preds : ~IsInjective(preds[i])
          \/ present /\ (queues = <<>> \/ Last(queues) # PresentQueue)
        <3>1. CASE \A i \in DOMAIN preds : WellFormed(i)
            <4>1. IsPlan(B)
                BY <1>1, <1>4, <3>1, PlannedWell
            <4>2. ValidBatches(B) /\ (B = <<>> <=> queues = <<>>) /\ (B # <<>> => Last(B).queue = Last(queues))
                BY <1>4, <4>1, PlanIsValid
            <4>3. ~ PresentationFits(B, present)
                BY <1>2, <1>7, <3>1, <4>2
            <4> QED
                BY <4>2, <4>3 DEF PresentationFits
        <3>2. ASSUME NEW i \in DOMAIN preds, ~ WellFormed(i)
              PROVE  (\E p \in Range(preds[i]) : p >= i) \/ ~ IsInjective(preds[i])
            <4>1. IsInjective(preds[i]) => \E p \in Range(preds[i]) : ~ (p < i)
                BY <3>2 DEF WellFormed
            <4>2. i \in Nat /\ \A p \in Range(preds[i]) : p \in Nat
                <5>1. PICK p \in Seq(Seq(Steps)) : p = preds
                    BY DEF BuildInv, Written, GivenWell
                <5>2. i \in 1 .. Len(p) /\ p[i] \in Seq(Steps)
                    BY <5>1
                <5>3. Range(p[i]) \in SUBSET Steps
                    BY <5>2, RangeOfSeq
                <5> QED
                    BY <5>1, <5>2, <5>3 DEF Steps
            <4> QED
                BY <4>1, <4>2
        <3> QED
            BY <3>1, <3>2
    <2>4. RefusedForCause'
        BY <1>3, <2>3 DEF RefusedForCause
    <2> QED
        BY <2>1, <2>2, <2>4 DEF PlanInv, PGiven, PGrown, PJoined, PScopes, PlannedPhases
<1> QED
    BY <1>6, <1>7

-----------------------------------------------------------------------------
(* What comes after planning *)

\* The steps are not planned anew.
LEMMA PlanStays ==
    ASSUME UNCHANGED <<queues, preds, hazards>>
    PROVE  /\ RecordedPlan' = RecordedPlan
           /\ IsPlan(RecordedPlan) => IsPlan(RecordedPlan)'
           /\ (\A e \in Range(hazards) : IsHazard(e)) => (\A e \in Range(hazards) : IsHazard(e))'
           /\ Forward(GivenBy(queues, preds)) => Forward(GivenBy(queues, preds))'
<1>1. RecordedPlan' = RecordedPlan
    BY DEF RecordedPlan, PlanBatches, PlanDag
<1>2. IsPlan(RecordedPlan) => IsPlan(RecordedPlan)'
    BY <1>1 DEF IsPlan, Batches
<1>3. (\A e \in Range(hazards) : IsHazard(e)) => (\A e \in Range(hazards) : IsHazard(e))'
    BY DEF IsHazard
<1> QED
    BY <1>1, <1>2, <1>3

LEMMA OpenScopesKeeps ==
    ASSUME PlanInv, OpenScopes
    PROVE  PlanInv'
<1>1. /\ phase = "planned" /\ phase' = "recorded" /\ plan' = plan
      /\ scopes' = (IF plan = <<>> THEN 1 ELSE Len(plan))
      /\ UNCHANGED <<queues, preds, presenting, timeline, hazards>>
    BY DEF OpenScopes, options
<1>2. PTypes'
    <2>1. plan \in Seq(AnyBatch)
        BY <1>1 DEF PlanInv, PGrown, PlannedPhases, Grown
    <2>2. scopes' \in Nat
        BY <1>1, <2>1, LenProperties
    <2> QED
        BY <1>1, <2>2 DEF PlanInv, PTypes, PlannedPhases
<1>3. PGiven'
    BY <1>1, PlanStays DEF PlanInv, PGiven, PlannedPhases
<1>4. PGrown'
    BY <1>1, PlanStays DEF PlanInv, PGrown, PlannedPhases
<1>5. PJoined' /\ PScopes' /\ RefusedForCause'
    BY <1>1 DEF PJoined, PScopes, RefusedForCause
<1> QED
    BY <1>2, <1>3, <1>4, <1>5 DEF PlanInv

LEMMA PrepareSyncKeeps ==
    ASSUME BuildInv, PlanInv, NEW capable \in BOOLEAN, PrepareSync(capable)
    PROVE  PlanInv'
<1>1. /\ phase = "joined" /\ plan' = plan /\ scopes' = scopes
      /\ phase' = (IF scopes = Len(plan) THEN "ready" ELSE "rejected")
      /\ timeline' = (capable /\ scopes > 1)
      /\ UNCHANGED <<queues, preds, presenting, hazards>>
    BY DEF PrepareSync
<1>2. PTypes
    BY DEF PlanInv
<1>3. Grown(RecordedPlan, plan, Range(hazards)) /\ IsPlan(RecordedPlan)
    BY <1>1 DEF PlanInv, PGrown, PGiven, PlannedPhases
<1>4. plan \in Seq(AnyBatch) /\ Len(RecordedPlan) <= Len(plan) /\ Len(RecordedPlan) \in Nat
    BY <1>3, LenProperties DEF Grown, IsPlan
<1>5. scopes = IF plan = <<>> THEN 1 ELSE Len(plan)
    BY <1>1 DEF PlanInv, PScopes
<1>6. PGiven'
    BY <1>1, PlanStays DEF PlanInv, PGiven, PlannedPhases
<1>7. PGrown'
    BY <1>1, PlanStays DEF PlanInv, PGrown, PlannedPhases
<1>8. CASE plan # <<>>
    <2>1. phase' = "ready"
        BY <1>1, <1>5, <1>8
    <2>2. PTypes'
        BY <1>1, <1>2, <2>1 DEF PTypes, PlannedPhases
    <2>3. PJoined' /\ PScopes' /\ RefusedForCause'
        BY <1>1, <1>8, <2>1 DEF PlanInv, PJoined, PScopes, RefusedForCause
    <2> QED
        BY <1>6, <1>7, <2>2, <2>3 DEF PlanInv
<1>9. CASE plan = <<>>
    <2>1. phase' = "rejected"
        BY <1>1, <1>5, <1>9
    <2>2. PTypes'
        BY <1>1, <1>2, <1>9, <2>1 DEF PTypes, PlannedPhases
    <2>3. queues = <<>>
        <3>1. Len(RecordedPlan) = 0
            BY <1>4, <1>9
        <3>2. RecordedPlan = <<>>
            BY <1>3, <3>1, EmptySeq DEF IsPlan
        <3> QED
            BY <1>3, <3>2 DEF IsPlan
    <2>4. PJoined' /\ PScopes' /\ RefusedForCause'
        BY <1>1, <2>1, <2>3 DEF PJoined, PScopes, RefusedForCause
    <2> QED
        BY <1>6, <1>7, <2>2, <2>4 DEF PlanInv
<1> QED
    BY <1>8, <1>9

\* While the graph is written, nothing is planned. What is collected is the
\* graph unless it names a step that it does not have.
LEMMA WritingKeeps ==
    ASSUME BuildInv, PlanInv, Piping \/ Appending
    PROVE  PlanInv'
<1>1. phase = "building"
    <2>1. Materialize => open # <<>>
        <3>1. Materialize => Len(open) = 1
            BY DEF Materialize
        <3>2. Len(open) = 1 => open # <<>>
            OBVIOUS
        <3> QED
            BY <3>1, <3>2
    <2>2. CloseBranch => open # <<>>
        <3>1. CloseBranch => Len(open) > 1
            BY DEF CloseBranch
        <3>2. Len(open) > 1 => open # <<>>
            OBVIOUS
        <3> QED
            BY <3>1, <3>2
    <2> QED
        BY <2>1, <2>2
        DEF BuildInv, Piping, Appending, Collect, OpenFork, OpenBranch, CloseFork, Pipe, PipeComposite
<1>2. PTypes
    BY DEF PlanInv
<1>3. ASSUME phase' = "building", UNCHANGED <<presenting, timeline, hazards, plan, scopes>>
      PROVE  PlanInv'
    BY <1>1, <1>2, <1>3 DEF PlanInv, PTypes, PGiven, PGrown, PJoined, PScopes, RefusedForCause, PlannedPhases
<1>4. CASE Collect
    <2>1. UNCHANGED <<queues, preds, presenting, timeline, hazards, plan, scopes>>
        BY <1>4 DEF Collect, options
    <2>2. CASE \E i \in DOMAIN preds : \E p \in Range(preds[i]) : p > Len(queues)
        <3>1. phase' = "rejected"
            BY <1>4, <2>2 DEF Collect
        <3>2. PICK i \in DOMAIN preds : \E p \in Range(preds[i]) : p > Len(queues)
            BY <2>2
        <3>0. PICK p \in Range(preds[i]) : p > Len(queues)
            BY <3>2
        <3>3. i \in 1 .. Len(queues) /\ p \in Nat /\ Len(queues) \in Nat
            <4>1. PICK s \in Seq(Seq(Steps)) : s = preds
                BY DEF BuildInv, Written, GivenWell
            <4>2. i \in 1 .. Len(s) /\ s[i] \in Seq(Steps) /\ s # <<>>
                BY <3>2, <4>1
            <4>3. Range(s[i]) \in SUBSET Steps
                BY <4>2, RangeOfSeq
            <4>4. Len(s) = Len(queues)
                BY <4>1, <4>2 DEF BuildInv, Written, GivenWell
            <4> QED
                BY <3>0, <4>1, <4>2, <4>3, <4>4, LenProperties DEF Steps
        <3>4. p >= i
            BY <3>0, <3>3
        <3>5. RefusedForCause'
            BY <2>1, <3>0, <3>2, <3>4 DEF RefusedForCause
        <3> QED
            BY <1>1, <1>2, <2>1, <3>1, <3>5
            DEF PlanInv, PTypes, PGiven, PGrown, PJoined, PScopes, PlannedPhases
    <2>3. CASE ~ \E i \in DOMAIN preds : \E p \in Range(preds[i]) : p > Len(queues)
        <3>1. phase' = phase
            BY <1>4, <2>3 DEF Collect
        <3> QED
            BY <1>1, <1>3, <2>1, <3>1
    <2> QED
        BY <2>2, <2>3
<1>5. CASE OpenFork \/ OpenBranch \/ CloseBranch \/ CloseFork
    <2>1. UNCHANGED vars
        BY <1>5 DEF OpenFork, OpenBranch, CloseBranch, CloseFork
    <2> QED
        BY <1>1, <1>3, <2>1 DEF vars, options
<1>6. CASE Materialize
    <2>1. UNCHANGED <<phase, options, plan, scopes>>
        BY <1>6 DEF Materialize
    <2> QED
        BY <1>1, <1>3, <2>1 DEF options
<1>7. ASSUME NEW q \in Queues, Pipe(q) \/ PipeComposite(q)
      PROVE  PlanInv'
    <2>1. UNCHANGED <<phase, options, plan, scopes>>
        BY <1>7 DEF Pipe, PipeComposite
    <2> QED
        BY <1>1, <1>3, <2>1 DEF options
<1>8. CASE Appending
    <2>1. UNCHANGED <<phase, options, plan, scopes>>
        BY <1>8 DEF Appending, AppendCall, AppendStep, AppendAfter
    <2> QED
        BY <1>1, <1>3, <2>1 DEF options
<1> QED
    BY <1>4, <1>5, <1>6, <1>7, <1>8 DEF Piping

-----------------------------------------------------------------------------
(* The terminal batch *)

LEMMA InOrderHas ==
    ASSUME NEW n \in Nat, NEW S \in SUBSET (1 .. n)
    PROVE  /\ InOrder(S) \in Seq(1 .. n) /\ Range(InOrder(S)) = S
           /\ \A x, y \in S : x # y => Len(InOrder(S)) > 1
<1>1. PICK s : s = InOrder(S)
    OBVIOUS
<1>2. s \in Seq(S) /\ \A x \in S : \E i \in 1 .. Len(s) : s[i] = x
    BY <1>1, InOrderFacts
<1>3. s \in Seq(1 .. n)
    BY <1>2, SeqOfMore
<1>4. DOMAIN s = 1 .. Len(s) /\ \A i \in 1 .. Len(s) : s[i] \in S
    BY <1>2
<1>5. Range(s) = S
    BY <1>2, <1>4 DEF Range
<1>6. ASSUME NEW x \in S, NEW y \in S, x # y
      PROVE  Len(s) > 1
    <2>1. PICK i \in 1 .. Len(s) : s[i] = x
        BY <1>2
    <2>2. PICK j \in 1 .. Len(s) : s[j] = y
        BY <1>2
    <2>3. i # j /\ Len(s) \in Nat
        BY <1>2, <1>6, <2>1, <2>2, LenProperties
    <2> QED
        BY <2>3
<1> QED
    BY <1>1, <1>3, <1>5, <1>6

\* The terminal batches are those nobody comes after, the last one among them.
LEMMA SinksAre ==
    ASSUME NEW P, P \in Seq(AnyBatch), Earlier(P), NEW n \in Nat, n = Len(P),
           NEW s, s = TerminalBatches(P)
    PROVE  /\ s \in Seq(1 .. n)
           /\ \A b \in 1 .. n : b \notin Range(s) => \E d \in b + 1 .. n : Follows(P, b, d)
           /\ n # 0 => n \in Range(s)
           /\ \A x, y \in Range(s) : x # y => Len(s) > 1
<1>1. DOMAIN P = 1 .. n
    BY EarlierBatches
<1>2. PICK S : S = {b \in 1 .. n : \A d \in 1 .. n : ~ Contains(P[d].preds, b)}
    OBVIOUS
<1>3. S \in SUBSET (1 .. n) /\ s = InOrder(S)
    BY <1>1, <1>2 DEF TerminalBatches
<1>4. s \in Seq(1 .. n) /\ Range(s) = S /\ \A x, y \in S : x # y => Len(s) > 1
    BY <1>3, InOrderHas
<1>5. ASSUME NEW b \in 1 .. n, NEW d \in 1 .. n, Contains(P[d].preds, b)
      PROVE  d \in b + 1 .. n /\ Follows(P, b, d)
    <2>1. PICK k \in 1 .. Len(P[d].preds) : P[d].preds[k] = b
        BY <1>5 DEF Contains
    <2>2. b \in 1 .. d - 1
        BY <2>1 DEF Earlier
    <2> QED
        BY <2>1, <2>2 DEF Follows
<1>6. ASSUME NEW b \in 1 .. n, b \notin S
      PROVE  \E d \in b + 1 .. n : Follows(P, b, d)
    <2>1. PICK d \in 1 .. n : Contains(P[d].preds, b)
        BY <1>2, <1>6
    <2> QED
        BY <1>5, <2>1
<1>7. n # 0 => n \in S
    <2> SUFFICES ASSUME n # 0, n \notin S
                 PROVE  FALSE
        OBVIOUS
    <2>1. n \in 1 .. n
        OBVIOUS
    <2>2. \E d \in n + 1 .. n : Follows(P, n, d)
        BY <1>6, <2>1
    <2> QED
        BY <2>2
<1> QED
    BY <1>4, <1>6, <1>7

\* One more batch comes after all that nobody came after.
LEMMA JoinAppended ==
    ASSUME NEW B, NEW P, NEW E, Grown(B, P, E), NEW n \in Nat, n = Len(P),
           NEW j \in AnyBatch, j.first > j.last, j.preds = TerminalBatches(P),
           NEW Q, Q = Append(P, j), Len(B) \in Nat
    PROVE  /\ Grown(B, Q, E) /\ Len(Q) = n + 1 /\ Joined(Q)
           /\ \A c \in 1 .. Len(B) : NoMore(B, P, E, c) => NoMore(B, Q, E, c)
<1>1. P \in Seq(AnyBatch) /\ Earlier(P) /\ Len(B) <= n
    BY DEF Grown
<1>2. PICK s : s = TerminalBatches(P)
    OBVIOUS
<1>3. /\ s \in Seq(1 .. n)
      /\ \A b \in 1 .. n : b \notin Range(s) => \E d \in b + 1 .. n : Follows(P, b, d)
    BY <1>1, <1>2, SinksAre
<1>4. /\ Q \in Seq(AnyBatch) /\ Len(Q) = n + 1 /\ Q[n + 1] = j
      /\ \A b \in 1 .. n : Q[b] = P[b]
    BY <1>1
<1>5. DOMAIN s = 1 .. Len(s) /\ \A k \in 1 .. Len(s) : s[k] \in 1 .. n
    BY <1>3
<1>6. Earlier(Q)
    <2> SUFFICES ASSUME NEW b \in 1 .. n + 1, NEW k \in 1 .. Len(Q[b].preds)
                 PROVE  Q[b].preds[k] \in 1 .. b - 1
        BY <1>4 DEF Earlier
    <2>1. CASE b = n + 1
        BY <1>2, <1>4, <1>5, <2>1
    <2>2. CASE b # n + 1
        BY <1>1, <1>4, <2>2 DEF Earlier
    <2> QED
        BY <2>1, <2>2
<1>7. \A c \in 1 .. n : \A b : Follows(Q, b, c) <=> Follows(P, b, c)
    BY <1>4 DEF Follows
<1>8. \A b \in Range(s) : Follows(Q, b, n + 1)
    BY <1>2, <1>4, <1>5 DEF Follows, Range
<1>9. \A c \in 1 .. Len(B) : c \in 1 .. n
    BY <1>1
<1>10. Grown(B, Q, E)
    <2>1. \A b \in 1 .. Len(B) : Q[b].first = B[b].first /\ Q[b].last = B[b].last
        BY <1>4, <1>9 DEF Grown
    <2>2. ASSUME NEW b \in Len(B) + 1 .. Len(Q)
          PROVE  Q[b].first > Q[b].last
        <3>1. CASE b = n + 1
            BY <1>4, <3>1
        <3>2. CASE b # n + 1
            <4>1. b \in Len(B) + 1 .. n /\ b \in 1 .. n
                BY <1>4, <3>2
            <4> QED
                BY <1>4, <4>1 DEF Grown
        <3> QED
            BY <3>1, <3>2
    <2>3. \A b, c \in 1 .. Len(B) : Follows(B, b, c) => Follows(Q, b, c)
        BY <1>7, <1>9 DEF Grown
    <2>4. \A e \in E : \A b, c \in 1 .. Len(B) : Between(B, b, c, e) => b = c \/ Follows(Q, b, c)
        BY <1>7, <1>9 DEF Grown
    <2>5. Len(B) <= Len(Q)
        BY <1>1, <1>4
    <2> QED
        BY <1>4, <1>6, <2>1, <2>2, <2>3, <2>4, <2>5 DEF Grown
<1>11. Joined(Q)
    <2> SUFFICES ASSUME NEW b \in 1 .. n
                 PROVE  \E d \in b + 1 .. n + 1 : Follows(Q, b, d)
        BY <1>4 DEF Joined
    <2>1. CASE b \in Range(s)
        BY <1>8, <2>1
    <2>2. CASE b \notin Range(s)
        <3>1. PICK d \in b + 1 .. n : Follows(P, b, d)
            BY <1>3, <2>2
        <3>2. d \in 1 .. n /\ d \in b + 1 .. n + 1
            OBVIOUS
        <3> QED
            BY <1>7, <3>1, <3>2
    <2> QED
        BY <2>1, <2>2
<1>12. \A c \in 1 .. Len(B) : NoMore(B, P, E, c) => NoMore(B, Q, E, c)
    BY <1>7, <1>9 DEF NoMore
<1> QED
    BY <1>4, <1>10, <1>11, <1>12

\* The last batch comes after all others that nobody came after.
LEMMA LastJoins ==
    ASSUME NEW B, NEW P, NEW E, Grown(B, P, E), NEW n \in Nat, n = Len(P), n # 0,
           NEW Q, MorePreds(P, Q, n, InOrder(Range(TerminalBatches(P)) \ {n})), Len(B) \in Nat
    PROVE  /\ Grown(B, Q, E) /\ Len(Q) = n /\ Joined(Q)
           /\ \A c \in 1 .. Len(B) : NoMore(B, P, E, c) => NoMore(B, Q, E, c) \/ c = n
<1>1. P \in Seq(AnyBatch) /\ Earlier(P) /\ Len(B) <= n
    BY DEF Grown
<1>2. PICK s : s = TerminalBatches(P)
    OBVIOUS
<1>3. /\ s \in Seq(1 .. n)
      /\ \A b \in 1 .. n : b \notin Range(s) => \E d \in b + 1 .. n : Follows(P, b, d)
    BY <1>1, <1>2, SinksAre
<1>4. PICK o : o = InOrder(Range(s) \ {n})
    OBVIOUS
<1>5. o \in Seq(1 .. n - 1) /\ Range(o) = Range(s) \ {n}
    <2>1. Range(s) \in SUBSET (1 .. n)
        BY <1>3, RangeOfSeq
    <2>2. Range(s) \ {n} \in SUBSET (1 .. n - 1) /\ n - 1 \in Nat
        BY <2>1
    <2> QED
        BY <1>4, <2>2, InOrderHas
<1>6. n \in 1 .. n /\ n \in 1 .. Len(P) /\ MorePreds(P, Q, n, o)
    BY <1>2, <1>4
<1>7. /\ SameBatches(P, Q)
      /\ \A c \in 1 .. n : \A b : Follows(Q, b, c) <=> Follows(P, b, c) \/ (c = n /\ b \in Range(o))
    BY <1>1, <1>5, <1>6, MorePredsAre
<1>8. \A c \in 1 .. Len(B) : c \in 1 .. n
    BY <1>1
<1>9. Q \in Seq(AnyBatch) /\ Earlier(Q) /\ Len(Q) = n
    BY <1>7 DEF SameBatches
<1>10. Grown(B, Q, E)
    <2>1. \A b \in 1 .. n : Q[b].first = P[b].first /\ Q[b].last = P[b].last
        BY <1>7 DEF SameBatches
    <2>2. \A b \in 1 .. Len(B) : Q[b].first = B[b].first /\ Q[b].last = B[b].last
        BY <1>8, <2>1 DEF Grown
    <2>3. \A b \in Len(B) + 1 .. Len(Q) : Q[b].first > Q[b].last
        <3>1. \A b \in Len(B) + 1 .. n : b \in 1 .. n
            OBVIOUS
        <3> QED
            BY <1>9, <2>1, <3>1 DEF Grown
    <2>4. \A b, c \in 1 .. Len(B) : Follows(B, b, c) => Follows(Q, b, c)
        BY <1>7, <1>8 DEF Grown
    <2>5. \A e \in E : \A b, c \in 1 .. Len(B) : Between(B, b, c, e) => b = c \/ Follows(Q, b, c)
        BY <1>7, <1>8 DEF Grown
    <2> QED
        BY <1>1, <1>9, <2>2, <2>3, <2>4, <2>5 DEF Grown
<1>11. Joined(Q)
    <2> SUFFICES ASSUME NEW b \in 1 .. n - 1
                 PROVE  \E d \in b + 1 .. n : Follows(Q, b, d)
        BY <1>9 DEF Joined
    <2>1. b \in 1 .. n
        OBVIOUS
    <2>2. CASE b \in Range(s)
        <3>1. b \in Range(o) /\ n \in b + 1 .. n
            BY <1>5, <2>2
        <3> QED
            BY <1>6, <1>7, <3>1
    <2>3. CASE b \notin Range(s)
        <3>1. PICK d \in b + 1 .. n : Follows(P, b, d)
            BY <1>3, <2>1, <2>3
        <3>2. d \in 1 .. n
            OBVIOUS
        <3> QED
            BY <1>7, <3>1, <3>2
    <2> QED
        BY <2>2, <2>3
<1>12. \A c \in 1 .. Len(B) : NoMore(B, P, E, c) => NoMore(B, Q, E, c) \/ c = n
    BY <1>7, <1>8 DEF NoMore
<1> QED
    BY <1>9, <1>10, <1>11, <1>12

LEMMA PrepareTerminalKeeps ==
    ASSUME BuildInv, PlanInv, PlanAssumption, PrepareTerminal
    PROVE  PlanInv'
<1>1. PICK B, n, E, s, joins :
        /\ B = RecordedPlan /\ n = Len(plan) /\ E = Range(hazards) /\ s = TerminalBatches(plan)
        /\ joins = (preds # <<>> /\ ~ presenting /\ Len(s) > 1)
    OBVIOUS
<1>2. /\ phase = "recorded" /\ phase' = "joined"
      /\ plan' = IF joins THEN Append(plan, Batch(DefaultQueue, Len(queues) + 1, Len(queues), s))
                 ELSE IF preds # <<>> /\ presenting
                 THEN [plan EXCEPT ![n].preds = @ \o InOrder(Range(s) \ {n})]
                 ELSE plan
      /\ scopes' = (IF joins THEN scopes + 1 ELSE scopes)
      /\ UNCHANGED <<queues, preds, presenting, timeline, hazards>>
    BY <1>1 DEF PrepareTerminal, options
<1>3. /\ IsPlan(B) /\ Grown(B, plan, E) /\ n = Len(B)
      /\ \A c \in 1 .. Len(B) : NoMore(B, plan, E, c) \/ (presenting /\ preds # <<>> /\ c = n)
      /\ scopes = IF plan = <<>> THEN 1 ELSE n
    BY <1>1, <1>2 DEF PlanInv, PGiven, PGrown, PScopes, PlannedPhases
<1>4. n \in Nat /\ plan \in Seq(AnyBatch) /\ Earlier(plan) /\ Len(B) \in Nat
    BY <1>1, <1>3, LenProperties DEF Grown
<1>5. PTypes
    BY DEF PlanInv
<1>6. queues \in Seq(Queues) /\ (preds # <<>> => Len(preds) = Len(queues)) /\ preds \in Seq(Seq(Steps))
    BY DEF BuildInv, Written, GivenWell
<1>7. PGiven'
    BY <1>2, PlanStays DEF PlanInv, PGiven, PlannedPhases
<1>8. RecordedPlan' = B /\ Range(hazards') = E
    BY <1>1, <1>2, PlanStays
<1>9. RefusedForCause'
    BY <1>2 DEF RefusedForCause
<1>10. ASSUME Grown(B, plan', E), Joined(plan'), scopes' \in Nat,
              scopes' = (IF plan' = <<>> THEN 1 ELSE Len(plan')), preds = <<>> => Len(plan') = Len(B),
              \A c \in 1 .. Len(B) :
                NoMore(B, plan', E, c) \/ (presenting /\ preds # <<>> /\ c = Len(plan'))
       PROVE  PlanInv'
    <2>1. PTypes'
        BY <1>2, <1>5, <1>10 DEF PTypes, PlannedPhases
    <2>2. PGrown'
        BY <1>2, <1>8, <1>10 DEF PGrown, PlannedPhases
    <2>3. PJoined' /\ PScopes'
        BY <1>2, <1>10 DEF PJoined, PScopes
    <2> QED
        BY <1>7, <1>9, <2>1, <2>2, <2>3 DEF PlanInv
<1>11. scopes \in Nat
    BY <1>5 DEF PTypes
<1>12. CASE joins
    <2>1. plan # <<>> /\ n # 0
        <3>1. /\ s \in Seq(1 .. n) /\ Len(s) > 1
            BY <1>1, <1>4, <1>12, SinksAre
        <3>2. s[1] \in 1 .. n
            <4>1. Len(s) \in Nat
                BY <3>1, LenProperties
            <4>2. 1 \in 1 .. Len(s)
                BY <3>1, <4>1
            <4> QED
                BY <3>1, <4>2, ElementOfSeq
        <3>3. n # 0
            BY <1>4, <3>2
        <3> QED
            BY <1>1, <3>3
    <2>2. PICK m \in Nat : m = Len(queues)
        BY <1>6, LenProperties
    <2>3. PICK j : j = Batch(DefaultQueue, m + 1, m, s)
        OBVIOUS
    <2>4. s \in Seq(1 .. n)
        BY <1>1, <1>4, SinksAre
    <2>5. s \in Seq(Nat)
        <3>1. 1 .. n \subseteq Nat
            BY <1>4
        <3> QED
            BY <2>4, <3>1, SeqOfMore
    <2>6. j \in AnyBatch /\ j.first > j.last /\ j.preds = s
        <3>1. DefaultQueue \in Queues
            BY DEF PlanAssumption
        <3> QED
            BY <2>2, <2>3, <2>5, <3>1 DEF Batch, AnyBatch
    <2>7. plan' = Append(plan, j)
        BY <1>2, <1>12, <2>2, <2>3
    <2>8. /\ Grown(B, plan', E) /\ Len(plan') = n + 1 /\ Joined(plan')
          /\ \A c \in 1 .. Len(B) : NoMore(B, plan, E, c) => NoMore(B, plan', E, c)
        <3>1. PICK Q : Q = plan'
            OBVIOUS
        <3>2. PICK P : P = plan
            OBVIOUS
        <3>3. /\ Grown(B, P, E) /\ n = Len(P) /\ j.preds = TerminalBatches(P)
              /\ Q = Append(P, j) /\ Len(B) \in Nat
            BY <1>1, <1>3, <1>4, <2>6, <2>7, <3>1, <3>2
        <3>4. /\ Grown(B, Q, E) /\ Joined(Q)
              /\ \A c \in 1 .. Len(B) : NoMore(B, P, E, c) => NoMore(B, Q, E, c)
            BY <1>4, <2>6, <3>3, JoinAppended
        <3>5. Len(Q) = n + 1
            BY <1>4, <2>6, <3>2, <3>3
        <3> QED
            BY <3>1, <3>2, <3>4, <3>5
    <2>9. plan' # <<>> /\ scopes' = Len(plan')
        BY <1>2, <1>3, <1>4, <1>12, <2>1, <2>8
    <2>10. \A c \in 1 .. Len(B) : NoMore(B, plan', E, c)
        BY <1>1, <1>3, <1>12, <2>8
    <2>11. preds # <<>> /\ scopes' \in Nat
        <3>1. preds # <<>>
            BY <1>1, <1>12
        <3>2. scopes' = scopes + 1
            BY <1>2, <1>12
        <3> QED
            BY <1>11, <3>1, <3>2
    <2> QED
        BY <1>10, <2>8, <2>9, <2>10, <2>11
<1>13. CASE ~ joins /\ preds # <<>> /\ presenting
    <2>1. MorePreds(plan, plan', n, InOrder(Range(s) \ {n}))
        BY <1>2, <1>13 DEF MorePreds
    <2>2. n # 0
        <3>1. queues # <<>>
            BY <1>6, <1>13, EmptySeq
        <3>2. B # <<>>
            BY <1>3, <3>1 DEF IsPlan
        <3> QED
            BY <1>3, <3>2, EmptySeq DEF IsPlan
    <2>3. /\ Grown(B, plan', E) /\ Len(plan') = n /\ Joined(plan')
          /\ \A c \in 1 .. Len(B) : NoMore(B, plan, E, c) => NoMore(B, plan', E, c) \/ c = n
        <3>1. PICK Q : Q = plan'
            OBVIOUS
        <3>2. PICK P : P = plan
            OBVIOUS
        <3>3. MorePreds(P, Q, n, InOrder(Range(TerminalBatches(P)) \ {n}))
            BY <1>1, <2>1, <3>1, <3>2
        <3>4. /\ Grown(B, Q, E) /\ Len(Q) = n /\ Joined(Q)
              /\ \A c \in 1 .. Len(B) : NoMore(B, P, E, c) => NoMore(B, Q, E, c) \/ c = n
            BY <1>1, <1>3, <1>4, <2>2, <3>2, <3>3, LastJoins
        <3> QED
            BY <3>1, <3>2, <3>4
    <2>4. plan # <<>> /\ plan' # <<>>
        BY <1>1, <2>2, <2>3
    <2>5. \A c \in 1 .. Len(B) :
                NoMore(B, plan', E, c) \/ (presenting /\ preds # <<>> /\ c = Len(plan'))
        BY <1>3, <1>13, <2>3
    <2>6. scopes' = Len(plan')
        BY <1>2, <1>3, <1>13, <2>3, <2>4
    <2> QED
        BY <1>2, <1>10, <1>11, <1>13, <2>3, <2>4, <2>5, <2>6
<1>14. CASE ~ joins /\ ~ (preds # <<>> /\ presenting)
    <2>1. plan' = plan /\ scopes' = scopes
        BY <1>2, <1>14
    <2>2. Joined(plan)
        <3> SUFFICES ASSUME NEW b \in 1 .. n - 1
                     PROVE  \E d \in b + 1 .. n : Follows(plan, b, d)
            BY <1>1 DEF Joined
        <3>1. b \in 1 .. n /\ n \in 1 .. n /\ b # n /\ b + 1 \in b + 1 .. n /\ b + 1 \in 1 .. n
            BY <1>4
        <3>2. CASE preds = <<>>
            <4>1. B = PlanBatches
                BY <1>1, <3>2 DEF RecordedPlan
            <4>2. B[b + 1].preds = <<b>>
                <5>1. \A c \in 1 .. n : B[c].preds = IF c = 1 THEN <<>> ELSE <<c - 1>>
                    BY <1>3, <1>6, <4>1, PlanOfChain
                <5>2. PICK c \in 1 .. n : c = b + 1 /\ c # 1 /\ c - 1 = b
                    BY <3>1
                <5>3. B[c].preds = <<c - 1>>
                    BY <5>1, <5>2
                <5> QED
                    BY <5>2, <5>3
            <4>3. Follows(B, b, b + 1)
                BY <4>2 DEF Follows
            <4>4. Follows(plan, b, b + 1)
                BY <1>3, <3>1, <4>3 DEF Grown
            <4> QED
                BY <3>1, <4>4
        <3>3. CASE preds # <<>>
            <4>1. /\ \A c \in 1 .. n : c \notin Range(s) => \E d \in c + 1 .. n : Follows(plan, c, d)
                  /\ n # 0 => n \in Range(s)
                  /\ \A x, y \in Range(s) : x # y => Len(s) > 1
                BY <1>1, <1>4, SinksAre
            <4>2. ~ Len(s) > 1
                BY <1>1, <1>14, <3>3
            <4>3. n \in Range(s)
                BY <1>4, <3>1, <4>1
            <4>4. b \notin Range(s)
                BY <3>1, <4>1, <4>2, <4>3
            <4> QED
                BY <3>1, <4>1, <4>4
        <3> QED
            BY <3>2, <3>3
    <2> QED
        BY <1>1, <1>3, <1>10, <1>11, <2>1, <2>2
<1> QED
    BY <1>12, <1>13, <1>14

\* What holds at the beginning, and what every step keeps.
LEMMA PlanStarts == BuilderInit => PlanInv
<1> SUFFICES ASSUME BuilderInit
             PROVE  PlanInv
    OBVIOUS
<1>1. /\ phase = "building" /\ presenting = FALSE /\ timeline = FALSE /\ hazards = <<>>
      /\ plan = <<>> /\ scopes = 0
    BY DEF BuilderInit, Init
<1>2. PTypes
    <2>1. <<>> \in Seq(Nat \X Nat)
        OBVIOUS
    <2>2. {presenting, timeline} \subseteq BOOLEAN
        BY <1>1
    <2> QED
        BY <1>1, <2>1, <2>2 DEF PTypes, PlannedPhases
<1> QED
    BY <1>1, <1>2 DEF PlanInv, PGiven, PGrown, PJoined, PScopes, RefusedForCause, PlannedPhases

LEMMA PlanStep ==
    ASSUME BuildInv, PlanInv, [BuilderNext]_<<vars, builderVars>>
    PROVE  PlanInv'
<1>1. PlanAssumption /\ MaxHazards \in Nat
    BY PlanAssumption DEF PlanAssumption
<1>2. CASE Piping \/ Appending
    BY <1>2, WritingKeeps
<1>3. CASE Starting
    <2>1. CASE \E present \in BOOLEAN : PlanGraph(present)
        BY <1>1, <2>1, PlanGraphKeeps
    <2>2. CASE OpenScopes
        BY <2>2, OpenScopesKeeps
    <2>3. CASE PrepareTerminal
        BY <1>1, <2>3, PrepareTerminalKeeps
    <2>4. CASE \E capable \in BOOLEAN : PrepareSync(capable)
        BY <2>4, PrepareSyncKeeps
    <2> QED
        BY <1>3, <2>1, <2>2, <2>3, <2>4 DEF Starting, StartGraph
<1>4. CASE UNCHANGED <<vars, builderVars>>
    <2>1. UNCHANGED <<queues, preds, phase, presenting, timeline, hazards, plan, scopes>>
        BY <1>4 DEF vars, options
    <2>2. PGiven'
        BY <2>1, PlanStays DEF PlanInv, PGiven
    <2>3. PGrown'
        BY <2>1, PlanStays DEF PlanInv, PGrown
    <2>4. PTypes' /\ PJoined' /\ PScopes' /\ RefusedForCause'
        BY <2>1 DEF PlanInv, PTypes, PJoined, PScopes, RefusedForCause
    <2> QED
        BY <2>2, <2>3, <2>4 DEF PlanInv
<1> QED
    BY <1>2, <1>3, <1>4 DEF BuilderNext

\* A graph is refused for a reason (dynamic_pass_graph_sender, plan_dag and
\* prepare_presentation): it names a later step or one step twice, it presents
\* and does not fit the presenter, or it has no steps.
THEOREM RefusalsHaveACause == BuilderSpec => []RefusedForCause
<1>1. BuilderInit => BuildInv /\ PlanInv
    BY BuildStarts, PlanStarts
<1>2. BuildInv /\ PlanInv /\ [BuilderNext]_<<vars, builderVars>> => BuildInv' /\ PlanInv'
    BY BuildStep, PlanStep
<1>3. BuildInv /\ PlanInv => RefusedForCause
    BY DEF PlanInv
<1> QED
    BY <1>1, <1>2, <1>3, PTL DEF BuilderSpec

-----------------------------------------------------------------------------
(* What the plan keeps *)

\* What holds of a graph that is ready, in the words of the planner: B is what
\* the planner made of the steps, n how many there are.
ReadyGraph(B, n) ==
    /\ BuildInv /\ PlanInv /\ phase = "ready"
    /\ B = RecordedPlan /\ n = Len(queues)

LEMMA ReadyFacts ==
    ASSUME NEW B, NEW n, ReadyGraph(B, n)
    PROVE  /\ n \in Nat /\ queues \in Seq(Queues) /\ IsPlan(B) /\ Len(B) \in Nat
           /\ GivenWell(queues, preds) /\ Forward(GivenBy(queues, preds))
           /\ Drawn(queues, preds, <<>>) = GivenBy(queues, preds)
           /\ asked \in SUBSET (Steps \X (1 .. n)) /\ GivenBy(queues, preds) \subseteq asked
           /\ \A e \in asked : Covers(GivenBy(queues, preds), <<e[2]>>, {e[1]})
           /\ \A e \in Range(hazards) : IsHazard(e)
           /\ Grown(B, plan, Range(hazards)) /\ plan \in Seq(AnyBatch) /\ Earlier(plan)
           /\ Joined(plan) /\ plan # <<>> /\ Len(plan) \in Nat \ {0}
           /\ Len(B) <= Len(plan) /\ DOMAIN plan = 1 .. Len(plan)
           /\ \A c \in 1 .. Len(B) :
                NoMore(B, plan, Range(hazards), c) \/ (presenting /\ preds # <<>> /\ c = Len(plan))
<1>1. /\ phase = "ready" /\ phase \in PlannedPhases /\ B = RecordedPlan /\ n = Len(queues)
      /\ BuildInv /\ PlanInv
    BY DEF ReadyGraph, PlannedPhases
<1>2. /\ GivenWell(queues, preds) /\ AskedWell(queues, preds, open, asked)
      /\ CoverWell(queues, preds, open, asked) /\ open = <<>>
    BY <1>1 DEF BuildInv, Written
<1>3. /\ IsPlan(B) /\ Forward(GivenBy(queues, preds)) /\ \A e \in Range(hazards) : IsHazard(e)
    BY <1>1 DEF PlanInv, PGiven
<1>4. /\ Grown(B, plan, Range(hazards))
      /\ \A c \in 1 .. Len(B) :
            NoMore(B, plan, Range(hazards), c) \/ (presenting /\ preds # <<>> /\ c = Len(plan))
    BY <1>1 DEF PlanInv, PGrown
<1>5. Joined(plan) /\ plan # <<>>
    BY <1>1 DEF PlanInv, PJoined, PScopes
<1>6. queues \in Seq(Queues) /\ n \in Nat
    BY <1>1, <1>2, LenProperties DEF GivenWell
<1>7. Drawn(queues, preds, <<>>) = GivenBy(queues, preds)
    BY DEF Drawn, GivenBy
<1>8. LastStep(queues, open) = n
    BY <1>1, <1>2 DEF LastStep
<1>9. asked \in SUBSET (Steps \X (1 .. n)) /\ GivenBy(queues, preds) \subseteq asked
    BY <1>2, <1>7, <1>8 DEF AskedWell
<1>10. \A e \in asked : Covers(GivenBy(queues, preds), <<e[2]>>, {e[1]})
    BY <1>2, <1>3, <1>7 DEF CoverWell
<1>11. plan \in Seq(AnyBatch) /\ Earlier(plan) /\ Len(B) <= Len(plan) /\ DOMAIN plan = 1 .. Len(plan)
    BY <1>4, EarlierBatches DEF Grown
<1>12. Len(B) \in Nat /\ Len(plan) \in Nat \ {0}
    BY <1>3, <1>5, <1>11, LenProperties, EmptySeq DEF IsPlan
<1> QED
    BY <1>2, <1>3, <1>4, <1>5, <1>6, <1>7, <1>9, <1>10, <1>11, <1>12

\* Of two steps of which one was given as coming before the other, both are in
\* one batch or the planner made an edge between theirs.
LEMMA GivenIsFollowed ==
    ASSUME NEW B, NEW n, ReadyGraph(B, n), NEW f \in GivenBy(queues, preds)
    PROVE  /\ f[1] \in 1 .. n /\ f[2] \in 1 .. n /\ f[1] < f[2]
           /\ \A x, y \in 1 .. Len(B) :
                Holds(B, x, f[1]) /\ Holds(B, y, f[2]) => x = y \/ Follows(B, x, y)
<1>1. /\ n \in Nat /\ queues \in Seq(Queues) /\ IsPlan(B) /\ Len(B) \in Nat
      /\ GivenWell(queues, preds) /\ Forward(GivenBy(queues, preds))
      /\ GivenBy(queues, preds) \subseteq asked /\ asked \in SUBSET (Steps \X (1 .. n))
    BY ReadyFacts
<1>2. f[1] \in 1 .. n /\ f[2] \in 1 .. n /\ f[1] < f[2]
    <2>1. f \in Steps \X (1 .. n) /\ f[1] < f[2]
        BY <1>1 DEF Forward
    <2> QED
        BY <1>1, <2>1 DEF Steps
<1>3. \A b \in 1 .. Len(B) : B[b].first \in Nat /\ B[b].last \in Nat
    <2>1. \A b \in 1 .. Len(B) : B[b] \in Batches
        BY <1>1, ElementOfSeq DEF IsPlan
    <2> QED
        BY <2>1 DEF Batches
<1>4. ASSUME NEW x \in 1 .. Len(B), NEW y \in 1 .. Len(B), Holds(B, x, f[1]), Holds(B, y, f[2])
      PROVE  x = y \/ Follows(B, x, y)
    <2>1. CASE preds = <<>>
        <3>1. f[1] = f[2] - 1
            BY <2>1 DEF GivenBy
        <3>2. B = PlanBatches
            BY <2>1 DEF ReadyGraph, RecordedPlan
        <3>3. CASE Holds(B, y, f[1])
            BY <1>1, <1>2, <1>4, <3>3, StepsInOrder
        <3>4. CASE ~ Holds(B, y, f[1])
            <4>1. B[y].first = f[2]
                BY <1>2, <1>3, <1>4, <3>1, <3>4 DEF Holds
            <4>2. y # 1
                <5>1. B # <<>>
                    BY <1>1
                <5> QED
                    BY <1>1, <1>2, <3>1, <4>1, <5>1 DEF IsPlan
            <4>3. PICK z \in 1 .. Len(B) : z = y - 1
                BY <1>1, <4>2
            <4>4. B[y].first = B[z].last + 1 /\ B[z].first <= B[z].last
                BY <1>1, <4>2, <4>3 DEF IsPlan
            <4>5. Holds(B, z, f[1])
                BY <1>2, <1>3, <3>1, <4>1, <4>3, <4>4 DEF Holds
            <4>6. x = z
                <5>1. f[1] <= f[1] /\ f[1] = f[1]
                    BY <1>2
                <5> QED
                    BY <1>1, <1>4, <4>5, <5>1, StepsInOrder
            <4>7. B[y].preds = <<y - 1>>
                BY <1>1, <3>2, <4>2, PlanOfChain
            <4>8. Follows(B, z, y)
                BY <4>3, <4>7 DEF Follows
            <4> QED
                BY <4>6, <4>8
        <3> QED
            BY <3>3, <3>4
    <2>2. CASE preds # <<>>
        <3>1. B = PlanDag
            BY <2>2 DEF ReadyGraph, RecordedPlan
        <3>2. \E k \in 1 .. Len(preds[f[2]]) : preds[f[2]][k] = f[1]
            BY <2>2 DEF GivenBy
        <3>3. Len(B) = n /\ \A b \in 1 .. n : B[b].first = b /\ B[b].last = b /\ B[b].preds = preds[b]
            BY <1>1, <2>2, <3>1, DagIs DEF ReadyGraph
        <3>4. x = f[1] /\ y = f[2]
            BY <1>2, <1>4, <3>3 DEF Holds
        <3> QED
            BY <1>2, <3>2, <3>3, <3>4 DEF Follows
    <2> QED
        BY <2>1, <2>2
<1> QED
    BY <1>2, <1>4

\* The steps of a batch and of those that end before it are closed under the
\* edges that were given.
LEMMA EndedIsClosed ==
    ASSUME NEW B, NEW n, ReadyGraph(B, n), NEW d \in 1 .. Len(B), NEW S,
           S = {i \in 1 .. n : BatchOf(plan, i) = d \/ BatchOf(plan, i) \in Ancestors[d]}
    PROVE  Closed(GivenBy(queues, preds), S)
<1>1. /\ n \in Nat /\ n = Len(queues) /\ queues \in Seq(Queues) /\ IsPlan(B) /\ Len(B) \in Nat
      /\ Grown(B, plan, Range(hazards)) /\ plan \in Seq(AnyBatch) /\ Earlier(plan)
      /\ Len(plan) \in Nat /\ Len(B) <= Len(plan)
    BY ReadyFacts DEF ReadyGraph
<1> SUFFICES ASSUME NEW f \in GivenBy(queues, preds), f[2] \in S
             PROVE  f[1] \in S
    BY DEF Closed
<1>2. /\ f[1] \in 1 .. n /\ f[2] \in 1 .. n
      /\ \A x, y \in 1 .. Len(B) :
            Holds(B, x, f[1]) /\ Holds(B, y, f[2]) => x = y \/ Follows(B, x, y)
    BY GivenIsFollowed
<1>3. PICK x \in 1 .. Len(B) : x = BatchOf(plan, f[1]) /\ Holds(B, x, f[1])
    BY <1>1, <1>2, BatchOfIs
<1>4. PICK y \in 1 .. Len(B) : y = BatchOf(plan, f[2]) /\ Holds(B, y, f[2])
    BY <1>1, <1>2, BatchOfIs
<1>5. x = y \/ Follows(plan, x, y)
    BY <1>1, <1>2, <1>3, <1>4 DEF Grown
<1>6. d \in 1 .. Len(plan) /\ y \in 1 .. Len(plan)
    BY <1>1
<1>7. y = d \/ y \in Ancestors[d]
    BY <1>4
<1>8. Follows(plan, x, y) => x \in Ancestors[y]
    BY <1>1, <1>6, AncestorsFacts
<1>9. y \in Ancestors[d] => Ancestors[y] \subseteq Ancestors[d]
    BY <1>1, <1>6, AncestorsFacts
<1>10. x = d \/ x \in Ancestors[d]
    BY <1>5, <1>7, <1>8, <1>9
<1> QED
    BY <1>2, <1>3, <1>10

LEMMA ReadyKeepsOrder ==
    ASSUME BuildInv, PlanInv
    PROVE  OrderKept
<1> SUFFICES ASSUME phase = "ready", NEW e \in asked \cup Range(hazards)
             PROVE  BatchOf(plan, e[1]) = BatchOf(plan, e[2])
                        \/ BatchOf(plan, e[1]) \in Ancestors[BatchOf(plan, e[2])]
    BY DEF OrderKept
<1>1. PICK B, n : ReadyGraph(B, n)
    BY DEF ReadyGraph
<1>2. /\ n \in Nat /\ n = Len(queues) /\ queues \in Seq(Queues) /\ IsPlan(B) /\ Len(B) \in Nat
      /\ Grown(B, plan, Range(hazards)) /\ plan \in Seq(AnyBatch) /\ Earlier(plan)
      /\ Len(plan) \in Nat /\ Len(B) <= Len(plan)
    BY <1>1, ReadyFacts DEF ReadyGraph
<1>3. /\ asked \in SUBSET (Steps \X (1 .. n))
      /\ \A f \in asked : Covers(GivenBy(queues, preds), <<f[2]>>, {f[1]})
      /\ \A f \in Range(hazards) : IsHazard(f)
    BY <1>1, ReadyFacts
<1>4. CASE e \in Range(hazards)
    <2>1. e[1] \in 1 .. n /\ e[2] \in 1 .. n
        BY <1>2, <1>3, <1>4 DEF IsHazard
    <2>2. PICK s \in 1 .. Len(B) : s = BatchOf(plan, e[1]) /\ Holds(B, s, e[1])
        BY <1>2, <2>1, BatchOfIs
    <2>3. PICK d \in 1 .. Len(B) : d = BatchOf(plan, e[2]) /\ Holds(B, d, e[2])
        BY <1>2, <2>1, BatchOfIs
    <2>4. s = d \/ Follows(plan, s, d)
        BY <1>2, <1>4, <2>2, <2>3 DEF Grown, Between
    <2>5. d \in 1 .. Len(plan)
        BY <1>2
    <2>6. s = d \/ s \in Ancestors[d]
        BY <1>2, <2>4, <2>5, AncestorsFacts
    <2> QED
        BY <2>2, <2>3, <2>6
<1>5. CASE e \in asked
    <2>1. e[2] \in 1 .. n /\ Covers(GivenBy(queues, preds), <<e[2]>>, {e[1]})
        BY <1>3, <1>5
    <2>2. PICK d \in 1 .. Len(B) : d = BatchOf(plan, e[2])
        BY <1>2, <2>1, BatchOfIs
    <2>3. PICK S : S = {i \in 1 .. n : BatchOf(plan, i) = d \/ BatchOf(plan, i) \in Ancestors[d]}
        OBVIOUS
    <2>4. Closed(GivenBy(queues, preds), S)
        BY <1>1, <2>3, EndedIsClosed
    <2>5. S \in SUBSET Nat /\ \A k \in 1 .. Len(<<e[2]>>) : <<e[2]>>[k] \in S
        <3>1. e[2] \in S
            BY <2>1, <2>2, <2>3
        <3>2. S \in SUBSET Nat
            BY <2>3
        <3> QED
            BY <3>1, <3>2
    <2>6. {e[1]} \subseteq S
        BY <2>1, <2>4, <2>5 DEF Covers
    <2> QED
        BY <2>2, <2>3, <2>6
<1> QED
    BY <1>4, <1>5

LEMMA ReadyIsJoined ==
    ASSUME BuildInv, PlanInv
    PROVE  LastJoinsAll
<1> SUFFICES ASSUME phase = "ready"
             PROVE  Ancestors[Len(plan)] = 1 .. Len(plan) - 1
    BY DEF LastJoinsAll
<1>1. PICK B, n : ReadyGraph(B, n)
    BY DEF ReadyGraph
<1>2. PICK m \in Nat \ {0} : m = Len(plan)
    BY <1>1, ReadyFacts
<1>3. plan \in Seq(AnyBatch) /\ Earlier(plan) /\ Joined(plan)
    BY <1>1, ReadyFacts
<1>4. m \in 1 .. m /\ m \in 1 .. Len(plan)
    BY <1>2
<1>5. PICK A : A = Ancestors[m]
    OBVIOUS
<1>6. /\ A \subseteq 1 .. m - 1
      /\ \A a : Follows(plan, a, m) => a \in A
      /\ \A c \in A : Ancestors[c] \subseteq A
    BY <1>3, <1>4, <1>5, AncestorsFacts
<1>7. ASSUME NEW x \in 1 .. m - 1, x \notin A
      PROVE  FALSE
    <2>1. m - 1 \in Nat
        OBVIOUS
    <2>2. PICK i \in 1 .. m - 1 : i \notin A /\ \A j \in 1 .. m - 1 : j \notin A => j <= i
        BY <1>7, <2>1, LargestNumber
    <2>3. PICK d \in i + 1 .. m : Follows(plan, i, d)
        BY <1>2, <1>3 DEF Joined
    <2>4. CASE d = m
        BY <1>6, <2>2, <2>3, <2>4
    <2>5. CASE d # m
        <3>1. d \in 1 .. m - 1 /\ ~ (d <= i) /\ d \in 1 .. Len(plan)
            BY <1>2, <2>5
        <3>2. d \in A
            BY <2>2, <3>1
        <3>3. i \in Ancestors[d]
            BY <1>3, <2>3, <3>1, AncestorsFacts
        <3> QED
            BY <1>6, <2>2, <3>2, <3>3
    <2> QED
        BY <2>4, <2>5
<1>8. A = 1 .. m - 1
    BY <1>6, <1>7
<1> QED
    BY <1>2, <1>5, <1>8

LEMMA PlanHasTypes ==
    ASSUME BuildInv, PlanInv
    PROVE  TypeOK
<1>1. PTypes /\ GivenWell(queues, preds)
    BY DEF PlanInv, BuildInv, Written
<1>2. queues \in Seq(Queues)
    BY <1>1 DEF GivenWell
<1>3. preds = <<>> \/ (Len(preds) = Len(queues) /\ preds \in Seq(Seq(Nat)))
    <2>1. Seq(Steps) \subseteq Seq(Nat)
        BY DEF Steps
    <2>2. preds \in Seq(Seq(Nat))
        BY <1>1, <2>1, SeqOfMore DEF GivenWell
    <2> QED
        BY <1>1, <2>2 DEF GivenWell
<1>4. phase \in {"building", "planned", "recorded", "joined", "ready", "rejected"}
    BY <1>1 DEF PTypes, PlannedPhases
<1>5. {presenting, timeline} \subseteq BOOLEAN /\ hazards \in Seq(Nat \X Nat) /\ scopes \in Nat
    BY <1>1 DEF PTypes
<1>6. \A b \in DOMAIN plan : plan[b].queue \in Queues /\ Range(plan[b].preds) \subseteq 1 .. b - 1
    <2>1. CASE phase \in PlannedPhases
        <3>1. plan \in Seq(AnyBatch) /\ Earlier(plan)
            BY <2>1 DEF PlanInv, PGrown, Grown
        <3> QED
            BY <3>1, EarlierBatches
    <2>2. CASE phase \notin PlannedPhases
        <3>1. plan = <<>>
            BY <1>1, <2>2 DEF PTypes
        <3>2. DOMAIN plan = {}
            BY <3>1
        <3> QED
            BY <3>2
    <2> QED
        BY <2>1, <2>2
<1>7. asked \subseteq Nat \X Nat
    <2>1. asked \in SUBSET (Steps \X (1 .. LastStep(queues, open)))
        BY DEF BuildInv, Written, AskedWell
    <2>2. \A e \in asked : e \in Nat \X Nat
        BY <2>1 DEF Steps
    <2> QED
        BY <2>2
<1> QED
    BY <1>2, <1>3, <1>4, <1>5, <1>6, <1>7 DEF TypeOK

\* The plan keeps every order that was asked for, by piping, by append_after or
\* as a resource hazard, and its last batch comes after all others (plan_batches,
\* plan_dag, add_resource_dependencies, prepare_terminal).
THEOREM PlansAreOrdered == BuilderSpec => []PlanOrdered
<1>1. BuilderInit => BuildInv /\ PlanInv
    BY BuildStarts, PlanStarts
<1>2. BuildInv /\ PlanInv /\ [BuilderNext]_<<vars, builderVars>> => BuildInv' /\ PlanInv'
    BY BuildStep, PlanStep
<1>3. BuildInv /\ PlanInv => PlanOrdered
    BY PlanHasTypes, ReadyKeepsOrder, ReadyIsJoined DEF PlanOrdered
<1> QED
    BY <1>1, <1>2, <1>3, PTL DEF BuilderSpec

-----------------------------------------------------------------------------
(* What the plan does not add *)

\* Nobody was asked to come after a later step.
LEMMA AskedIsEarlier ==
    ASSUME NEW B, NEW n, ReadyGraph(B, n), NEW e \in asked
    PROVE  e[2] \in 1 .. n /\ e[1] \in 1 .. e[2]
<1>1. /\ asked \in SUBSET (Steps \X (1 .. n)) /\ n \in Nat /\ Forward(GivenBy(queues, preds))
      /\ Covers(GivenBy(queues, preds), <<e[2]>>, {e[1]})
    BY ReadyFacts
<1>2. e[1] \in Steps /\ e[2] \in 1 .. n
    BY <1>1
<1>3. PICK d \in 1 .. n : d = e[2]
    BY <1>2
<1>4. PICK S : S = 0 .. d
    OBVIOUS
<1>5. S \in SUBSET Nat /\ \A k \in 1 .. Len(<<e[2]>>) : <<e[2]>>[k] \in S
    BY <1>3, <1>4
<1>6. Closed(GivenBy(queues, preds), S)
    <2> SUFFICES ASSUME NEW f \in GivenBy(queues, preds), f[2] \in S
                 PROVE  f[1] \in S
        BY DEF Closed
    <2>1. f \in Edges /\ f[1] < f[2]
        BY <1>1 DEF Forward, GivenBy
    <2>2. f[1] \in Nat /\ f[2] \in Nat
        BY <2>1 DEF Edges
    <2> QED
        BY <1>3, <1>4, <2>1, <2>2
<1>7. {e[1]} \subseteq S
    BY <1>1, <1>5, <1>6 DEF Covers
<1> QED
    BY <1>2, <1>3, <1>4, <1>7 DEF Steps

\* What was asked to come before a step, and what was asked to come before that.
Wants(R, w) == w = [d \in DOMAIN queues |-> R[d] \cup UNION {w[s] : s \in R[d]}]

LEMMA AskedBeforeHas ==
    ASSUME NEW B, NEW n, ReadyGraph(B, n), NEW e \in asked \cup Range(hazards)
    PROVE  /\ e[1] \in 1 .. n /\ e[2] \in 1 .. n
           /\ e[1] \in AskedBefore[e[2]] /\ AskedBefore[e[1]] \subseteq AskedBefore[e[2]]
<1>1. n \in Nat /\ n = Len(queues) /\ DOMAIN queues = 1 .. n
    BY ReadyFacts DEF ReadyGraph
<1>2. PICK R : R = [d \in 1 .. n |-> {f[1] : f \in {g \in asked \cup Range(hazards) : g[2] = d}}]
    OBVIOUS
<1>3. \A f \in asked \cup Range(hazards) : f[1] \in 1 .. n /\ f[2] \in 1 .. n
    <2>1. \A f \in asked : f[1] \in 1 .. n /\ f[2] \in 1 .. n
        <3> SUFFICES ASSUME NEW f \in asked
                     PROVE  f[1] \in 1 .. n /\ f[2] \in 1 .. n
            OBVIOUS
        <3>1. f[2] \in 1 .. n /\ f[1] \in 1 .. f[2]
            BY AskedIsEarlier
        <3> QED
            BY <1>1, <3>1
    <2>2. \A f \in Range(hazards) : f[1] \in 1 .. n /\ f[2] \in 1 .. n
        BY <1>1, ReadyFacts DEF IsHazard
    <2> QED
        BY <2>1, <2>2
<1>4. \A d \in 1 .. n : \A s : s \in R[d] <=> \E f \in asked \cup Range(hazards) : f[1] = s /\ f[2] = d
    BY <1>2
<1>5. \A d \in 1 .. n : R[d] \subseteq 1 .. n
    BY <1>3, <1>4
<1>6. R \in [1 .. n -> SUBSET Nat]
    <2>1. 1 .. n \subseteq Nat
        BY <1>1
    <2>2. \A d \in 1 .. n : R[d] \in SUBSET Nat
        BY <1>5, <2>1
    <2>3. R = [d \in 1 .. n |-> R[d]]
        BY <1>2
    <2> QED
        BY <2>2, <2>3
<1>7. PICK f : f = [d \in 1 .. n |-> R[d] \cup UNION {f[s] : s \in R[d]}]
    BY <1>1, <1>5, <1>6, AllBefore
<1>8. Wants(R, f)
    BY <1>1, <1>7 DEF Wants
<1>9. R = [d \in DOMAIN queues |-> {g[1] : g \in {h \in asked \cup Range(hazards) : h[2] = d}}]
    BY <1>1, <1>2
<1>10. PICK w : w = AskedBefore /\ Wants(R, w)
    <2>1. PICK w : w = CHOOSE v : Wants(R, v)
        OBVIOUS
    <2>2. Wants(R, w)
        BY <1>8, <2>1
    <2>3. w = AskedBefore
        BY <1>9, <2>1 DEF AskedBefore, Wants
    <2> QED
        BY <2>2, <2>3
<1>11. \A d \in 1 .. n : w[d] = R[d] \cup UNION {w[s] : s \in R[d]}
    BY <1>1, <1>10 DEF Wants
<1>12. e[1] \in R[e[2]] /\ e[1] \in 1 .. n /\ e[2] \in 1 .. n
    BY <1>3, <1>4
<1>13. e[1] \in w[e[2]] /\ w[e[1]] \subseteq w[e[2]]
    BY <1>11, <1>12
<1> QED
    BY <1>10, <1>12, <1>13

\* In a chain every earlier step was asked to come before a step.
LEMMA ChainWantsAll ==
    ASSUME NEW B, NEW n, ReadyGraph(B, n), preds = <<>>
    PROVE  \A d \in 1 .. n : 1 .. d - 1 \subseteq AskedBefore[d]
<1> DEFINE Good == {d \in Nat : d \in 1 .. n => 1 .. d - 1 \subseteq AskedBefore[d]}
<1>1. n \in Nat /\ n = Len(queues) /\ GivenBy(queues, preds) \subseteq asked
    BY ReadyFacts DEF ReadyGraph
<1>2. ASSUME NEW d \in Nat, \A k \in 0 .. d - 1 : k \in Good
      PROVE  d \in Good
    <2> SUFFICES ASSUME d \in 1 .. n, NEW s \in 1 .. d - 1
                 PROVE  s \in AskedBefore[d]
        OBVIOUS
    <2>1. d - 1 \in Good /\ d - 1 \in 1 .. n /\ d - 1 # 0
        BY <1>1, <1>2
    <2>2. PICK e : e = <<d - 1, d>>
        OBVIOUS
    <2>3. e \in GivenBy(queues, preds) /\ e[1] = d - 1 /\ e[2] = d
        <3>1. e \in Edges /\ e[1] = d - 1 /\ e[2] = d
            BY <2>1, <2>2 DEF Edges
        <3> QED
            BY <1>1, <2>1, <3>1 DEF GivenBy
    <2>4. d - 1 \in AskedBefore[d] /\ AskedBefore[d - 1] \subseteq AskedBefore[d]
        <3>1. e \in asked \cup Range(hazards)
            BY <1>1, <2>3
        <3>2. e[1] \in AskedBefore[e[2]] /\ AskedBefore[e[1]] \subseteq AskedBefore[e[2]]
            BY <3>1, AskedBeforeHas
        <3> QED
            BY <2>3, <3>2
    <2>5. CASE s = d - 1
        BY <2>4, <2>5
    <2>6. CASE s # d - 1
        <3>1. s \in 1 .. (d - 1) - 1
            BY <2>6
        <3> QED
            BY <2>1, <2>4, <3>1
    <2> QED
        BY <2>5, <2>6
<1> HIDE DEF Good
<1>3. \A d \in Nat : d \in Good
    BY <1>2, AllNumbers
<1> QED
    BY <1>1, <1>3 DEF Good

\* In a graph that is no chain, what comes before a step was asked to, except
\* for the step that presents.
LEMMA DagWantsAll ==
    ASSUME NEW B, NEW n, ReadyGraph(B, n), preds # <<>>
    PROVE  \A d \in 1 .. n : (d = Len(plan) /\ presenting) \/ Ancestors[d] \subseteq AskedBefore[d]
<1> DEFINE Good == {d \in Nat : d \in 1 .. n =>
                        (d = Len(plan) /\ presenting) \/ Ancestors[d] \subseteq AskedBefore[d]}
<1>1. /\ n \in Nat /\ n = Len(queues) /\ GivenBy(queues, preds) \subseteq asked
      /\ GivenWell(queues, preds) /\ Forward(GivenBy(queues, preds))
      /\ plan \in Seq(AnyBatch) /\ Earlier(plan) /\ Len(plan) \in Nat /\ Len(B) <= Len(plan)
      /\ \A c \in 1 .. Len(B) :
            NoMore(B, plan, Range(hazards), c) \/ (presenting /\ preds # <<>> /\ c = Len(plan))
    BY ReadyFacts DEF ReadyGraph
<1>2. B = PlanDag
    BY DEF ReadyGraph, RecordedPlan
<1>3. Len(B) = n /\ \A b \in 1 .. n : B[b].first = b /\ B[b].last = b /\ B[b].preds = preds[b]
    BY <1>1, <1>2, DagIs
<1>4. ASSUME NEW d \in 1 .. n, ~ (d = Len(plan) /\ presenting), NEW p, Follows(plan, p, d)
      PROVE  p \in 1 .. d - 1 /\ p \in AskedBefore[d] /\ AskedBefore[p] \subseteq AskedBefore[d]
    <2>1. d \in 1 .. Len(plan)
        BY <1>1, <1>3
    <2>2. p \in 1 .. d - 1
        BY <1>1, <1>4, <2>1 DEF Follows, Earlier
    <2>3. p \in 1 .. n
        BY <1>1, <2>2
    <2>4. Follows(B, p, d) \/ \E e \in Range(hazards) : Between(B, p, d, e)
        BY <1>1, <1>3, <1>4, <2>3 DEF NoMore
    <2>5. CASE Follows(B, p, d)
        <3>1. PICK e : e = <<p, d>>
            OBVIOUS
        <3>2. \E k \in 1 .. Len(preds[d]) : preds[d][k] = p
            BY <1>3, <2>5 DEF Follows
        <3>3. e \in Edges /\ e[1] = p /\ e[2] = d
            BY <2>3, <3>1 DEF Edges
        <3>4. e \in GivenBy(queues, preds)
            BY <1>1, <3>2, <3>3 DEF GivenBy
        <3>5. e \in asked \cup Range(hazards)
            BY <1>1, <3>4
        <3>6. e[1] \in AskedBefore[e[2]] /\ AskedBefore[e[1]] \subseteq AskedBefore[e[2]]
            BY <3>5, AskedBeforeHas
        <3> QED
            BY <2>2, <3>3, <3>6
    <2>6. ASSUME NEW e \in Range(hazards), Between(B, p, d, e)
          PROVE  p \in AskedBefore[d] /\ AskedBefore[p] \subseteq AskedBefore[d]
        <3>1. IsHazard(e)
            BY ReadyFacts
        <3>2. e[1] = p /\ e[2] = d
            BY <1>1, <1>3, <2>3, <2>6, <3>1 DEF Between, Holds, IsHazard
        <3>3. e[1] \in AskedBefore[e[2]] /\ AskedBefore[e[1]] \subseteq AskedBefore[e[2]]
            BY AskedBeforeHas
        <3> QED
            BY <3>2, <3>3
    <2> QED
        BY <2>2, <2>4, <2>5, <2>6
<1>5. ASSUME NEW d \in Nat, \A k \in 0 .. d - 1 : k \in Good
      PROVE  d \in Good
    <2> SUFFICES ASSUME d \in 1 .. n, ~ (d = Len(plan) /\ presenting), NEW s \in Ancestors[d]
                 PROVE  s \in AskedBefore[d]
        OBVIOUS
    <2>1. d \in 1 .. Len(plan)
        BY <1>1, <1>3
    <2>2. Follows(plan, s, d) \/ \E p \in Ancestors[d] : Follows(plan, p, d) /\ s \in Ancestors[p]
        BY <1>1, <2>1, AncestorsFacts
    <2>3. CASE Follows(plan, s, d)
        BY <1>4, <2>3
    <2>4. ASSUME NEW p \in Ancestors[d], Follows(plan, p, d), s \in Ancestors[p]
          PROVE  s \in AskedBefore[d]
        <3>1. p \in 1 .. d - 1 /\ AskedBefore[p] \subseteq AskedBefore[d]
            BY <1>4, <2>4
        <3>2. p \in Good /\ p \in 1 .. n /\ p # Len(plan)
            BY <1>1, <1>5, <2>1, <3>1
        <3>3. s \in AskedBefore[p]
            BY <2>4, <3>2
        <3> QED
            BY <3>1, <3>3
    <2> QED
        BY <2>2, <2>3, <2>4
<1> HIDE DEF Good
<1>6. \A d \in Nat : d \in Good
    BY <1>5, AllNumbers
<1> QED
    BY <1>1, <1>6 DEF Good

LEMMA ReadyIsFree ==
    ASSUME BuildInv, PlanInv
    PROVE  BranchesFree
<1> SUFFICES ASSUME phase = "ready", NEW d \in DOMAIN queues, NEW s \in DOMAIN queues,
                    BatchOf(plan, s) \in Ancestors[BatchOf(plan, d)]
             PROVE  \/ s \in AskedBefore[d]
                    \/ presenting /\ preds # <<>> /\ BatchOf(plan, d) = Len(plan)
    BY DEF BranchesFree
<1>1. PICK B, n : ReadyGraph(B, n)
    BY DEF ReadyGraph
<1>2. /\ n \in Nat /\ n = Len(queues) /\ queues \in Seq(Queues) /\ IsPlan(B) /\ Len(B) \in Nat
      /\ GivenWell(queues, preds) /\ Forward(GivenBy(queues, preds))
      /\ Grown(B, plan, Range(hazards)) /\ plan \in Seq(AnyBatch) /\ Earlier(plan)
      /\ Len(plan) \in Nat /\ Len(B) <= Len(plan)
    BY <1>1, ReadyFacts DEF ReadyGraph
<1>3. s \in 1 .. n /\ d \in 1 .. n
    BY <1>2
<1>4. PICK c \in 1 .. Len(B) : c = BatchOf(plan, d) /\ Holds(B, c, d)
    BY <1>2, <1>3, BatchOfIs
<1>5. PICK x \in 1 .. Len(B) : x = BatchOf(plan, s) /\ Holds(B, x, s)
    BY <1>2, <1>3, BatchOfIs
<1>6. x \in Ancestors[c] /\ c \in 1 .. Len(plan)
    BY <1>2, <1>4, <1>5
<1>7. CASE preds = <<>>
    <2>1. x \in 1 .. c - 1
        BY <1>2, <1>6, AncestorsFacts
    <2>2. ~ (d <= s)
        BY <1>2, <1>4, <1>5, <2>1, StepsInOrder
    <2>3. s \in 1 .. d - 1
        BY <1>2, <1>3, <2>2
    <2> QED
        BY <1>1, <1>3, <1>7, <2>3, ChainWantsAll
<1>8. CASE preds # <<>>
    <2>1. B = PlanDag
        BY <1>1, <1>8 DEF ReadyGraph, RecordedPlan
    <2>2. Len(B) = n /\ \A b \in 1 .. n : B[b].first = b /\ B[b].last = b /\ B[b].preds = preds[b]
        BY <1>2, <1>8, <2>1, DagIs
    <2>3. c = d /\ x = s
        BY <1>2, <1>3, <1>4, <1>5, <2>2 DEF Holds
    <2>4. (d = Len(plan) /\ presenting) \/ Ancestors[d] \subseteq AskedBefore[d]
        BY <1>1, <1>3, <1>8, DagWantsAll
    <2> QED
        BY <1>4, <1>6, <1>8, <2>3, <2>4
<1> QED
    BY <1>7, <1>8

\* The plan orders no two steps that neither the caller nor a hazard did, except
\* that the step that presents comes after all others (collect_pass_branches,
\* add_resource_dependencies, prepare_terminal).
THEOREM BranchesAreFree == BuilderSpec => []BranchesFree
<1>1. BuilderInit => BuildInv /\ PlanInv
    BY BuildStarts, PlanStarts
<1>2. BuildInv /\ PlanInv /\ [BuilderNext]_<<vars, builderVars>> => BuildInv' /\ PlanInv'
    BY BuildStep, PlanStep
<1>3. BuildInv /\ PlanInv => BranchesFree
    BY ReadyIsFree
<1> QED
    BY <1>1, <1>2, <1>3, PTL DEF BuilderSpec

-----------------------------------------------------------------------------
(* Ranks, offsets and slots *)

\* How far e is among the numbers of S.
RankIn(S, e) == Cardinality({k \in 1 .. e : k \in S})

\* The numbers of a set are counted from 1, each with its own rank.
LEMMA RanksAre ==
    ASSUME NEW n \in Nat, NEW S \in SUBSET (1 .. n)
    PROVE  /\ Cardinality(S) \in Nat
           /\ \A e \in S : RankIn(S, e) \in 1 .. Cardinality(S)
           /\ \A e, f \in S : RankIn(S, e) = RankIn(S, f) => e = f
           /\ \A r \in 1 .. Cardinality(S) : \E e \in S : RankIn(S, e) = r
<1>1. IsFiniteSet(S) /\ Cardinality(S) \in Nat
    <2>1. IsFiniteSet(1 .. n)
        BY FS_Interval
    <2> QED
        BY <2>1, FS_Subset, FS_CardinalityType
<1>2. PICK rank : rank = [e \in S |-> RankIn(S, e)]
    OBVIOUS
<1>u. PICK U : U = [e \in S |-> {k \in 1 .. e : k \in S}]
    OBVIOUS
<1>3. ASSUME NEW e \in S
      PROVE  /\ U[e] \subseteq S /\ e \in U[e] /\ IsFiniteSet(U[e]) /\ rank[e] = Cardinality(U[e])
             /\ rank[e] \in 1 .. Cardinality(S)
    <2>1. U[e] = {k \in 1 .. e : k \in S} /\ e \in 1 .. n
        BY <1>u
    <2>r. rank[e] = Cardinality(U[e])
        BY <1>2, <2>1 DEF RankIn
    <2>2. U[e] \in SUBSET S /\ e \in U[e]
        BY <2>1
    <2>3. IsFiniteSet(U[e]) /\ Cardinality(U[e]) <= Cardinality(S)
        BY <1>1, <2>2, FS_Subset
    <2>4. Cardinality(U[e]) \in Nat /\ Cardinality(U[e]) # 0
        BY <2>2, <2>3, FS_CardinalityType, FS_EmptySet
    <2> QED
        BY <1>1, <2>r, <2>2, <2>3, <2>4
<1>4. ASSUME NEW e \in S, NEW f \in S, e < f
      PROVE  rank[e] # rank[f]
    <2>1. U[e] = {k \in 1 .. e : k \in S} /\ U[f] = {k \in 1 .. f : k \in S} /\ e \in 1 .. n /\ f \in 1 .. n
        BY <1>u
    <2>2. PICK T : T = U[e] \cup {f}
        OBVIOUS
    <2>3. f \notin U[e] /\ T \in SUBSET U[f]
        BY <1>4, <2>1, <2>2
    <2>4. IsFiniteSet(T) /\ Cardinality(T) = Cardinality(U[e]) + 1
        BY <1>3, <2>2, <2>3, FS_AddElement
    <2>5. Cardinality(T) <= Cardinality(U[f])
        BY <1>3, <2>3, FS_Subset
    <2>6. rank[e] \in Nat /\ rank[f] \in Nat /\ rank[e] = Cardinality(U[e]) /\ rank[f] = Cardinality(U[f])
        BY <1>1, <1>3
    <2> QED
        BY <2>4, <2>5, <2>6
<1>5. ASSUME NEW e \in S, NEW f \in S, rank[e] = rank[f]
      PROVE  e = f
    <2>1. e \in 1 .. n /\ f \in 1 .. n /\ ~ (e < f) /\ ~ (f < e)
        BY <1>4, <1>5
    <2> QED
        BY <2>1
<1>6. rank \in Injection(S, 1 .. Cardinality(S))
    <2>1. rank \in [S -> 1 .. Cardinality(S)] /\ DOMAIN rank = S
        BY <1>2, <1>3
    <2> QED
        BY <1>5, <2>1 DEF Injection, IsInjective
<1>7. IsFiniteSet(1 .. Cardinality(S)) /\ Cardinality(1 .. Cardinality(S)) = Cardinality(S)
    BY <1>1, FS_Interval
<1>8. rank \in Surjection(S, 1 .. Cardinality(S))
    BY <1>6, <1>7, FS_Injection
<1>9. \A e \in S : rank[e] = RankIn(S, e)
    BY <1>2
<1> QED
    BY <1>1, <1>3, <1>5, <1>8, <1>9 DEF Surjection

\* What Accumulate adds up, batch by batch.
IsSumming(counts, m, g) ==
    g = [n \in 0 .. m |-> IF n = 0 THEN 0 ELSE g[n - 1] + counts[n]]

LEMMA SummingExists ==
    ASSUME NEW counts
    PROVE  \A m \in Nat : \E g : IsSumming(counts, m, g)
<1> DEFINE Good == {m \in Nat : \E g : IsSumming(counts, m, g)}
<1>1. ASSUME NEW m \in Nat, \A k \in 0 .. m - 1 : k \in Good
      PROVE  m \in Good
    <2>1. CASE m = 0
        <3>1. PICK g : g = [n \in 0 .. 0 |-> 0]
            OBVIOUS
        <3>2. IsSumming(counts, 0, g)
            BY <3>1 DEF IsSumming
        <3> QED
            BY <2>1, <3>2
    <2>2. CASE m # 0
        <3>1. m - 1 \in Good
            BY <1>1, <2>2
        <3>2. PICK h : h = [n \in 0 .. m - 1 |-> IF n = 0 THEN 0
                                                 ELSE h[n - 1] + counts[n]]
            BY <3>1 DEF IsSumming
        <3>x. PICK x : x = h[m - 1] + counts[m]
            OBVIOUS
        <3>3. PICK g : g = [n \in 0 .. m |-> IF n = m THEN x ELSE h[n]]
            OBVIOUS
        <3>4. ASSUME NEW n \in 0 .. m
              PROVE  g[n] = IF n = 0 THEN 0 ELSE g[n - 1] + counts[n]
            <4>1. CASE n = 0
                BY <2>2, <3>2, <3>3, <4>1
            <4>2. CASE n # 0
                <5>1. n - 1 \in 0 .. m - 1 /\ n - 1 \in 0 .. m /\ n - 1 # m
                    BY <4>2
                <5>2. g[n - 1] = h[n - 1]
                    BY <3>3, <5>1
                <5>3. CASE n = m
                    <6>1. g[n] = x
                        BY <3>3, <5>3
                    <6> QED
                        BY <3>x, <4>2, <5>2, <5>3, <6>1
                <5>4. CASE n # m
                    <6>1. n \in 0 .. m - 1 /\ g[n] = h[n]
                        BY <3>3, <5>4
                    <6>2. h[n] = h[n - 1] + counts[n]
                        BY <3>2, <4>2, <6>1
                    <6> QED
                        BY <4>2, <5>2, <6>1, <6>2
                <5> QED
                    BY <5>3, <5>4
            <4> QED
                BY <4>1, <4>2
        <3>5. g = [n \in 0 .. m |-> IF n = 0 THEN 0 ELSE g[n - 1] + counts[n]]
            BY <3>3, <3>4
        <3>6. IsSumming(counts, m, g)
            BY <3>5 DEF IsSumming
        <3> QED
            BY <3>6
    <2> QED
        BY <2>1, <2>2
<1> HIDE DEF Good
<1>2. \A m \in Nat : m \in Good
    BY <1>1, AllNumbers
<1> QED
    BY <1>2 DEF Good

LEMMA SummingSteps ==
    ASSUME NEW counts, NEW m \in Nat, NEW g, IsSumming(counts, m, g)
    PROVE  g[0] = 0 /\ \A n \in 1 .. m : g[n] = g[n - 1] + counts[n]
<1>2. \A n \in 0 .. m : g[n] = IF n = 0 THEN 0 ELSE g[n - 1] + counts[n]
    BY DEF IsSumming
<1>3. 0 \in 0 .. m /\ \A n \in 1 .. m : n \in 0 .. m /\ n # 0
    OBVIOUS
<1> QED
    BY <1>2, <1>3

\* Each of m batches has slots of its own, counts[b] of them, and there are no
\* others.
Tiles(off, counts, m) ==
    /\ counts \in [1 .. m -> Nat] /\ DOMAIN off = 1 .. m /\ Len(off) = m /\ off # <<>>
    /\ Last(off) = off[m]
    /\ \A b \in 1 .. m :
        /\ off[b] \in Nat /\ Begin(off, b) \in Nat
        /\ off[b] = Begin(off, b) + counts[b] /\ off[b] <= off[m]
    /\ \A b, c \in 1 .. m : b < c => off[b] <= Begin(off, c)

LEMMA OffsetsAre ==
    ASSUME NEW m \in Nat \ {0}, NEW counts \in [1 .. m -> Nat], NEW off, off = Accumulate(counts)
    PROVE  Tiles(off, counts, m)
<1>1. counts \in Seq(Nat) /\ Len(counts) = m /\ DOMAIN counts = 1 .. m
    OBVIOUS
<1>2. \E g : IsSumming(counts, m, g)
    BY SummingExists
<1>3. PICK g : IsSumming(counts, m, g) /\ off = [b \in 1 .. m |-> g[b]]
    <2>1. PICK g : g = CHOOSE h : IsSumming(counts, m, h)
        OBVIOUS
    <2>2. IsSumming(counts, m, g)
        BY <1>2, <2>1
    <2>3. off = [b \in 1 .. m |-> g[b]]
        BY <1>1, <2>1 DEF Accumulate, IsSumming
    <2> QED
        BY <2>2, <2>3
<1>4. g[0] = 0 /\ \A n \in 1 .. m : g[n] = g[n - 1] + counts[n]
    BY <1>3, SummingSteps
<1> DEFINE Good == {n \in Nat : n \in 0 .. m => g[n] \in Nat /\ \A k \in 0 .. n : g[k] <= g[n]}
<1>5. ASSUME NEW n \in Nat, \A k \in 0 .. n - 1 : k \in Good
      PROVE  n \in Good
    <2> SUFFICES ASSUME n \in 0 .. m
                 PROVE  g[n] \in Nat /\ \A k \in 0 .. n : g[k] <= g[n]
        OBVIOUS
    <2>1. CASE n = 0
        BY <1>4, <2>1
    <2>2. CASE n # 0
        <3>1. n - 1 \in 0 .. n - 1 /\ n - 1 \in 0 .. m /\ n - 1 \in Nat /\ n \in 1 .. m
            BY <2>2
        <3>2. n - 1 \in Good
            BY <1>5, <3>1
        <3>3. g[n - 1] \in Nat /\ \A k \in 0 .. n - 1 : g[k] <= g[n - 1]
            BY <3>1, <3>2
        <3>4. counts[n] \in Nat /\ g[n] = g[n - 1] + counts[n]
            BY <1>4, <3>1
        <3>5. g[n] \in Nat /\ g[n - 1] <= g[n]
            BY <3>3, <3>4
        <3>6. ASSUME NEW k \in 0 .. n
              PROVE  g[k] <= g[n]
            <4>1. CASE k = n
                BY <3>5, <4>1
            <4>2. CASE k # n
                <5>1. k \in 0 .. n - 1 /\ k \in Nat /\ k \in 0 .. k /\ k \in 0 .. m
                    BY <4>2
                <5>2. g[k] \in Nat
                    <6>1. k \in Good
                        BY <1>5, <5>1
                    <6> QED
                        BY <5>1, <6>1
                <5>3. g[k] <= g[n - 1]
                    BY <3>3, <5>1
                <5> QED
                    BY <3>3, <3>5, <5>2, <5>3
            <4> QED
                BY <4>1, <4>2
        <3> QED
            BY <3>5, <3>6
    <2> QED
        BY <2>1, <2>2
<1> HIDE DEF Good
<1>6. \A n \in 0 .. m : g[n] \in Nat /\ \A k \in 0 .. n : g[k] <= g[n]
    <2>1. \A n \in Nat : n \in Good
        BY <1>5, AllNumbers
    <2>2. \A n \in 0 .. m : n \in Nat
        OBVIOUS
    <2> QED
        BY <2>1, <2>2 DEF Good
<1>7. \A b \in 1 .. m : off[b] = g[b] /\ Begin(off, b) = g[b - 1] /\ b - 1 \in 0 .. m /\ b \in 0 .. m
    <2> SUFFICES ASSUME NEW b \in 1 .. m
                 PROVE  off[b] = g[b] /\ Begin(off, b) = g[b - 1] /\ b - 1 \in 0 .. m /\ b \in 0 .. m
        OBVIOUS
    <2>1. CASE b = 1
        BY <1>3, <1>4, <2>1 DEF Begin
    <2>2. CASE b # 1
        <3>1. b - 1 \in 1 .. m
            BY <2>2
        <3> QED
            BY <1>3, <2>2, <3>1 DEF Begin
    <2> QED
        BY <2>1, <2>2
<1>8. ASSUME NEW b \in 1 .. m
      PROVE  /\ off[b] \in Nat /\ Begin(off, b) \in Nat
             /\ off[b] = Begin(off, b) + counts[b] /\ off[b] <= off[m]
    <2>1. m \in 0 .. m /\ m \in 1 .. m /\ b \in 0 .. m
        OBVIOUS
    <2> QED
        BY <1>4, <1>6, <1>7, <2>1
<1>9. ASSUME NEW b \in 1 .. m, NEW c \in 1 .. m, b < c
      PROVE  off[b] <= Begin(off, c)
    <2>1. c - 1 \in 0 .. m /\ b \in 0 .. c - 1
        BY <1>9
    <2> QED
        BY <1>6, <1>7, <2>1
<1>10. off # <<>> /\ Last(off) = off[m] /\ DOMAIN off = 1 .. m /\ Len(off) = m
    <2>1. off \in [1 .. m -> Nat]
        BY <1>3, <1>7, <1>8
    <2>2. off \in Seq(Nat) /\ Len(off) = m
        BY <2>1
    <2> QED
        BY <2>1, <2>2 DEF Last
<1> QED
    BY <1>8, <1>9, <1>10 DEF Tiles

\* Slots of two batches are different, and so are two of one.
LEMMA SlotsDiffer ==
    ASSUME NEW m \in Nat \ {0}, NEW off, NEW counts, Tiles(off, counts, m),
           NEW b \in 1 .. m, NEW c \in 1 .. m, NEW r \in 1 .. counts[b], NEW q \in 1 .. counts[c]
    PROVE  /\ Begin(off, b) + r \in 1 .. off[m]
           /\ Begin(off, b) + r = Begin(off, c) + q => b = c /\ r = q
<1>1. /\ off[b] \in Nat /\ Begin(off, b) \in Nat /\ counts[b] \in Nat
      /\ off[b] = Begin(off, b) + counts[b] /\ off[b] <= off[m]
      /\ off[c] \in Nat /\ Begin(off, c) \in Nat /\ counts[c] \in Nat
      /\ off[c] = Begin(off, c) + counts[c]
    BY DEF Tiles
<1>2. m \in 1 .. m
    OBVIOUS
<1>3. off[m] \in Nat
    BY <1>2 DEF Tiles
<1>4. b < c => off[b] <= Begin(off, c)
    BY DEF Tiles
<1>5. c < b => off[c] <= Begin(off, b)
    BY DEF Tiles
<1>6. r <= counts[b] /\ q <= counts[c] /\ r >= 1 /\ q >= 1 /\ r \in Nat /\ q \in Nat
    BY <1>1
<1>7. Begin(off, b) + r \in 1 .. off[m]
    BY <1>1, <1>3, <1>6
<1>8. ASSUME Begin(off, b) + r = Begin(off, c) + q
      PROVE  b = c /\ r = q
    <2>1. ~ (b < c)
        BY <1>1, <1>4, <1>6, <1>8
    <2>2. ~ (c < b)
        BY <1>1, <1>5, <1>6, <1>8
    <2>3. b = c
        BY <2>1, <2>2
    <2> QED
        BY <1>1, <1>6, <1>8, <2>3
<1> QED
    BY <1>7, <1>8

\* Each of the writes 1..n has a slot of its own.
Apart(size, n, writes) ==
    /\ DOMAIN writes = 1 .. n /\ \A k \in 1 .. n : writes[k][1] \in 1 .. size
    /\ \A j, k \in 1 .. n : writes[j][1] = writes[k][1] => j = k

\* What is written to a slot of its own stays there.
LEMMA FilledIs ==
    ASSUME NEW size \in Nat, NEW n \in Nat, NEW writes, Apart(size, n, writes), NEW v, v = Filled(size, writes)
    PROVE  \A k \in 1 .. n : v[writes[k][1]] = writes[k][2]
<1> USE DEF Apart
<1>1. v = [slot \in 1 .. size |->
            LET hits == {k \in 1 .. n : writes[k][1] = slot}
            IN  IF hits = {} THEN Unwritten ELSE writes[Max(hits)][2]]
    BY DEF Filled
<1>2. ASSUME NEW k \in 1 .. n
      PROVE  v[writes[k][1]] = writes[k][2]
    <2>1. PICK slot \in 1 .. size : slot = writes[k][1]
        OBVIOUS
    <2>2. PICK hits : hits = {j \in 1 .. n : writes[j][1] = slot}
        OBVIOUS
    <2>3. hits = {k}
        BY <2>1, <2>2
    <2>4. Max(hits) = k
        BY <2>3 DEF Max
    <2>5. v[slot] = IF hits = {} THEN Unwritten ELSE writes[Max(hits)][2]
        BY <1>1, <2>2
    <2> QED
        BY <2>1, <2>3, <2>4, <2>5
<1> QED
    BY <1>1, <1>2

\* The slots of one batch, cut out of the array.
LEMMA SliceIs ==
    ASSUME NEW m \in Nat \ {0}, NEW off, NEW counts, Tiles(off, counts, m), NEW b \in 1 .. m,
           NEW v, NEW W, W = Slice(v, off, b)
    PROVE  /\ Len(W) = counts[b] /\ DOMAIN W = 1 .. counts[b]
           /\ \A r \in 1 .. counts[b] : W[r] = v[Begin(off, b) + r]
<1>1. PICK x \in Nat, y \in Nat, c \in Nat, z \in Nat :
        /\ x = Begin(off, b) /\ y = off[b] /\ c = counts[b] /\ z = off[m] /\ y = x + c /\ y <= z
    <2>1. m \in 1 .. m
        OBVIOUS
    <2>2. /\ Begin(off, b) \in Nat /\ off[b] \in Nat /\ counts[b] \in Nat /\ off[m] \in Nat
          /\ off[b] = Begin(off, b) + counts[b] /\ off[b] <= off[m]
        BY <2>1 DEF Tiles
    <2> QED
        BY <2>2
<1>2. PICK T : T = {v[slot] : slot \in 1 .. z}
    OBVIOUS
<1>x. PICK lo \in Int : lo = x + 1
    OBVIOUS
<1>3. \A i \in lo .. y : v[i] \in T
    <2>1. \A i \in lo .. y : i \in 1 .. z
        BY <1>1, <1>x
    <2> QED
        BY <1>2, <2>1
<1>4. W = SubSeq(v, lo, y)
    BY <1>1, <1>x DEF Slice
<1>5. /\ SubSeq(v, lo, y) \in Seq(T) /\ Len(SubSeq(v, lo, y)) = (IF lo <= y THEN y - lo + 1 ELSE 0)
      /\ \A i \in 1 .. y - lo + 1 : SubSeq(v, lo, y)[i] = v[lo + i - 1]
    <2>1. y \in Int
        OBVIOUS
    <2> QED
        BY <1>3, <2>1, SubSeqProperties
<1>6. W \in Seq(T) /\ Len(W) = c /\ \A i \in 1 .. c : W[i] = v[lo + i - 1]
    <2>1. y - lo + 1 = c /\ (IF lo <= y THEN y - lo + 1 ELSE 0) = c
        BY <1>1, <1>x
    <2> QED
        BY <1>4, <1>5, <2>1
<1>7. DOMAIN W = 1 .. c
    BY <1>6, LenProperties
<1>8. \A i \in 1 .. c : lo + i - 1 = x + i
    BY <1>x
<1>9. \A i \in 1 .. c : W[i] = v[x + i]
    BY <1>6, <1>8
<1> QED
    BY <1>1, <1>6, <1>7, <1>9

\* Writes to slots of batches: write k is for place place[k] of batch box[k].
Placed(m, off, counts, n, writes, box, place) ==
    /\ DOMAIN writes = 1 .. n
    /\ \A k \in 1 .. n : /\ box[k] \in 1 .. m /\ place[k] \in 1 .. counts[box[k]]
                         /\ writes[k][1] = Begin(off, box[k]) + place[k]
    /\ \A j, k \in 1 .. n : box[j] = box[k] /\ place[j] = place[k] => j = k

LEMMA PlacesAre ==
    ASSUME NEW m \in Nat \ {0}, NEW off, NEW counts, Tiles(off, counts, m),
           NEW n \in Nat, NEW writes, NEW box, NEW place, Placed(m, off, counts, n, writes, box, place),
           NEW v, v = Filled(off[m], writes), NEW b \in 1 .. m, NEW W, W = Slice(v, off, b)
    PROVE  /\ Len(W) = counts[b] /\ DOMAIN W = 1 .. counts[b]
           /\ \A k \in 1 .. n : box[k] = b => W[place[k]] = writes[k][2]
<1>1. off[m] \in Nat
    <2>1. m \in 1 .. m
        OBVIOUS
    <2> QED
        BY <2>1 DEF Tiles
<1>p. /\ DOMAIN writes = 1 .. n
      /\ \A k \in 1 .. n : /\ box[k] \in 1 .. m /\ place[k] \in 1 .. counts[box[k]]
                           /\ writes[k][1] = Begin(off, box[k]) + place[k]
      /\ \A j, k \in 1 .. n : box[j] = box[k] /\ place[j] = place[k] => j = k
    BY DEF Placed
<1>2. ASSUME NEW k \in 1 .. n
      PROVE  writes[k][1] \in 1 .. off[m]
    <2>1. PICK x \in 1 .. m : x = box[k]
        BY <1>p
    <2>2. PICK p \in 1 .. counts[x] : p = place[k]
        BY <1>p, <2>1
    <2>3. Begin(off, x) + p \in 1 .. off[m]
        BY SlotsDiffer
    <2> QED
        BY <1>p, <2>1, <2>2, <2>3
<1>3. ASSUME NEW j \in 1 .. n, NEW k \in 1 .. n, writes[j][1] = writes[k][1]
      PROVE  j = k
    <2>1. PICK x \in 1 .. m, y \in 1 .. m : x = box[j] /\ y = box[k]
        BY <1>p
    <2>2. PICK p \in 1 .. counts[x], q \in 1 .. counts[y] : p = place[j] /\ q = place[k]
        BY <1>p, <2>1
    <2>3. Begin(off, x) + p = Begin(off, y) + q
        BY <1>3, <1>p, <2>1, <2>2
    <2>4. x = y /\ p = q
        BY <2>3, SlotsDiffer
    <2> QED
        BY <1>p, <2>1, <2>2, <2>4
<1>4. \A k \in 1 .. n : v[writes[k][1]] = writes[k][2]
    <2>1. PICK size \in Nat : size = off[m]
        BY <1>1
    <2>2. Apart(size, n, writes)
        BY <1>p, <1>2, <1>3, <2>1 DEF Apart
    <2>3. v = Filled(size, writes)
        BY <2>1
    <2> QED
        BY <2>2, <2>3, FilledIs
<1>5. /\ Len(W) = counts[b] /\ DOMAIN W = 1 .. counts[b]
      /\ \A r \in 1 .. counts[b] : W[r] = v[Begin(off, b) + r]
    BY ONLY m \in Nat \ {0}, Tiles(off, counts, m), b \in 1 .. m, W = Slice(v, off, b), SliceIs
<1>6. ASSUME NEW k \in 1 .. n, box[k] = b
      PROVE  W[place[k]] = writes[k][2]
    <2>1. PICK p \in 1 .. counts[b] : p = place[k] /\ writes[k][1] = Begin(off, b) + p
        BY <1>6, <1>p
    <2>2. W[p] = v[Begin(off, b) + p] /\ v[Begin(off, b) + p] = writes[k][2]
        BY <1>4, <1>5, <2>1
    <2> QED
        BY <2>1, <2>2
<1> QED
    BY <1>5, <1>6

-----------------------------------------------------------------------------
(* The edges of a plan, listed *)

\* What FlattenSeq joins, list by list.
IsJoining(seqs, m, g) ==
    g = [n \in 0 .. m |-> IF n = 0 THEN <<>> ELSE g[n - 1] \o seqs[n]]

LEMMA JoiningExists ==
    ASSUME NEW seqs
    PROVE  \A m \in Nat : \E g : IsJoining(seqs, m, g)
<1> DEFINE Good == {m \in Nat : \E g : IsJoining(seqs, m, g)}
<1>1. ASSUME NEW m \in Nat, \A k \in 0 .. m - 1 : k \in Good
      PROVE  m \in Good
    <2>1. CASE m = 0
        <3>1. PICK g : g = [n \in 0 .. 0 |-> <<>>]
            OBVIOUS
        <3>2. IsJoining(seqs, 0, g)
            BY <3>1 DEF IsJoining
        <3> QED
            BY <2>1, <3>2
    <2>2. CASE m # 0
        <3>1. m - 1 \in Good
            BY <1>1, <2>2
        <3>2. PICK h : h = [n \in 0 .. m - 1 |-> IF n = 0 THEN <<>>
                                                 ELSE h[n - 1] \o seqs[n]]
            BY <3>1 DEF IsJoining
        <3>x. PICK x : x = h[m - 1] \o seqs[m]
            OBVIOUS
        <3>3. PICK g : g = [n \in 0 .. m |-> IF n = m THEN x ELSE h[n]]
            OBVIOUS
        <3>4. ASSUME NEW n \in 0 .. m
              PROVE  g[n] = IF n = 0 THEN <<>> ELSE g[n - 1] \o seqs[n]
            <4>1. CASE n = 0
                BY <2>2, <3>2, <3>3, <4>1
            <4>2. CASE n # 0
                <5>1. n - 1 \in 0 .. m - 1 /\ n - 1 \in 0 .. m /\ n - 1 # m
                    BY <4>2
                <5>2. g[n - 1] = h[n - 1]
                    BY <3>3, <5>1
                <5>3. CASE n = m
                    <6>1. g[n] = x
                        BY <3>3, <5>3
                    <6> QED
                        BY <3>x, <4>2, <5>2, <5>3, <6>1
                <5>4. CASE n # m
                    <6>1. n \in 0 .. m - 1 /\ g[n] = h[n]
                        BY <3>3, <5>4
                    <6>2. h[n] = h[n - 1] \o seqs[n]
                        BY <3>2, <4>2, <6>1
                    <6> QED
                        BY <4>2, <5>2, <6>1, <6>2
                <5> QED
                    BY <5>3, <5>4
            <4> QED
                BY <4>1, <4>2
        <3>5. g = [n \in 0 .. m |-> IF n = 0 THEN <<>> ELSE g[n - 1] \o seqs[n]]
            BY <3>3, <3>4
        <3>6. IsJoining(seqs, m, g)
            BY <3>5 DEF IsJoining
        <3> QED
            BY <3>6
    <2> QED
        BY <2>1, <2>2
<1> HIDE DEF Good
<1>2. \A m \in Nat : m \in Good
    BY <1>1, AllNumbers
<1> QED
    BY <1>2 DEF Good

LEMMA JoiningSteps ==
    ASSUME NEW seqs, NEW m \in Nat, NEW g, IsJoining(seqs, m, g)
    PROVE  g[0] = <<>> /\ \A n \in 1 .. m : g[n] = g[n - 1] \o seqs[n]
<1>2. \A n \in 0 .. m : g[n] = IF n = 0 THEN <<>> ELSE g[n - 1] \o seqs[n]
    BY DEF IsJoining
<1>3. 0 \in 0 .. m /\ \A n \in 1 .. m : n \in 0 .. m /\ n # 0
    OBVIOUS
<1> QED
    BY <1>2, <1>3

\* From base on, the list s has the edges into batch c, and nowhere else.
EdgesAt(P, s, c, base) ==
    /\ base \in Nat /\ base + Len(P[c].preds) <= Len(s)
    /\ \A k \in 1 .. Len(P[c].preds) : s[base + k] = <<P[c].preds[k], c>>
    /\ \A e \in 1 .. Len(s) : s[e][2] = c => e \in base + 1 .. base + Len(P[c].preds)

\* It has the edges into the first d batches.
ListedTo(P, d, s) ==
    /\ s \in Seq(Nat \X Nat)
    /\ \A e \in 1 .. Len(s) : s[e][2] \in 1 .. d
    /\ \A c \in 1 .. d : \E base : EdgesAt(P, s, c, base)

\* The edges into batch d.
EdgesInto(P, d, x) == x = [k \in DOMAIN P[d].preds |-> <<P[d].preds[k], d>>]

LEMMA EdgesIntoAre ==
    ASSUME NEW p \in Seq(Nat), NEW P, NEW d \in Nat, NEW x, EdgesInto(P, d, x), p = P[d].preds
    PROVE  x \in Seq(Nat \X Nat) /\ Len(x) = Len(p) /\ \A k \in 1 .. Len(p) : x[k] = <<p[k], d>>
<1>1. PICK l \in Nat : l = Len(p) /\ DOMAIN p = 1 .. l /\ \A k \in 1 .. l : p[k] \in Nat
    BY LenProperties, ElementOfSeq
<1>2. x = [k \in 1 .. l |-> <<p[k], d>>]
    BY <1>1 DEF EdgesInto
<1>3. PICK T : T = Nat \X Nat
    OBVIOUS
<1>4. \A k \in 1 .. l : <<p[k], d>> \in T
    BY <1>1, <1>3
<1>5. x \in [1 .. l -> T]
    BY ONLY <1>2, <1>4
<1>6. x \in Seq(T) /\ Len(x) = l
    BY ONLY <1>1, <1>5
<1> QED
    BY <1>1, <1>2, <1>3, <1>6

Behind(t, s, x) == t = s \o x

LEMMA ListedOn ==
    ASSUME NEW P, P \in Seq(AnyBatch), Earlier(P), NEW d \in 1 .. Len(P), NEW s, ListedTo(P, d - 1, s),
           NEW x, EdgesInto(P, d, x), NEW t, Behind(t, s, x)
    PROVE  ListedTo(P, d, t)
<1>1. PICK p \in Seq(Nat), l \in Nat : p = P[d].preds /\ l = Len(p) /\ DOMAIN p = 1 .. l
    BY EarlierBatches, LenProperties
<1>2. PICK n \in Nat : n = Len(s) /\ s \in Seq(Nat \X Nat)
    BY LenProperties DEF ListedTo
<1>3. d \in Nat /\ Len(P) \in Nat
    BY EarlierBatches
<1>5. x \in Seq(Nat \X Nat) /\ Len(x) = l /\ \A k \in 1 .. l : x[k] = <<p[k], d>>
    <2>1. x \in Seq(Nat \X Nat) /\ Len(x) = Len(p) /\ \A k \in 1 .. Len(p) : x[k] = <<p[k], d>>
        BY <1>1, <1>3, EdgesIntoAre
    <2> QED
        BY <1>1, <2>1
<1>6. /\ t \in Seq(Nat \X Nat) /\ Len(t) = n + l
      /\ \A i \in 1 .. n + l : t[i] = IF i <= n THEN s[i] ELSE x[i - n]
    BY <1>2, <1>5, ConcatProperties DEF Behind
<1>7. \A e \in 1 .. n : t[e] = s[e] /\ s[e][2] \in 1 .. d - 1
    BY <1>2, <1>6 DEF ListedTo
<1>8. \A k \in 1 .. l : t[n + k] = <<p[k], d>>
    <2> SUFFICES ASSUME NEW k \in 1 .. l
                 PROVE  t[n + k] = <<p[k], d>>
        OBVIOUS
    <2>1. n + k \in 1 .. n + l /\ ~ (n + k <= n) /\ (n + k) - n = k
        OBVIOUS
    <2> QED
        BY <1>5, <1>6, <2>1
<1>9. ASSUME NEW e \in 1 .. n + l, e \notin 1 .. n
      PROVE  e \in n + 1 .. n + l /\ t[e][2] = d
    <2>1. PICK k \in 1 .. l : e = n + k
        <3>1. e - n \in 1 .. l /\ e = n + (e - n)
            BY <1>9
        <3> QED
            BY <3>1
    <2>2. t[e] = <<p[k], d>>
        BY <1>8, <2>1
    <2>3. t[e][2] = d
        BY <2>2
    <2> QED
        BY <2>1, <2>3
<1>10. \A e \in 1 .. Len(t) : t[e][2] \in 1 .. d
    <2> SUFFICES ASSUME NEW e \in 1 .. n + l
                 PROVE  t[e][2] \in 1 .. d
        BY <1>6
    <2>1. CASE e \in 1 .. n
        BY <1>3, <1>7, <2>1
    <2>2. CASE e \notin 1 .. n
        BY <1>9, <2>2
    <2> QED
        BY <2>1, <2>2
<1>11. EdgesAt(P, t, d, n)
    <2> SUFFICES ASSUME NEW e \in 1 .. n + l, t[e][2] = d
                 PROVE  e \in n + 1 .. n + l
        <3>1. n + l <= Len(t) /\ \A k \in 1 .. l : t[n + k] = <<p[k], d>>
            BY <1>6, <1>8
        <3> QED
            BY <1>1, <1>6, <3>1 DEF EdgesAt
    <2>1. e \notin 1 .. n
        BY <1>3, <1>7
    <2> QED
        BY <1>9, <2>1
<1>12. ASSUME NEW c \in 1 .. d - 1
       PROVE  \E base : EdgesAt(P, t, c, base)
    <2>1. PICK base : EdgesAt(P, s, c, base)
        BY DEF ListedTo
    <2>2. PICK q \in Seq(Nat), j \in Nat : q = P[c].preds /\ j = Len(q)
        <3>1. c \in 1 .. Len(P)
            BY <1>3
        <3>2. P[c].preds \in Seq(Nat)
            BY <3>1, EarlierBatches
        <3> QED
            BY <3>2, LenProperties
    <2>3. /\ base \in Nat /\ base + j <= n /\ \A k \in 1 .. j : s[base + k] = <<q[k], c>>
          /\ \A e \in 1 .. n : s[e][2] = c => e \in base + 1 .. base + j
        BY <1>2, <2>1, <2>2 DEF EdgesAt
    <2>4. \A k \in 1 .. j : t[base + k] = <<q[k], c>>
        <3>1. \A k \in 1 .. j : base + k \in 1 .. n
            BY <2>3
        <3> QED
            BY <1>7, <2>3, <3>1
    <2>5. ASSUME NEW e \in 1 .. n + l, t[e][2] = c
          PROVE  e \in base + 1 .. base + j
        <3>1. e \in 1 .. n
            <4>1. c # d
                BY <1>3
            <4> QED
                BY <1>9, <2>5, <4>1
        <3> QED
            BY <1>7, <2>3, <2>5, <3>1
    <2>6. EdgesAt(P, t, c, base)
        BY <1>6, <2>2, <2>3, <2>4, <2>5 DEF EdgesAt
    <2> QED
        BY <2>6
<1>13. \A c \in 1 .. d : \E base : EdgesAt(P, t, c, base)
    <2>1. \A c \in 1 .. d : c = d \/ c \in 1 .. d - 1
        BY <1>3
    <2> QED
        BY <1>11, <1>12, <2>1
<1> QED
    BY <1>6, <1>10, <1>13 DEF ListedTo

LEMMA EdgesAre ==
    ASSUME NEW P, P \in Seq(AnyBatch), Earlier(P), NEW m \in Nat \ {0}, m = Len(P),
           NEW E, E = EdgesOf(P)
    PROVE  ListedTo(P, m, E)
<1>1. DOMAIN P = 1 .. m /\ \A d \in 1 .. m : P[d].preds \in Seq(Nat)
    BY EarlierBatches
<1>2. PICK seqs : seqs = [d \in 1 .. m |-> [k \in DOMAIN P[d].preds |-> <<P[d].preds[k], d>>]]
    OBVIOUS
<1>3. E = FlattenSeq(seqs)
    BY <1>1, <1>2 DEF EdgesOf
<1>4. \A d \in 1 .. m : seqs[d] = [k \in DOMAIN P[d].preds |-> <<P[d].preds[k], d>>]
    BY <1>2
<1>5. ASSUME NEW d \in 1 .. m
      PROVE  seqs[d] \in Seq(Nat \X Nat)
    <2>1. PICK p \in Seq(Nat), l \in Nat : p = P[d].preds /\ l = Len(p) /\ DOMAIN p = 1 .. l
        BY <1>1, LenProperties
    <2>2. EdgesInto(P, d, seqs[d])
        BY <1>4 DEF EdgesInto
    <2> QED
        BY <2>1, <2>2, EdgesIntoAre
<1>6. Len(seqs) = m
    <2>1. seqs \in [1 .. m -> Seq(Nat \X Nat)]
        BY <1>2, <1>5
    <2> QED
        BY <2>1
<1>7. PICK g : IsJoining(seqs, m, g)
    BY JoiningExists
<1>8. g[0] = <<>> /\ \A n \in 1 .. m : g[n] = g[n - 1] \o seqs[n]
    BY <1>7, JoiningSteps
<1> DEFINE Good == {n \in Nat : n \in 0 .. m => ListedTo(P, n, g[n])}
<1>9. ASSUME NEW n \in Nat, \A k \in 0 .. n - 1 : k \in Good
      PROVE  n \in Good
    <2> SUFFICES ASSUME n \in 0 .. m
                 PROVE  ListedTo(P, n, g[n])
        OBVIOUS
    <2>1. CASE n = 0
        <3>1. ListedTo(P, 0, <<>>)
            BY DEF ListedTo
        <3> QED
            BY <1>8, <2>1, <3>1
    <2>2. CASE n # 0
        <3>1. n - 1 \in 0 .. n - 1 /\ n - 1 \in 0 .. m /\ n - 1 \in Nat /\ n \in 1 .. m /\ n \in 1 .. Len(P)
            BY <2>2
        <3>2. n - 1 \in Good
            BY <1>9, <3>1
        <3>3. PICK s, x, t : s = g[n - 1] /\ x = seqs[n] /\ t = g[n]
            OBVIOUS
        <3>4. ListedTo(P, n - 1, s)
            BY <3>1, <3>2, <3>3
        <3>5. Behind(t, s, x) /\ EdgesInto(P, n, x)
            BY <1>4, <1>8, <3>1, <3>3 DEF EdgesInto, Behind
        <3> HIDE DEF Good
        <3>6. ListedTo(P, n, t)
            BY <3>1, <3>4, <3>5, ListedOn
        <3> QED
            BY <3>3, <3>6
    <2> QED
        BY <2>1, <2>2
<1> HIDE DEF Good
<1>10. m \in 0 .. m /\ m \in Nat
    OBVIOUS
<1>11. ListedTo(P, m, g[m])
    BY <1>9, <1>10, AllNumbers DEF Good
<1>12. PICK f : f = [i \in 1 .. m |-> g[i]]
    OBVIOUS
<1>13. ASSUME NEW i \in 1 .. m
       PROVE  f[i] = IF i = 1 THEN seqs[i] ELSE f[i - 1] \o seqs[i]
    <2>1. f[i] = g[i] /\ g[i] = g[i - 1] \o seqs[i]
        BY <1>8, <1>12
    <2>2. CASE i = 1
        <3>1. f[i] = <<>> \o seqs[i]
            <4>1. g[i - 1] = <<>>
                BY <1>8, <2>2
            <4> QED
                BY <2>1, <4>1
        <3>2. <<>> \o seqs[i] = seqs[i]
            BY <1>5, ConcatEmptySeq
        <3> QED
            BY <2>2, <3>1, <3>2
    <2>3. CASE i # 1
        <3>1. i - 1 \in 1 .. m
            BY <2>3
        <3>2. f[i - 1] = g[i - 1]
            BY <1>12, <3>1
        <3> QED
            BY <2>1, <2>3, <3>2
    <2> QED
        BY <2>2, <2>3
<1>14. AddsUp(f, seqs)
    BY <1>6, <1>12, <1>13 DEF AddsUp
<1>15. E = f[m]
    BY <1>3, <1>6, <1>14, FlattenIs
<1>16. m \in 1 .. m
    OBVIOUS
<1>17. E = g[m]
    BY <1>12, <1>15, <1>16
<1> QED
    BY <1>11, <1>17

\* The edges into a batch and out of it.
Into(E, d) == {k \in 1 .. Len(E) : E[k][2] = d}
OutOf(E, s) == {k \in 1 .. Len(E) : E[k][1] = s}
SourcesInto(E, d) == {E[e][1] : e \in Into(E, d)}

LEMMA IntoIs ==
    ASSUME NEW P, P \in Seq(AnyBatch), Earlier(P), NoneTwice(P), NEW m \in Nat \ {0}, m = Len(P),
           NEW E, ListedTo(P, m, E), NEW d \in 1 .. m
    PROVE  /\ Cardinality(Into(E, d)) = Len(P[d].preds) /\ Len(P[d].preds) \in Nat
           /\ \A e, f \in Into(E, d) : E[e][1] = E[f][1] => e = f
           /\ SourcesInto(E, d) = Range(P[d].preds)
<1>1. PICK p \in Seq(Nat), l \in Nat : p = P[d].preds /\ l = Len(p) /\ DOMAIN p = 1 .. l
    BY EarlierBatches, LenProperties
<1>2. PICK n \in Nat : n = Len(E)
    BY LenProperties DEF ListedTo
<1>3. PICK base : EdgesAt(P, E, d, base)
    BY DEF ListedTo
<1>4. /\ base \in Nat /\ base + l <= n /\ \A k \in 1 .. l : E[base + k] = <<p[k], d>>
      /\ \A e \in 1 .. n : E[e][2] = d => e \in base + 1 .. base + l
    BY <1>1, <1>2, <1>3 DEF EdgesAt
<1>5. ASSUME NEW e \in base + 1 .. base + l
      PROVE  e \in 1 .. n /\ e - base \in 1 .. l /\ E[e] = <<p[e - base], d>>
    <2>1. e \in 1 .. n /\ e - base \in 1 .. l /\ base + (e - base) = e
        BY <1>4
    <2> QED
        BY <1>4, <2>1
<1>6. Into(E, d) = base + 1 .. base + l
    <2>1. \A e \in Into(E, d) : e \in base + 1 .. base + l
        BY <1>2, <1>4 DEF Into
    <2>2. \A e \in base + 1 .. base + l : e \in Into(E, d)
        BY <1>2, <1>5 DEF Into
    <2> QED
        BY <2>1, <2>2
<1>7. Cardinality(Into(E, d)) = l
    <2>1. base + 1 \in Int /\ base + l \in Int
        BY <1>4
    <2>2. Cardinality(base + 1 .. base + l) = IF base + 1 > base + l THEN 0 ELSE (base + l) - (base + 1) + 1
        BY <2>1, FS_Interval
    <2> QED
        BY <1>4, <1>6, <2>2
<1>8. ASSUME NEW e \in Into(E, d), NEW f \in Into(E, d), E[e][1] = E[f][1]
      PROVE  e = f
    <2>1. /\ e - base \in 1 .. l /\ f - base \in 1 .. l /\ E[e][1] = p[e - base] /\ E[f][1] = p[f - base]
        BY <1>5, <1>6
    <2>2. e - base = f - base
        BY <1>1, <1>8, <2>1 DEF NoneTwice
    <2> QED
        BY <1>4, <1>6, <2>2
<1>9. SourcesInto(E, d) = Range(p)
    <2>1. \A e \in Into(E, d) : E[e][1] \in Range(p)
        <3>1. \A e \in Into(E, d) : e - base \in 1 .. l /\ E[e][1] = p[e - base]
            BY <1>5, <1>6
        <3> QED
            BY <1>1, <3>1 DEF Range
    <2>2. ASSUME NEW x \in Range(p)
          PROVE  \E e \in Into(E, d) : E[e][1] = x
        <3>1. PICK k \in 1 .. l : x = p[k]
            BY <1>1 DEF Range
        <3>2. base + k \in base + 1 .. base + l
            BY <1>4
        <3>3. E[base + k][1] = p[k]
            BY <1>4
        <3> QED
            BY <1>6, <3>1, <3>2, <3>3
    <2> QED
        BY <2>1, <2>2 DEF SourcesInto
<1> QED
    BY <1>1, <1>7, <1>8, <1>9

-----------------------------------------------------------------------------
(* What is found in the slots *)

\* The c semaphores of X, each once, and one more behind them perhaps.
Carries(W, c, X, more, end) ==
    /\ c \in Nat /\ Len(W) = (IF more THEN c + 1 ELSE c) /\ DOMAIN W = 1 .. Len(W)
    /\ \A r \in 1 .. c : W[r] \in X
    /\ \A x \in X : \E r \in 1 .. c : W[r] = x
    /\ \A q, r \in 1 .. c : W[q] = W[r] => q = r
    /\ more => W[c + 1] = end

\* Write e of w is for place[e] of batch box[e]; one more write may end u.
WritesOf(u, w, n, off, m, box, place, entry, more, end) ==
    /\ \E T : w \in Seq(T) /\ <<off[m], end>> \in T
    /\ Len(w) = n /\ \A e \in 1 .. n : w[e] = <<Begin(off, box[e]) + place[e], entry[e]>>
    /\ u = w \o (IF more THEN <<<<off[m], end>>>> ELSE <<>>)

LEMMA WritesAre ==
    ASSUME NEW m, NEW n \in Nat, NEW box, NEW place, NEW entry, NEW more \in BOOLEAN, NEW end,
           NEW off, NEW w, NEW u, WritesOf(u, w, n, off, m, box, place, entry, more, end)
    PROVE  /\ DOMAIN u = 1 .. (IF more THEN n + 1 ELSE n)
           /\ \A e \in 1 .. n : u[e][1] = Begin(off, box[e]) + place[e] /\ u[e][2] = entry[e]
           /\ more => u[n + 1][1] = off[m] /\ u[n + 1][2] = end
<1>1. PICK T, q : w \in Seq(T) /\ q \in T /\ q = <<off[m], end>>
    BY DEF WritesOf
<1>2. Len(w) = n /\ u = w \o (IF more THEN <<q>> ELSE <<>>)
    BY <1>1 DEF WritesOf
<1>3. \A e \in 1 .. n : w[e][1] = Begin(off, box[e]) + place[e] /\ w[e][2] = entry[e]
    BY DEF WritesOf
<1>4. /\ DOMAIN u = 1 .. (IF more THEN n + 1 ELSE n)
      /\ \A k \in 1 .. n : u[k] = w[k]
      /\ more => u[n + 1] = q
    <2>1. CASE more
        <3>1. PICK z : z = <<q>>
            OBVIOUS
        <3>2. z \in Seq(T) /\ Len(z) = 1 /\ z[1] = q
            BY <1>1, <3>1
        <3>3. u = w \o z
            BY <1>2, <2>1, <3>1
        <3>4. /\ u \in Seq(T) /\ Len(u) = n + 1
              /\ \A i \in 1 .. n + 1 : u[i] = IF i <= n THEN w[i] ELSE z[i - n]
            <4>1. /\ w \o z \in Seq(T) /\ Len(w \o z) = Len(w) + Len(z)
                  /\ \A i \in 1 .. Len(w) + Len(z) : (w \o z)[i] = IF i <= Len(w) THEN w[i] ELSE z[i - Len(w)]
                BY <1>1, <3>2, ConcatProperties
            <4> QED
                BY <1>2, <3>2, <3>3, <4>1
        <3>5. u[n + 1] = z[1]
            <4>1. n + 1 \in 1 .. n + 1 /\ ~ (n + 1 <= n) /\ (n + 1) - n = 1
                OBVIOUS
            <4> QED
                BY <3>4, <4>1
        <3>6. DOMAIN u = 1 .. n + 1
            BY <3>4, LenProperties
        <3>7. \A k \in 1 .. n : u[k] = w[k]
            BY <3>4
        <3> QED
            BY <2>1, <3>2, <3>5, <3>6, <3>7
    <2>2. CASE ~ more
        <3>1. u = w \o <<>>
            BY <1>2, <2>2
        <3>2. u = w
            BY <1>1, <3>1, ConcatEmptySeq
        <3>3. DOMAIN u = 1 .. n
            BY <1>1, <1>2, <3>2, LenProperties
        <3> QED
            BY <2>2, <3>2, <3>3
    <2> QED
        BY <2>1, <2>2
<1>5. q[1] = off[m] /\ q[2] = end
    BY <1>1
<1>6. \A e \in 1 .. n : u[e][1] = Begin(off, box[e]) + place[e] /\ u[e][2] = entry[e]
    BY <1>3, <1>4
<1>7. more => u[n + 1][1] = off[m] /\ u[n + 1][2] = end
    BY <1>4, <1>5
<1> QED
    BY <1>4, <1>6, <1>7

\* Writes are for the batches 1..m, and those of S have entries of their own.
Boxed(box, n, m) == \A k \in 1 .. n : box[k] \in 1 .. m
Unlike(entry, S) == \A e, f \in S : entry[e] = entry[f] => e = f

ImageOf(entry, S) == {entry[e] : e \in S}
Ends(more, b, m) == more /\ b = m

\* The numbers up to n that are for box b.
KeptIn(box, n, b) == {k \in 1 .. n : box[k] = b}

\* How many slots each batch has for the n writes, and one more for the last.
Counts(counts, m, n, box, more) ==
    \A b \in 1 .. m : counts[b] = Cardinality(KeptIn(box, n, b)) + (IF more /\ b = m THEN 1 ELSE 0)

\* Each write takes the place of its rank among those for its batch.
Ranked(place, n, box) == \A e \in 1 .. n : place[e] = RankIn(KeptIn(box, n, box[e]), e)

LEMMA RankedAre ==
    ASSUME NEW m \in Nat \ {0}, NEW n \in Nat, NEW box, Boxed(box, n, m), NEW more \in BOOLEAN,
           NEW counts, Counts(counts, m, n, box, more),
           NEW off, Tiles(off, counts, m), NEW place, Ranked(place, n, box), NEW entry, NEW end,
           NEW w, NEW u, WritesOf(u, w, n, off, m, box, place, entry, more, end),
           NEW v, v = Filled(off[m], u), NEW b \in 1 .. m, NEW W, W = Slice(v, off, b),
           NEW S, S = KeptIn(box, n, b), Unlike(entry, S)
    PROVE  Carries(W, Cardinality(S), ImageOf(entry, S), Ends(more, b, m), end)
<1>k. PICK K : K = [c \in 1 .. m |-> KeptIn(box, n, c)]
    OBVIOUS
<1>1. ASSUME NEW c \in 1 .. m
      PROVE  /\ Cardinality(K[c]) \in Nat /\ K[c] \in SUBSET (1 .. n)
             /\ \A e \in 1 .. n : e \in K[c] <=> box[e] = c
             /\ \A e \in K[c] : place[e] \in 1 .. Cardinality(K[c])
             /\ \A e, f \in K[c] : place[e] = place[f] => e = f
             /\ \A r \in 1 .. Cardinality(K[c]) : \E e \in K[c] : place[e] = r
    <2>1. PICK R \in SUBSET (1 .. n) : R = K[c] /\ R = KeptIn(box, n, c)
        BY <1>k DEF KeptIn
    <2>2. \A e \in 1 .. n : e \in R <=> box[e] = c
        BY <2>1 DEF KeptIn
    <2>3. \A e \in R : place[e] = RankIn(R, e)
        BY <2>1, <2>2 DEF Ranked
    <2>4. /\ Cardinality(R) \in Nat
          /\ \A e \in R : RankIn(R, e) \in 1 .. Cardinality(R)
          /\ \A e, f \in R : RankIn(R, e) = RankIn(R, f) => e = f
          /\ \A r \in 1 .. Cardinality(R) : \E e \in R : RankIn(R, e) = r
        BY RanksAre
    <2>5. \A e \in R : place[e] \in 1 .. Cardinality(R)
        BY <2>3, <2>4
    <2>6. \A e, f \in R : place[e] = place[f] => e = f
        BY <2>3, <2>4
    <2>7. \A r \in 1 .. Cardinality(R) : \E e \in R : place[e] = r
        BY <2>3, <2>4
    <2> QED
        BY <2>1, <2>2, <2>4, <2>5, <2>6, <2>7
<1>2. \A c \in 1 .. m : counts[c] = Cardinality(K[c]) + (IF more /\ c = m THEN 1 ELSE 0)
    BY <1>k DEF Counts
<1>3. \A e \in 1 .. n : box[e] \in 1 .. m /\ e \in K[box[e]]
    BY <1>1 DEF Boxed
<1>4. PICK l \in Nat : l = IF more THEN n + 1 ELSE n
    OBVIOUS
<1>5. /\ DOMAIN u = 1 .. l
      /\ \A k \in 1 .. n : u[k][1] = Begin(off, box[k]) + place[k] /\ u[k][2] = entry[k]
      /\ more => u[n + 1][1] = off[m] /\ u[n + 1][2] = end
    BY <1>4, WritesAre
<1>6. PICK bx : bx = [k \in 1 .. l |-> IF k \in 1 .. n THEN box[k] ELSE m]
    OBVIOUS
<1>7. PICK pl : pl = [k \in 1 .. l |-> IF k \in 1 .. n THEN place[k] ELSE counts[m]]
    OBVIOUS
<1>8. \A k \in 1 .. n : /\ k \in 1 .. l /\ bx[k] = box[k] /\ pl[k] = place[k]
                        /\ u[k][1] = Begin(off, box[k]) + place[k] /\ u[k][2] = entry[k]
    <2>1. \A k \in 1 .. n : k \in 1 .. l
        BY <1>4
    <2> QED
        BY <1>5, <1>6, <1>7, <2>1
<1>9. \A k \in 1 .. l : k \notin 1 .. n => k = n + 1 /\ more /\ bx[k] = m /\ pl[k] = counts[m]
    BY <1>4, <1>6, <1>7
<1>10. m \in 1 .. m
    OBVIOUS
<1>11. more => counts[m] = Cardinality(K[m]) + 1 /\ off[m] = Begin(off, m) + counts[m]
    BY <1>2, <1>10 DEF Tiles
<1>12. ASSUME NEW k \in 1 .. l
       PROVE  bx[k] \in 1 .. m /\ pl[k] \in 1 .. counts[bx[k]] /\ u[k][1] = Begin(off, bx[k]) + pl[k]
    <2>1. CASE k \in 1 .. n
        <3>1. PICK c \in 1 .. m : c = box[k] /\ k \in K[c]
            BY <1>3, <2>1
        <3>2. place[k] \in 1 .. Cardinality(K[c]) /\ Cardinality(K[c]) \in Nat
            BY <1>1, <3>1
        <3>3. place[k] \in 1 .. counts[c]
            <4>1. counts[c] = Cardinality(K[c]) \/ counts[c] = Cardinality(K[c]) + 1
                BY <1>2, <3>2
            <4> QED
                BY <3>2, <4>1
        <3>4. bx[k] = c /\ pl[k] = place[k] /\ u[k][1] = Begin(off, c) + place[k]
            BY <1>8, <2>1, <3>1
        <3> QED
            BY <3>3, <3>4
    <2>2. CASE k \notin 1 .. n
        <3>1. k = n + 1 /\ more /\ bx[k] = m /\ pl[k] = counts[m]
            BY <1>9, <2>2
        <3>2. Cardinality(K[m]) \in Nat
            BY <1>1, <1>10
        <3>3. counts[m] \in 1 .. counts[m]
            BY <1>11, <3>1, <3>2
        <3>4. u[k][1] = off[m]
            BY <1>5, <3>1
        <3> QED
            BY <1>10, <1>11, <3>1, <3>3, <3>4
    <2> QED
        BY <2>1, <2>2
<1>13. ASSUME NEW j \in 1 .. n, NEW k \in 1 .. l, k \notin 1 .. n, bx[j] = bx[k], pl[j] = pl[k]
       PROVE  FALSE
    <2>1. more /\ bx[k] = m /\ pl[k] = counts[m]
        BY <1>9, <1>13
    <2>2. box[j] = m /\ place[j] = counts[m] /\ j \in K[m]
        BY <1>3, <1>8, <1>13, <2>1
    <2>3. place[j] \in 1 .. Cardinality(K[m]) /\ Cardinality(K[m]) \in Nat
        BY <1>1, <1>10, <2>2
    <2>4. counts[m] = Cardinality(K[m]) + 1
        BY <1>11, <2>1
    <2> QED
        BY <2>2, <2>3, <2>4
<1>14. ASSUME NEW j \in 1 .. l, NEW k \in 1 .. l, bx[j] = bx[k], pl[j] = pl[k]
       PROVE  j = k
    <2>1. CASE j \in 1 .. n /\ k \in 1 .. n
        <3>1. PICK c \in 1 .. m : c = box[j] /\ j \in K[c] /\ box[k] = c /\ k \in K[c]
            BY <1>3, <1>8, <1>14, <2>1
        <3>2. place[j] = place[k]
            BY <1>8, <1>14, <2>1
        <3> QED
            BY <1>1, <3>1, <3>2
    <2>2. CASE j \notin 1 .. n /\ k \notin 1 .. n
        BY <1>9, <2>2
    <2>3. CASE j \in 1 .. n /\ k \notin 1 .. n
        BY <1>13, <1>14, <2>3
    <2>4. CASE k \in 1 .. n /\ j \notin 1 .. n
        BY <1>13, <1>14, <2>4
    <2> QED
        BY <2>1, <2>2, <2>3, <2>4
<1>15. /\ Len(W) = counts[b] /\ DOMAIN W = 1 .. counts[b]
       /\ \A k \in 1 .. l : bx[k] = b => W[pl[k]] = u[k][2]
    <2>1. Placed(m, off, counts, l, u, bx, pl)
        BY <1>5, <1>12, <1>14 DEF Placed
    <2> QED
        BY ONLY m \in Nat \ {0}, Tiles(off, counts, m), l \in Nat, <2>1, v = Filled(off[m], u),
                b \in 1 .. m, W = Slice(v, off, b), PlacesAre
<1>16. PICK c : c = Cardinality(K[b])
    OBVIOUS
<1>17. c \in Nat /\ Len(W) = (IF more /\ b = m THEN c + 1 ELSE c) /\ DOMAIN W = 1 .. Len(W)
    BY <1>1, <1>2, <1>15, <1>16
<1>18. \A e \in K[b] : W[place[e]] = entry[e] /\ place[e] \in 1 .. c /\ e \in 1 .. n
    <2> SUFFICES ASSUME NEW e \in K[b]
                 PROVE  W[place[e]] = entry[e] /\ place[e] \in 1 .. c /\ e \in 1 .. n
        OBVIOUS
    <2>1. e \in 1 .. n /\ box[e] = b
        BY <1>1
    <2>2. W[pl[e]] = u[e][2]
        BY <1>8, <1>15, <2>1
    <2>3. place[e] \in 1 .. c
        BY <1>1, <1>16
    <2> QED
        BY <1>8, <2>1, <2>2, <2>3
<1>19. ASSUME NEW r \in 1 .. c
       PROVE  \E e \in K[b] : place[e] = r /\ W[r] = entry[e]
    <2>1. PICK e \in K[b] : place[e] = r
        BY <1>1, <1>16
    <2> QED
        BY <1>18, <2>1
<1>20. \A q, r \in 1 .. c : W[q] = W[r] => q = r
    <2> SUFFICES ASSUME NEW q \in 1 .. c, NEW r \in 1 .. c, W[q] = W[r]
                 PROVE  q = r
        OBVIOUS
    <2>1. PICK e \in K[b] : place[e] = q /\ W[q] = entry[e]
        BY <1>19
    <2>2. PICK f \in K[b] : place[f] = r /\ W[r] = entry[f]
        BY <1>19
    <2>3. e = f
        BY <1>k, <2>1, <2>2 DEF Unlike
    <2> QED
        BY <2>1, <2>2, <2>3
<1>21. more /\ b = m => W[c + 1] = end
    <2> SUFFICES ASSUME more, b = m
                 PROVE  W[c + 1] = end
        OBVIOUS
    <2>1. n + 1 \in 1 .. l /\ n + 1 \notin 1 .. n
        BY <1>4
    <2>2. bx[n + 1] = m /\ pl[n + 1] = counts[m]
        BY <1>9, <2>1
    <2>3. u[n + 1][2] = end
        BY <1>5
    <2>4. W[counts[m]] = end
        BY <1>15, <2>1, <2>2, <2>3
    <2> QED
        BY <1>11, <1>16, <2>4
<1>22. PICK X : X = ImageOf(entry, S)
    OBVIOUS
<1>s. K[b] = S
    BY <1>k
<1>23. \A r \in 1 .. c : W[r] \in X
    BY <1>s, <1>19, <1>22 DEF ImageOf
<1>24. \A x \in X : \E r \in 1 .. c : W[r] = x
    <2> SUFFICES ASSUME NEW x \in X
                 PROVE  \E r \in 1 .. c : W[r] = x
        OBVIOUS
    <2>1. PICK e \in K[b] : x = entry[e]
        BY <1>s, <1>22 DEF ImageOf
    <2> QED
        BY <1>18, <2>1
<1>25. Carries(W, c, X, Ends(more, b, m), end)
    BY <1>17, <1>20, <1>21, <1>23, <1>24 DEF Carries, Ends
<1> QED
    BY <1>s, <1>16, <1>22, <1>25

-----------------------------------------------------------------------------
(* What prepare_batch_sync writes *)

LEMMA EdgeEnds ==
    ASSUME NEW P, P \in Seq(AnyBatch), Earlier(P), NEW m \in Nat \ {0}, m = Len(P),
           NEW E, ListedTo(P, m, E)
    PROVE  /\ Len(E) \in Nat /\ DOMAIN E = 1 .. Len(E)
           /\ \A e \in 1 .. Len(E) : E[e][1] \in 1 .. m /\ E[e][2] \in 1 .. m
<1>1. PICK n \in Nat : n = Len(E) /\ DOMAIN E = 1 .. n
    BY LenProperties DEF ListedTo
<1>2. ASSUME NEW e \in 1 .. n
      PROVE  E[e][1] \in 1 .. m /\ E[e][2] \in 1 .. m
    <2>1. PICK d \in 1 .. m : d = E[e][2]
        BY <1>1 DEF ListedTo
    <2>2. PICK base : EdgesAt(P, E, d, base)
        BY DEF ListedTo
    <2>3. PICK p \in Seq(Nat), l \in Nat : p = P[d].preds /\ l = Len(p)
        <3>1. P[d].preds \in Seq(Nat)
            BY EarlierBatches
        <3> QED
            BY <3>1, LenProperties
    <2>4. /\ base \in Nat /\ e \in base + 1 .. base + l /\ \A k \in 1 .. l : E[base + k] = <<p[k], d>>
        BY <1>1, <2>1, <2>2, <2>3 DEF EdgesAt
    <2>5. PICK k \in 1 .. l : e = base + k
        <3>1. e - base \in 1 .. l /\ e = base + (e - base)
            BY <2>4
        <3> QED
            BY <3>1
    <2>6. E[e] = <<p[k], d>> /\ p[k] \in 1 .. d - 1
        BY <2>3, <2>4, <2>5 DEF Earlier
    <2>7. E[e][1] = p[k]
        BY <2>6
    <2> QED
        BY <2>1, <2>6, <2>7
<1> QED
    BY <1>1, <1>2

\* The writes of entries to places of boxes.
Writing(w, n, off, box, place, entry) ==
    w = [e \in 1 .. n |-> <<Begin(off, box[e]) + place[e], entry[e]>>]

\* A batch finds its own entries in the array, and the presenter's perhaps.
LEMMA EntriesAre ==
    ASSUME NEW m \in Nat \ {0}, NEW n \in Nat, NEW box, Boxed(box, n, m), NEW more \in BOOLEAN,
           NEW counts \in [1 .. m -> Nat], Counts(counts, m, n, box, more),
           NEW off, off = Accumulate(counts), NEW place, Ranked(place, n, box), NEW entry, NEW end,
           NEW w, Writing(w, n, off, box, place, entry),
           NEW v, v = Entries(off, w, end, more), NEW b \in 1 .. m, NEW W, W = Slice(v, off, b),
           NEW S, S = KeptIn(box, n, b), Unlike(entry, S)
    PROVE  Carries(W, Cardinality(S), ImageOf(entry, S), Ends(more, b, m), end)
<1>1. Tiles(off, counts, m)
    BY OffsetsAre
<1>2. off # <<>> /\ Last(off) = off[m]
    BY <1>1 DEF Tiles
<1>3. PICK u : u = w \o (IF more THEN <<<<off[m], end>>>> ELSE <<>>)
    OBVIOUS
<1>4. v = Filled(off[m], u)
    BY <1>2, <1>3 DEF Entries
<1>5. PICK T : T = {<<Begin(off, box[e]) + place[e], entry[e]>> : e \in 1 .. n} \cup {<<off[m], end>>}
    OBVIOUS
<1>6. w \in Seq(T) /\ Len(w) = n
    <2>1. w \in [1 .. n -> T]
        BY <1>5 DEF Writing
    <2> QED
        BY ONLY <2>1, n \in Nat
<1>7. <<off[m], end>> \in T
    BY <1>5
<1>8. \A e \in 1 .. n : w[e] = <<Begin(off, box[e]) + place[e], entry[e]>>
    BY DEF Writing
<1>9. WritesOf(u, w, n, off, m, box, place, entry, more, end)
    BY <1>3, <1>6, <1>7, <1>8 DEF WritesOf
<1> QED
    BY <1>1, <1>4, <1>9, RankedAre

\* The semaphores of edges.
EntriesFor(E, t, S) == {EdgeEntry(E, t, e) : e \in S}

LEMMA WaitsCarry ==
    ASSUME NEW P, P \in Seq(AnyBatch), Earlier(P), NoneTwice(P), NEW m \in Nat \ {0}, m = Len(P),
           NEW E, ListedTo(P, m, E), NEW t \in BOOLEAN, NEW present \in BOOLEAN,
           NEW off, off = Accumulate(WaitCounts(P, present)),
           NEW v, v = Entries(off, WaitWrites(E, off, t), ImageAvailable, present),
           NEW d \in 1 .. m, NEW W, W = Slice(v, off, d)
    PROVE  Carries(W, Len(P[d].preds), EntriesFor(E, t, Into(E, d)), Ends(present, d, m), ImageAvailable)
<1>1. PICK n \in Nat : /\ n = Len(E) /\ DOMAIN E = 1 .. n
                       /\ \A e \in 1 .. n : E[e][1] \in 1 .. m /\ E[e][2] \in 1 .. m
    BY EdgeEnds
<1>2. PICK box : box = [e \in 1 .. n |-> E[e][2]]
    OBVIOUS
<1>3. PICK place : place = [e \in 1 .. n |-> Entering(E, E[e][2], e)]
    OBVIOUS
<1>4. PICK entry : entry = [e \in 1 .. n |-> EdgeEntry(E, t, e)]
    OBVIOUS
<1>5. PICK counts : counts = WaitCounts(P, present)
    OBVIOUS
<1>6. \A b \in 1 .. m : KeptIn(box, n, b) = Into(E, b)
    BY <1>1, <1>2 DEF KeptIn, Into
<1>7. \A b \in 1 .. m : Cardinality(Into(E, b)) = Len(P[b].preds) /\ Len(P[b].preds) \in Nat
    BY IntoIs
<1>8. counts \in [1 .. m -> Nat] /\ Counts(counts, m, n, box, present)
    <2>1. DOMAIN P = 1 .. m
        BY EarlierBatches
    <2>2. counts = [b \in 1 .. m |-> Len(P[b].preds) + IF present /\ b = m THEN 1 ELSE 0]
        BY <1>5, <2>1 DEF WaitCounts
    <2>3. \A b \in 1 .. m : counts[b] = Len(P[b].preds) + IF present /\ b = m THEN 1 ELSE 0
        BY <2>2
    <2>4. \A b \in 1 .. m : counts[b] \in Nat
        <3> SUFFICES ASSUME NEW b \in 1 .. m
                     PROVE  counts[b] \in Nat
            OBVIOUS
        <3>1. PICK l \in Nat : l = Len(P[b].preds)
            BY <1>7
        <3>2. PICK x \in {0, 1} : x = IF present /\ b = m THEN 1 ELSE 0
            OBVIOUS
        <3>3. counts[b] = l + x
            BY <2>3, <3>1, <3>2
        <3> QED
            BY <3>3
    <2> QED
        BY <1>6, <1>7, <2>2, <2>3, <2>4 DEF Counts
<1>9. Ranked(place, n, box)
    <2> SUFFICES ASSUME NEW e \in 1 .. n
                 PROVE  place[e] = RankIn(KeptIn(box, n, box[e]), e)
        BY DEF Ranked
    <2>1. {k \in 1 .. e : E[k][2] = E[e][2]} = {k \in 1 .. e : k \in KeptIn(box, n, box[e])}
        <3>1. \A k \in 1 .. e : k \in 1 .. n
            OBVIOUS
        <3> QED
            BY <1>2, <3>1 DEF KeptIn
    <2> QED
        BY <1>3, <2>1 DEF Entering, RankIn
<1>10. Writing(WaitWrites(E, off, t), n, off, box, place, entry)
    BY <1>1, <1>2, <1>3, <1>4 DEF Writing, WaitWrites
<1>11. PICK S : S = Into(E, d) /\ S = KeptIn(box, n, d)
    BY <1>6
<1>12. S \in SUBSET (1 .. n)
    BY <1>1, <1>11 DEF Into
<1>13. ASSUME NEW e \in S, NEW f \in S, entry[e] = entry[f]
       PROVE  e = f
    <2>1. EdgeEntry(E, t, e) = EdgeEntry(E, t, f)
        BY <1>4, <1>12, <1>13
    <2>2. (IF t THEN E[e][1] ELSE e) = (IF t THEN E[f][1] ELSE f)
        BY <2>1 DEF EdgeEntry, Semaphore
    <2>3. \A x, y \in Into(E, d) : E[x][1] = E[y][1] => x = y
        BY IntoIs
    <2> QED
        BY <1>11, <2>2, <2>3
<1>14. Boxed(box, n, m)
    BY <1>1, <1>2 DEF Boxed
<1>15. Carries(W, Cardinality(S), ImageOf(entry, S), Ends(present, d, m), ImageAvailable)
    <2>1. Unlike(entry, S)
        BY <1>13 DEF Unlike
    <2>2. PICK w : w = WaitWrites(E, off, t)
        OBVIOUS
    <2>3. Writing(w, n, off, box, place, entry) /\ v = Entries(off, w, ImageAvailable, present)
        BY <1>10, <2>2
    <2> QED
        BY <1>5, <1>8, <1>9, <1>11, <1>14, <2>1, <2>3, EntriesAre
<1>16. ImageOf(entry, S) = EntriesFor(E, t, Into(E, d))
    BY <1>4, <1>11, <1>12 DEF ImageOf, EntriesFor
<1> QED
    BY <1>7, <1>11, <1>15, <1>16

\* How many signals a batch makes for edges out of it.
Signals(counts, E, m, t, present) ==
    \A b \in 1 .. m :
        counts[b] = (IF t /\ OutOf(E, b) # {} THEN 1 ELSE Cardinality(OutOf(E, b)))
                    + (IF present /\ b = m THEN 1 ELSE 0)

LEMMA OutOfIs ==
    ASSUME NEW P, P \in Seq(AnyBatch), Earlier(P), NEW m \in Nat \ {0}, m = Len(P),
           NEW E, E = EdgesOf(P), ListedTo(P, m, E), NEW t \in BOOLEAN, NEW present \in BOOLEAN,
           NEW counts, counts = SignalCounts(P, t, present)
    PROVE  /\ \A b \in 1 .. m : Cardinality(OutOf(E, b)) \in Nat /\ IsFiniteSet(OutOf(E, b))
           /\ counts \in [1 .. m -> Nat] /\ Signals(counts, E, m, t, present)
<1>1. PICK n \in Nat : n = Len(E)
    BY EdgeEnds
<1>2. ASSUME NEW b \in 1 .. m
      PROVE  /\ Cardinality(OutOf(E, b)) \in Nat /\ IsFiniteSet(OutOf(E, b))
             /\ Cardinality(OutOf(E, b)) > 0 <=> OutOf(E, b) # {}
             /\ Leaving(E, b, Len(E)) = Cardinality(OutOf(E, b))
    <2>1. PICK S \in SUBSET (1 .. n) : S = OutOf(E, b)
        BY <1>1 DEF OutOf
    <2>2. IsFiniteSet(1 .. n)
        BY FS_Interval
    <2>3. IsFiniteSet(S) /\ Cardinality(S) \in Nat
        BY <2>2, FS_Subset, FS_CardinalityType
    <2>4. Cardinality(S) = 0 <=> S = {}
        BY <2>3, FS_EmptySet
    <2>5. Leaving(E, b, Len(E)) = Cardinality(S)
        BY <1>1, <2>1 DEF Leaving, OutOf
    <2> QED
        BY <2>1, <2>3, <2>4, <2>5
<1>3. PICK out : out = [b \in 1 .. m |-> Cardinality(OutOf(E, b))]
    OBVIOUS
<1>4. \A b \in 1 .. m : /\ out[b] \in Nat /\ (out[b] > 0 <=> OutOf(E, b) # {})
                        /\ Leaving(E, b, Len(E)) = out[b] /\ out[b] = Cardinality(OutOf(E, b))
    BY <1>2, <1>3
<1>5. DOMAIN P = 1 .. m
    BY EarlierBatches
<1>6. counts = [b \in 1 .. m |->
            (IF t /\ Leaving(E, b, Len(E)) > 0 THEN 1 ELSE Leaving(E, b, Len(E)))
            + IF present /\ b = m THEN 1 ELSE 0]
    BY <1>5 DEF SignalCounts
<1>7. \A b \in 1 .. m : counts[b] = (IF t /\ OutOf(E, b) # {} THEN 1 ELSE out[b])
                                    + (IF present /\ b = m THEN 1 ELSE 0)
    BY <1>4, <1>6
<1>8. \A b \in 1 .. m : counts[b] \in Nat
    <2>1. \A b \in 1 .. m : \E x \in {1, out[b]} : counts[b] = x \/ counts[b] = x + 1
        BY <1>4, <1>7
    <2> QED
        BY <1>4, <2>1
<1>9. counts \in [1 .. m -> Nat]
    BY <1>6, <1>8
<1> QED
    BY <1>2, <1>4, <1>7, <1>9 DEF Signals

\* Binary semaphores: one signal for each edge.
LEMMA EdgesSignal ==
    ASSUME NEW P, P \in Seq(AnyBatch), Earlier(P), NEW m \in Nat \ {0}, m = Len(P),
           NEW E, E = EdgesOf(P), ListedTo(P, m, E), NEW present \in BOOLEAN,
           NEW off, off = Accumulate(SignalCounts(P, FALSE, present)),
           NEW v, v = Entries(off, EdgeSignals(E, off), RenderFinished, present),
           NEW s \in 1 .. m, NEW W, W = Slice(v, off, s)
    PROVE  \E c : Carries(W, c, EntriesFor(E, FALSE, OutOf(E, s)), Ends(present, s, m), RenderFinished)
<1>1. PICK n \in Nat : /\ n = Len(E) /\ DOMAIN E = 1 .. n
                       /\ \A e \in 1 .. n : E[e][1] \in 1 .. m /\ E[e][2] \in 1 .. m
    BY EdgeEnds
<1>2. PICK box : box = [e \in 1 .. n |-> E[e][1]]
    OBVIOUS
<1>3. PICK place : place = [e \in 1 .. n |-> Leaving(E, E[e][1], e)]
    OBVIOUS
<1>4. PICK entry : entry = [e \in 1 .. n |-> EdgeEntry(E, FALSE, e)]
    OBVIOUS
<1>5. PICK counts : counts = SignalCounts(P, FALSE, present)
    OBVIOUS
<1>6. \A b \in 1 .. m : KeptIn(box, n, b) = OutOf(E, b)
    BY <1>1, <1>2 DEF KeptIn, OutOf
<1>7. counts \in [1 .. m -> Nat] /\ Counts(counts, m, n, box, present)
    <2>0. PICK t \in BOOLEAN : t = FALSE
        OBVIOUS
    <2>1. counts \in [1 .. m -> Nat] /\ Signals(counts, E, m, t, present)
        <3>1. counts = SignalCounts(P, t, present)
            BY <1>5, <2>0
        <3> QED
            BY <3>1, OutOfIs
    <2>2. \A b \in 1 .. m : counts[b] = Cardinality(OutOf(E, b)) + (IF present /\ b = m THEN 1 ELSE 0)
        BY <2>0, <2>1 DEF Signals
    <2> QED
        BY <1>6, <2>1, <2>2 DEF Counts
<1>8. Ranked(place, n, box)
    <2> SUFFICES ASSUME NEW e \in 1 .. n
                 PROVE  place[e] = RankIn(KeptIn(box, n, box[e]), e)
        BY DEF Ranked
    <2>1. {k \in 1 .. e : E[k][1] = E[e][1]} = {k \in 1 .. e : k \in KeptIn(box, n, box[e])}
        <3>1. \A k \in 1 .. e : k \in 1 .. n
            OBVIOUS
        <3> QED
            BY <1>2, <3>1 DEF KeptIn
    <2> QED
        BY <1>3, <2>1 DEF Leaving, RankIn
<1>9. Writing(EdgeSignals(E, off), n, off, box, place, entry)
    BY <1>1, <1>2, <1>3, <1>4 DEF Writing, EdgeSignals
<1>10. PICK S : S = OutOf(E, s) /\ S = KeptIn(box, n, s)
    BY <1>6
<1>11. S \in SUBSET (1 .. n)
    BY <1>1, <1>10 DEF OutOf
<1>12. ASSUME NEW e \in S, NEW f \in S, entry[e] = entry[f]
       PROVE  e = f
    <2>1. EdgeEntry(E, FALSE, e) = EdgeEntry(E, FALSE, f)
        BY <1>4, <1>11, <1>12
    <2> QED
        BY <2>1 DEF EdgeEntry, Semaphore
<1>13. Boxed(box, n, m)
    BY <1>1, <1>2 DEF Boxed
<1>14. Carries(W, Cardinality(S), ImageOf(entry, S), Ends(present, s, m), RenderFinished)
    <2>1. Unlike(entry, S)
        BY <1>12 DEF Unlike
    <2>2. PICK w : w = EdgeSignals(E, off)
        OBVIOUS
    <2>3. Writing(w, n, off, box, place, entry) /\ v = Entries(off, w, RenderFinished, present)
        BY <1>9, <2>2
    <2> QED
        BY <1>5, <1>7, <1>8, <1>10, <1>13, <2>1, <2>3, EntriesAre
<1>15. ImageOf(entry, S) = EntriesFor(E, FALSE, OutOf(E, s))
    BY <1>4, <1>10, <1>11 DEF ImageOf, EntriesFor
<1> QED
    BY <1>14, <1>15

\* Timeline semaphores: one signal of each batch that something comes after.
LEMMA BatchesSignal ==
    ASSUME NEW P, P \in Seq(AnyBatch), Earlier(P), NEW m \in Nat \ {0}, m = Len(P),
           NEW E, E = EdgesOf(P), ListedTo(P, m, E), NEW present \in BOOLEAN,
           NEW off, off = Accumulate(SignalCounts(P, TRUE, present)),
           NEW v, v = Entries(off, BatchSignals(off, present), RenderFinished, present),
           NEW s \in 1 .. m, NEW W, W = Slice(v, off, s)
    PROVE  \E c : Carries(W, c, EntriesFor(E, TRUE, OutOf(E, s)), Ends(present, s, m), RenderFinished)
<1>1. PICK M \in SUBSET (1 .. m) : M = {b \in 1 .. m : OutOf(E, b) # {}}
    OBVIOUS
<1>2. PICK box : box = InOrder(M)
    OBVIOUS
<1>3. PICK n \in Nat : n = Len(box) /\ DOMAIN box = 1 .. n
    <2>1. box \in Seq(M)
        BY <1>2, InOrderFacts
    <2> QED
        BY <2>1, LenProperties
<1>4. /\ \A k \in 1 .. n : box[k] \in M
      /\ \A i, j \in 1 .. n : i < j => box[i] < box[j]
      /\ \A x \in M : \E i \in 1 .. n : box[i] = x
    <2>1. box \in Seq(M)
        BY <1>2, InOrderFacts
    <2>2. \A k \in 1 .. n : box[k] \in M
        BY <1>3, <2>1, ElementOfSeq
    <2>3. /\ \A i, j \in 1 .. Len(InOrder(M)) : i < j => InOrder(M)[i] < InOrder(M)[j]
          /\ \A x \in M : \E i \in 1 .. Len(InOrder(M)) : InOrder(M)[i] = x
        BY InOrderFacts
    <2> QED
        BY <1>2, <1>3, <2>2, <2>3
<1>5. \A i, j \in 1 .. n : box[i] = box[j] => i = j
    <2> SUFFICES ASSUME NEW i \in 1 .. n, NEW j \in 1 .. n, box[i] = box[j]
                 PROVE  i = j
        OBVIOUS
    <2>1. box[i] \in 1 .. m /\ box[j] \in 1 .. m
        BY <1>4
    <2>2. ~ (i < j) /\ ~ (j < i)
        BY <1>4, <2>1
    <2> QED
        BY <2>2
<1>6. PICK place : place = [k \in 1 .. n |-> 1]
    OBVIOUS
<1>7. PICK entry : entry = [k \in 1 .. n |-> Semaphore("graph", box[k])]
    OBVIOUS
<1>8. PICK counts : counts = SignalCounts(P, TRUE, present)
    OBVIOUS
<1>9. /\ counts \in [1 .. m -> Nat]
      /\ \A b \in 1 .. m : counts[b] = (IF b \in M THEN 1 ELSE 0) + (IF present /\ b = m THEN 1 ELSE 0)
    <2>0. PICK t \in BOOLEAN : t = TRUE
        OBVIOUS
    <2>1. counts \in [1 .. m -> Nat] /\ Signals(counts, E, m, t, present)
        <3>1. counts = SignalCounts(P, t, present)
            BY <1>8, <2>0
        <3> QED
            BY <3>1, OutOfIs
    <2>2. \A b \in 1 .. m : b \in M <=> OutOf(E, b) # {}
        BY <1>1
    <2>3. Cardinality({}) = 0
        BY FS_EmptySet
    <2> QED
        BY <2>0, <2>1, <2>2, <2>3 DEF Signals
<1>10. ASSUME NEW k \in 1 .. n
       PROVE  KeptIn(box, n, box[k]) = {k}
    BY <1>5 DEF KeptIn
<1>11. ASSUME NEW b \in 1 .. m
       PROVE  Cardinality(KeptIn(box, n, b)) = IF b \in M THEN 1 ELSE 0
    <2>1. CASE b \in M
        <3>1. PICK k \in 1 .. n : box[k] = b
            BY <1>4, <2>1
        <3>2. KeptIn(box, n, b) = {k}
            BY <1>10, <3>1
        <3> QED
            BY <2>1, <3>2, FS_Singleton
    <2>2. CASE b \notin M
        <3>1. KeptIn(box, n, b) = {}
            BY <1>4, <2>2 DEF KeptIn
        <3> QED
            BY <2>2, <3>1, FS_EmptySet
    <2> QED
        BY <2>1, <2>2
<1>12. Counts(counts, m, n, box, present)
    BY <1>9, <1>11 DEF Counts
<1>13. Ranked(place, n, box)
    <2> SUFFICES ASSUME NEW e \in 1 .. n
                 PROVE  place[e] = RankIn(KeptIn(box, n, box[e]), e)
        BY DEF Ranked
    <2>1. {k \in 1 .. e : k \in KeptIn(box, n, box[e])} = {e}
        BY <1>10
    <2>2. Cardinality({e}) = 1
        BY FS_Singleton
    <2> QED
        BY <1>6, <2>1, <2>2 DEF RankIn
<1>14. Tiles(off, counts, m)
    BY <1>8, <1>9, OffsetsAre
<1>15. M = {b \in DOMAIN off : off[b] - Begin(off, b) > IF present /\ b = Len(off) THEN 1 ELSE 0}
    <2>1. DOMAIN off = 1 .. m /\ Len(off) = m
        BY <1>14 DEF Tiles
    <2>2. ASSUME NEW b \in 1 .. m
          PROVE  b \in M <=> off[b] - Begin(off, b) > IF present /\ b = Len(off) THEN 1 ELSE 0
        <3>1. PICK x \in Nat, c \in Nat : x = Begin(off, b) /\ c = counts[b] /\ off[b] = x + c
            BY <1>9, <1>14 DEF Tiles
        <3>2. off[b] - Begin(off, b) = c
            <4>1. (x + c) - x = c
                OBVIOUS
            <4> QED
                BY <3>1, <4>1
        <3>3. c = (IF b \in M THEN 1 ELSE 0) + (IF present /\ b = m THEN 1 ELSE 0)
            BY <1>9, <3>1
        <3>4. b \in M <=> c > IF present /\ b = m THEN 1 ELSE 0
            BY <3>3
        <3> QED
            BY <2>1, <3>2, <3>4
    <2> QED
        BY <1>1, <2>1, <2>2
<1>16. BatchSignals(off, present) = [k \in 1 .. n |-> <<Begin(off, box[k]) + 1, Semaphore("graph", box[k])>>]
    BY <1>2, <1>3, <1>15 DEF BatchSignals
<1>17. Writing(BatchSignals(off, present), n, off, box, place, entry)
    BY <1>6, <1>7, <1>16 DEF Writing
<1>18. PICK S : S = KeptIn(box, n, s)
    OBVIOUS
<1>19. S \in SUBSET (1 .. n) /\ \A e \in S : box[e] = s
    BY <1>18 DEF KeptIn
<1>20. Unlike(entry, S)
    <2> SUFFICES ASSUME NEW e \in S, NEW f \in S, entry[e] = entry[f]
                 PROVE  e = f
        BY DEF Unlike
    <2>1. e \in 1 .. n /\ f \in 1 .. n /\ box[e] = s /\ box[f] = s
        BY <1>19
    <2> QED
        BY <1>5, <2>1
<1>21. Boxed(box, n, m)
    BY <1>4 DEF Boxed
<1>22. Carries(W, Cardinality(S), ImageOf(entry, S), Ends(present, s, m), RenderFinished)
    <2>1. PICK w : w = BatchSignals(off, present)
        OBVIOUS
    <2>2. Writing(w, n, off, box, place, entry) /\ v = Entries(off, w, RenderFinished, present)
        BY <1>17, <2>1
    <2> QED
        BY <1>8, <1>9, <1>12, <1>13, <1>18, <1>20, <1>21, <2>2, EntriesAre
<1>23. ImageOf(entry, S) = EntriesFor(E, TRUE, OutOf(E, s))
    <2>1. \A e \in OutOf(E, s) : EdgeEntry(E, TRUE, e) = Semaphore("graph", s)
        BY DEF EdgeEntry, OutOf
    <2>2. \A e \in S : entry[e] = Semaphore("graph", s)
        BY <1>7, <1>19
    <2>3. (\E e : e \in OutOf(E, s)) <=> (\E e : e \in S)
        <3>1. (\E e : e \in OutOf(E, s)) <=> s \in M
            BY <1>1
        <3>2. s \in M <=> (\E e : e \in S)
            BY <1>4, <1>18 DEF KeptIn
        <3> QED
            BY <3>1, <3>2
    <2>4. PICK X, Y : X = ImageOf(entry, S) /\ Y = EntriesFor(E, TRUE, OutOf(E, s))
        OBVIOUS
    <2>5. \A x : x \in X <=> x = Semaphore("graph", s) /\ \E e : e \in S
        BY <2>2, <2>4 DEF ImageOf
    <2>6. \A x : x \in Y <=> x = Semaphore("graph", s) /\ \E e : e \in OutOf(E, s)
        BY <2>1, <2>4 DEF EntriesFor
    <2>7. X = Y
        BY <2>3, <2>5, <2>6
    <2> QED
        BY <2>4, <2>7
<1> QED
    BY <1>22, <1>23

-----------------------------------------------------------------------------
(* What the arrays say *)

\* Semaphores of the graph, and one of the presenter's.
OfGraph(X) == \A x \in X : \E i : x = Semaphore("graph", i)
OfPresenter(end) == end = ImageAvailable \/ end = RenderFinished

\* The slots W of a batch have the c semaphores of X, each once, and the
\* presenter's if there is more.
Told(W, c, X, more, end) ==
    /\ IsInjective(W) /\ ~ Contains(W, Unwritten)
    /\ (more => Contains(W, end)) /\ (Contains(W, end) => more)
    /\ \A w : w \in Range(W) /\ w.kind = "graph" <=> w \in X
    /\ \A i : Contains(W, Semaphore("graph", i)) <=> Semaphore("graph", i) \in X
    /\ Cardinality(X) = c

LEMMA CarriedIsTold ==
    ASSUME NEW W, NEW c, NEW X, NEW more, NEW end, Carries(W, c, X, more, end),
           OfGraph(X), OfPresenter(end)
    PROVE  Told(W, c, X, more, end)
<1>1. /\ c \in Nat /\ \A r \in 1 .. c : W[r] \in X
      /\ \A x \in X : \E r \in 1 .. c : W[r] = x
      /\ \A q, r \in 1 .. c : W[q] = W[r] => q = r
    BY DEF Carries
<1>2. PICK l \in Nat : /\ l = (IF more THEN c + 1 ELSE c) /\ Len(W) = l /\ DOMAIN W = 1 .. l
                       /\ more => W[c + 1] = end
    <2>1. PICK l : l = IF more THEN c + 1 ELSE c
        OBVIOUS
    <2>2. l \in Nat
        BY <1>1, <2>1
    <2> QED
        BY <2>1, <2>2 DEF Carries
<1>3. \A r \in 1 .. c : r \in 1 .. l
    BY <1>1, <1>2
<1>4. \A r \in 1 .. l : r \notin 1 .. c => r = c + 1 /\ more /\ W[r] = end
    BY <1>1, <1>2
<1>5. /\ end.kind # "graph" /\ end.kind # "none"
      /\ \A x \in X : x.kind = "graph"
    <2>1. end.kind # "graph" /\ end.kind # "none"
        BY DEF OfPresenter, ImageAvailable, RenderFinished, Semaphore
    <2>2. \A i : Semaphore("graph", i).kind = "graph"
        BY DEF Semaphore
    <2>3. \A x \in X : x.kind = "graph"
        BY <2>2 DEF OfGraph
    <2> QED
        BY <2>1, <2>3
<1>6. \A r \in 1 .. l : W[r] \in X \/ W[r] = end
    BY <1>1, <1>4
<1>7. IsInjective(W)
    <2> SUFFICES ASSUME NEW q \in 1 .. l, NEW r \in 1 .. l, W[q] = W[r]
                 PROVE  q = r
        BY <1>2 DEF IsInjective
    <2>1. CASE q \in 1 .. c /\ r \in 1 .. c
        BY <1>1, <2>1
    <2>2. CASE q \notin 1 .. c /\ r \notin 1 .. c
        BY <1>4, <2>2
    <2>3. CASE q \in 1 .. c /\ r \notin 1 .. c
        BY <1>1, <1>4, <1>5, <2>3
    <2>4. CASE q \notin 1 .. c /\ r \in 1 .. c
        BY <1>1, <1>4, <1>5, <2>4
    <2> QED
        BY <2>1, <2>2, <2>3, <2>4
<1>8. ~ Contains(W, Unwritten)
    <2>1. Unwritten.kind = "none"
        BY DEF Unwritten, Semaphore
    <2>2. \A r \in 1 .. l : W[r].kind # "none"
        BY <1>5, <1>6
    <2> QED
        BY <1>2, <2>1, <2>2 DEF Contains
<1>9. more => Contains(W, end)
    <2> SUFFICES ASSUME more
                 PROVE  Contains(W, end)
        OBVIOUS
    <2>1. c + 1 \in 1 .. l /\ W[c + 1] = end
        BY <1>1, <1>2
    <2> QED
        BY <1>2, <2>1 DEF Contains
<1>10. Contains(W, end) => more
    <2> SUFFICES ASSUME NEW r \in 1 .. l, W[r] = end
                 PROVE  more
        BY <1>2 DEF Contains
    <2>1. r \notin 1 .. c
        BY <1>1, <1>5
    <2> QED
        BY <1>4, <2>1
<1>11. \A w : w \in Range(W) <=> \E r \in 1 .. l : W[r] = w
    BY <1>2 DEF Range
<1>12. \A w : w \in Range(W) /\ w.kind = "graph" <=> w \in X
    <2>1. ASSUME NEW w, w \in Range(W), w.kind = "graph"
          PROVE  w \in X
        BY <1>5, <1>6, <1>11, <2>1
    <2>2. ASSUME NEW w, w \in X
          PROVE  w \in Range(W) /\ w.kind = "graph"
        BY <1>1, <1>3, <1>5, <1>11, <2>2
    <2> QED
        BY <2>1, <2>2
<1>13. \A i : Contains(W, Semaphore("graph", i)) <=> Semaphore("graph", i) \in X
    <2>1. \A w : Contains(W, w) <=> w \in Range(W)
        BY <1>2, <1>11 DEF Contains
    <2>2. \A i : Semaphore("graph", i).kind = "graph"
        BY DEF Semaphore
    <2> QED
        BY <1>12, <2>1, <2>2
<1>14. Cardinality(X) = c
    <2>1. PICK f : f = [r \in 1 .. c |-> W[r]]
        OBVIOUS
    <2>2. f \in [1 .. c -> X] /\ \A x \in X : \E r \in 1 .. c : f[r] = x
        BY <1>1, <2>1
    <2>3. \A q, r \in 1 .. c : f[q] = f[r] => q = r
        BY <1>1, <2>1
    <2>4. f \in Bijection(1 .. c, X)
        BY <2>2, <2>3 DEF Bijection, Injection, Surjection, IsInjective
    <2>5. IsFiniteSet(1 .. c) /\ Cardinality(1 .. c) = c
        BY <1>1, FS_Interval
    <2>6. ExistsBijection(1 .. c, X)
        BY <2>4 DEF ExistsBijection
    <2> QED
        BY <2>5, <2>6, FS_Bijection
<1> QED
    BY <1>7, <1>8, <1>9, <1>10, <1>12, <1>13, <1>14 DEF Told

\* What prepare_batch_sync makes of the batches P.
Prepared(sy, P, E, t, present, m) ==
    /\ P \in Seq(AnyBatch) /\ Earlier(P) /\ NoneTwice(P)
    /\ m \in Nat \ {0} /\ m = Len(P) /\ E = EdgesOf(P) /\ ListedTo(P, m, E)
    /\ t \in BOOLEAN /\ present \in BOOLEAN
    /\ sy = PrepareBatchSync(P, t, present)

LEMMA ArraysAre ==
    ASSUME NEW sy, NEW P, NEW E, NEW t, NEW present, NEW m, Prepared(sy, P, E, t, present, m),
           NEW d \in 1 .. m
    PROVE  /\ Told(Slice(sy.waits, sy.wait_offsets, d), Len(P[d].preds), EntriesFor(E, t, Into(E, d)),
                   Ends(present, d, m), ImageAvailable)
           /\ \E c : Told(Slice(sy.signals, sy.signal_offsets, d), c, EntriesFor(E, t, OutOf(E, d)),
                          Ends(present, d, m), RenderFinished)
<1>1. /\ P \in Seq(AnyBatch) /\ Earlier(P) /\ NoneTwice(P)
      /\ m \in Nat \ {0} /\ m = Len(P) /\ E = EdgesOf(P) /\ ListedTo(P, m, E)
      /\ t \in BOOLEAN /\ present \in BOOLEAN
    BY DEF Prepared
<1>2. PICK wo, so : /\ wo = Accumulate(WaitCounts(P, present))
                    /\ so = Accumulate(SignalCounts(P, t, present))
    OBVIOUS
<1>3. PICK wv, sw, sv : /\ wv = Entries(wo, WaitWrites(E, wo, t), ImageAvailable, present)
                        /\ sw = (IF t THEN BatchSignals(so, present) ELSE EdgeSignals(E, so))
                        /\ sv = Entries(so, sw, RenderFinished, present)
    OBVIOUS
<1>4. sy.waits = wv /\ sy.signals = sv /\ sy.wait_offsets = wo /\ sy.signal_offsets = so
    <2>1. sy = PrepareBatchSync(P, t, present) /\ E = EdgesOf(P)
        BY DEF Prepared
    <2>2. sy = [waits |-> wv, signals |-> sv, wait_offsets |-> wo, signal_offsets |-> so]
        BY <1>2, <1>3, <2>1 DEF PrepareBatchSync
    <2> QED
        BY ONLY <2>2
<1>5. \A S : OfGraph(EntriesFor(E, t, S))
    BY DEF OfGraph, EntriesFor, EdgeEntry
<1>6. OfPresenter(ImageAvailable) /\ OfPresenter(RenderFinished)
    BY DEF OfPresenter
<1>7. Told(Slice(wv, wo, d), Len(P[d].preds), EntriesFor(E, t, Into(E, d)), Ends(present, d, m),
           ImageAvailable)
    <2>1. PICK W : W = Slice(wv, wo, d)
        OBVIOUS
    <2>2. Carries(W, Len(P[d].preds), EntriesFor(E, t, Into(E, d)), Ends(present, d, m), ImageAvailable)
        BY <1>1, <1>2, <1>3, <2>1, WaitsCarry
    <2> QED
        BY <1>5, <1>6, <2>1, <2>2, CarriedIsTold
<1>8. \E c : Told(Slice(sv, so, d), c, EntriesFor(E, t, OutOf(E, d)), Ends(present, d, m),
                  RenderFinished)
    <2>1. PICK W : W = Slice(sv, so, d)
        OBVIOUS
    <2>2. CASE t = TRUE
        <3>1. so = Accumulate(SignalCounts(P, TRUE, present))
            BY <1>2, <2>2
        <3>2. sv = Entries(so, BatchSignals(so, present), RenderFinished, present)
            BY <1>3, <2>2
        <3>3. PICK c : Carries(W, c, EntriesFor(E, TRUE, OutOf(E, d)), Ends(present, d, m),
                               RenderFinished)
            BY <1>1, <2>1, <3>1, <3>2, BatchesSignal
        <3>4. Told(W, c, EntriesFor(E, t, OutOf(E, d)), Ends(present, d, m), RenderFinished)
            BY <1>5, <1>6, <2>2, <3>3, CarriedIsTold
        <3> QED
            BY <2>1, <3>4
    <2>3. CASE t = FALSE
        <3>1. so = Accumulate(SignalCounts(P, FALSE, present))
            BY <1>2, <2>3
        <3>2. sv = Entries(so, EdgeSignals(E, so), RenderFinished, present)
            BY <1>3, <2>3
        <3>3. PICK c : Carries(W, c, EntriesFor(E, FALSE, OutOf(E, d)), Ends(present, d, m),
                               RenderFinished)
            BY <1>1, <2>1, <3>1, <3>2, EdgesSignal
        <3>4. Told(W, c, EntriesFor(E, t, OutOf(E, d)), Ends(present, d, m), RenderFinished)
            BY <1>5, <1>6, <2>3, <3>3, CarriedIsTold
        <3> QED
            BY <2>1, <3>4
    <2> QED
        BY <1>1, <2>2, <2>3
<1> QED
    BY <1>4, <1>7, <1>8

\* The batches of P that signal w.
Signallers(sy, P, w) == {s \in 1 .. Len(P) : Contains(Slice(sy.signals, sy.signal_offsets, s), w)}

\* The semaphore of an edge is signalled by the batch that the edge leaves. A
\* binary one is of one edge.
LEMMA SignalledBy ==
    ASSUME NEW sy, NEW P, NEW E, NEW t, NEW present, NEW m, Prepared(sy, P, E, t, present, m),
           NEW d \in 1 .. m, NEW e \in Into(E, d), NEW w, w = EdgeEntry(E, t, e)
    PROVE  /\ Signallers(sy, P, w) = {E[e][1]}
           /\ \A b \in 1 .. m : Contains(Slice(sy.waits, sy.wait_offsets, b), w) => t \/ b = d
<1>1. /\ P \in Seq(AnyBatch) /\ Earlier(P)
      /\ m \in Nat \ {0} /\ m = Len(P) /\ ListedTo(P, m, E) /\ t \in BOOLEAN
    BY DEF Prepared
<1>2. e \in 1 .. Len(E) /\ E[e][2] = d /\ E[e][1] \in 1 .. m
    <2>1. e \in 1 .. Len(E) /\ E[e][2] = d
        BY DEF Into
    <2> QED
        BY <1>1, <2>1, EdgeEnds
<1>3. \A f : EdgeEntry(E, t, f) = w => IF t THEN E[f][1] = E[e][1] ELSE f = e
    BY DEF EdgeEntry, Semaphore
<1>4. PICK i : w = Semaphore("graph", i)
    BY DEF EdgeEntry
<1>5. ASSUME NEW s \in 1 .. m
      PROVE  Contains(Slice(sy.signals, sy.signal_offsets, s), w) <=> s = E[e][1]
    <2>1. PICK X, W : X = EntriesFor(E, t, OutOf(E, s)) /\ W = Slice(sy.signals, sy.signal_offsets, s)
        OBVIOUS
    <2>2. Contains(W, w) <=> w \in X
        <3>1. \E c : Told(W, c, X, Ends(present, s, m), RenderFinished)
            BY <2>1, ArraysAre
        <3> QED
            BY <1>4, <3>1 DEF Told
    <2>3. w \in X <=> s = E[e][1]
        <3>1. ASSUME w \in X
              PROVE  s = E[e][1]
            <4>1. PICK f \in OutOf(E, s) : w = EdgeEntry(E, t, f)
                BY <2>1, <3>1 DEF EntriesFor
            <4>2. E[f][1] = s
                BY DEF OutOf
            <4> QED
                BY <1>3, <4>1, <4>2
        <3>2. ASSUME s = E[e][1]
              PROVE  w \in X
            <4>1. e \in OutOf(E, s)
                BY <1>2, <3>2 DEF OutOf
            <4> QED
                BY <2>1, <4>1 DEF EntriesFor
        <3> QED
            BY <3>1, <3>2
    <2> QED
        BY <2>1, <2>2, <2>3
<1>6. Signallers(sy, P, w) = {E[e][1]}
    BY <1>1, <1>2, <1>5 DEF Signallers
<1>7. ASSUME NEW b \in 1 .. m, Contains(Slice(sy.waits, sy.wait_offsets, b), w), t = FALSE
      PROVE  b = d
    <2>1. PICK X, W : X = EntriesFor(E, t, Into(E, b)) /\ W = Slice(sy.waits, sy.wait_offsets, b)
        OBVIOUS
    <2>2. w \in X
        <3>1. Told(W, Len(P[b].preds), X, Ends(present, b, m), ImageAvailable)
            BY <2>1, ArraysAre
        <3> QED
            BY <1>4, <1>7, <2>1, <3>1 DEF Told
    <2>3. PICK f \in Into(E, b) : w = EdgeEntry(E, t, f)
        BY <2>1, <2>2 DEF EntriesFor
    <2>4. E[f][2] = b /\ f = e
        BY <1>3, <1>7, <2>3 DEF Into
    <2> QED
        BY <1>2, <2>4
<1> QED
    BY <1>1, <1>6, <1>7

-----------------------------------------------------------------------------
(* The plan and its arrays *)

LEMMA PreparedMatches ==
    ASSUME NEW E, NEW m, Prepared(sync, plan, E, timeline, presenting, m)
    PROVE  SyncMatches
<1>1. /\ plan \in Seq(AnyBatch) /\ Earlier(plan) /\ NoneTwice(plan)
      /\ m \in Nat \ {0} /\ m = Len(plan) /\ ListedTo(plan, m, E)
    BY DEF Prepared
<1>2. DOMAIN plan = 1 .. m
    BY <1>1, EarlierBatches
<1>3. ASSUME NEW d \in 1 .. m
      PROVE  /\ Told(WaitsFor(d), Len(plan[d].preds), EntriesFor(E, timeline, Into(E, d)),
                     Ends(presenting, d, m), ImageAvailable)
             /\ \E c : Told(SignalsFor(d), c, EntriesFor(E, timeline, OutOf(E, d)),
                            Ends(presenting, d, m), RenderFinished)
    <2>1. PICK sy, P, t, present : sy = sync /\ P = plan /\ t = timeline /\ present = presenting
        OBVIOUS
    <2>2. Prepared(sy, P, E, t, present, m)
        BY <2>1
    <2>3. /\ Told(Slice(sy.waits, sy.wait_offsets, d), Len(P[d].preds), EntriesFor(E, t, Into(E, d)),
                  Ends(present, d, m), ImageAvailable)
          /\ \E c : Told(Slice(sy.signals, sy.signal_offsets, d), c, EntriesFor(E, t, OutOf(E, d)),
                         Ends(present, d, m), RenderFinished)
        BY <2>2, ArraysAre
    <2> QED
        BY <2>1, <2>3 DEF WaitsFor, SignalsFor
<1>4. ASSUME NEW d \in DOMAIN plan
      PROVE  LET graph_waits == {w \in Range(WaitsFor(d)) : w.kind = "graph"}
                 signallers(w) == {s \in DOMAIN plan : Contains(SignalsFor(s), w)}
             IN  /\ IsInjective(WaitsFor(d)) /\ IsInjective(SignalsFor(d))
                 /\ ~ Contains(WaitsFor(d), Unwritten) /\ ~ Contains(SignalsFor(d), Unwritten)
                 /\ \A w \in graph_waits : Cardinality(signallers(w)) = 1
                 /\ UNION {signallers(w) : w \in graph_waits} = Range(plan[d].preds)
                 /\ Cardinality(graph_waits) = Len(plan[d].preds)
                 /\ ~ timeline => \A e \in DOMAIN plan, w \in graph_waits : Contains(WaitsFor(e), w) => e = d
    <2>1. PICK G, X : /\ G = {w \in Range(WaitsFor(d)) : w.kind = "graph"}
                      /\ X = EntriesFor(E, timeline, Into(E, d))
        OBVIOUS
    <2>2. /\ IsInjective(WaitsFor(d)) /\ ~ Contains(WaitsFor(d), Unwritten)
          /\ \A w : w \in Range(WaitsFor(d)) /\ w.kind = "graph" <=> w \in X
          /\ Cardinality(X) = Len(plan[d].preds)
        BY <1>2, <1>3, <2>1 DEF Told
    <2>3. IsInjective(SignalsFor(d)) /\ ~ Contains(SignalsFor(d), Unwritten)
        BY <1>2, <1>3 DEF Told
    <2>4. G = X
        BY <2>1, <2>2
    <2>5. PICK f : f = [w \in G |-> {s \in DOMAIN plan : Contains(SignalsFor(s), w)}]
        OBVIOUS
    <2>6. ASSUME NEW e \in Into(E, d), NEW w, w = EdgeEntry(E, timeline, e)
          PROVE  /\ {s \in DOMAIN plan : Contains(SignalsFor(s), w)} = {E[e][1]}
                 /\ \A b \in DOMAIN plan : Contains(WaitsFor(b), w) => timeline \/ b = d
        <3>1. PICK sy, P, t : sy = sync /\ P = plan /\ t = timeline
            OBVIOUS
        <3>2. Prepared(sy, P, E, t, presenting, m) /\ w = EdgeEntry(E, t, e)
            BY <2>6, <3>1
        <3>3. /\ Signallers(sy, P, w) = {E[e][1]}
              /\ \A b \in 1 .. m : Contains(Slice(sy.waits, sy.wait_offsets, b), w) => t \/ b = d
            BY <1>2, <3>2, SignalledBy
        <3> QED
            BY <1>1, <1>2, <3>1, <3>3 DEF Signallers, WaitsFor, SignalsFor
    <2>7. \A w \in G : \E e \in Into(E, d) : w = EdgeEntry(E, timeline, e)
        BY <2>1, <2>4 DEF EntriesFor
    <2>8. \A e \in Into(E, d) : EdgeEntry(E, timeline, e) \in G
        BY <2>1, <2>4 DEF EntriesFor
    <2>9. ASSUME NEW w \in G
          PROVE  /\ \E e \in Into(E, d) : f[w] = {E[e][1]}
                 /\ Cardinality(f[w]) = 1
                 /\ \A b \in DOMAIN plan : Contains(WaitsFor(b), w) => timeline \/ b = d
        <3>1. PICK e \in Into(E, d) : w = EdgeEntry(E, timeline, e)
            BY <2>7
        <3>2. f[w] = {E[e][1]}
            BY <2>5, <2>6, <3>1
        <3>3. Cardinality({E[e][1]}) = 1
            BY FS_Singleton
        <3> QED
            BY <2>6, <3>1, <3>2, <3>3
    <2>10. {E[e][1] : e \in Into(E, d)} = Range(plan[d].preds)
        <3>1. SourcesInto(E, d) = Range(plan[d].preds)
            BY <1>1, <1>2, IntoIs
        <3> QED
            BY <3>1 DEF SourcesInto
    <2>11. UNION {f[w] : w \in G} = Range(plan[d].preds)
        <3>1. \A x : x \in UNION {f[w] : w \in G} => x \in {E[e][1] : e \in Into(E, d)}
            BY <2>9
        <3>2. ASSUME NEW e \in Into(E, d)
              PROVE  E[e][1] \in UNION {f[w] : w \in G}
            <4>1. PICK w : w = EdgeEntry(E, timeline, e)
                OBVIOUS
            <4>2. w \in G
                BY <2>8, <4>1
            <4>3. f[w] = {E[e][1]}
                BY <2>5, <2>6, <4>1, <4>2
            <4> QED
                BY <4>2, <4>3
        <3> QED
            BY <2>10, <3>1, <3>2
    <2>12. \A w \in G : f[w] = {s \in DOMAIN plan : Contains(SignalsFor(s), w)}
        BY <2>5
    <2>13. UNION {{s \in DOMAIN plan : Contains(SignalsFor(s), w)} : w \in G} = Range(plan[d].preds)
        BY <2>11, <2>12
    <2>14. \A w \in G : Cardinality({s \in DOMAIN plan : Contains(SignalsFor(s), w)}) = 1
        BY <2>9, <2>12
    <2>15. ~ timeline => \A e \in DOMAIN plan, w \in G : Contains(WaitsFor(e), w) => e = d
        BY <2>9
    <2>16. Cardinality(G) = Len(plan[d].preds)
        BY <2>2, <2>4
    <2> QED
        BY <2>1, <2>2, <2>3, <2>13, <2>14, <2>15, <2>16
<1>5. ArraysMatchEdges
    BY <1>4 DEF ArraysMatchEdges
<1>6. PresentsLast
    <2>1. ASSUME NEW b \in 1 .. m
          PROVE  /\ Contains(WaitsFor(b), ImageAvailable) <=> presenting /\ b = Len(plan)
                 /\ Contains(SignalsFor(b), RenderFinished) <=> presenting /\ b = Len(plan)
        <3>1. Ends(presenting, b, m) <=> presenting /\ b = Len(plan)
            BY <1>1 DEF Ends
        <3>2. Contains(WaitsFor(b), ImageAvailable) <=> Ends(presenting, b, m)
            BY <1>3 DEF Told
        <3>3. Contains(SignalsFor(b), RenderFinished) <=> Ends(presenting, b, m)
            BY <1>3 DEF Told
        <3> QED
            BY <3>1, <3>2, <3>3
    <2> QED
        BY <1>2, <2>1 DEF PresentsLast
<1> QED
    BY <1>5, <1>6 DEF SyncMatches

\* The planned batches come after no other twice, and the arrays are what is
\* prepared for them.
PDistinct == phase \in PlannedPhases => NoneTwice(plan)
PPrepared == phase = "ready" => sync = PrepareBatchSync(plan, timeline, presenting)
SyncInv == PDistinct /\ PPrepared

LEMMA ReadyMatches ==
    ASSUME BuildInv, PlanInv, SyncInv
    PROVE  SyncMatches
<1>1. CASE phase # "ready"
    BY <1>1 DEF SyncMatches, ArraysMatchEdges, PresentsLast
<1>2. CASE phase = "ready"
    <2>1. PICK B, n : ReadyGraph(B, n)
        BY <1>2 DEF ReadyGraph
    <2>2. PICK m \in Nat \ {0} : m = Len(plan)
        BY <2>1, ReadyFacts
    <2>3. plan \in Seq(AnyBatch) /\ Earlier(plan)
        BY <2>1, ReadyFacts
    <2>4. NoneTwice(plan) /\ sync = PrepareBatchSync(plan, timeline, presenting)
        BY <1>2 DEF SyncInv, PDistinct, PPrepared, PlannedPhases
    <2>5. timeline \in BOOLEAN /\ presenting \in BOOLEAN
        BY DEF PlanInv, PTypes
    <2>6. PICK E : E = EdgesOf(plan)
        OBVIOUS
    <2>7. ListedTo(plan, m, E)
        BY <2>2, <2>3, <2>6, EdgesAre
    <2>8. Prepared(sync, plan, E, timeline, presenting, m)
        BY <2>2, <2>3, <2>4, <2>5, <2>6, <2>7 DEF Prepared
    <2> QED
        BY <2>8, PreparedMatches
<1> QED
    BY <1>1, <1>2

\* The planner comes after no batch twice.
LEMMA PlannedOnce ==
    ASSUME GivenWell(queues, preds), \A i \in DOMAIN preds : WellFormed(i),
           NEW B, B = RecordedPlan
    PROVE  IsPlan(B) /\ NoneTwice(B)
<1>1. IsPlan(B) /\ Forward(GivenBy(queues, preds))
    BY PlannedWell
<1>2. PICK n \in Nat : n = Len(B) /\ queues \in Seq(Queues)
    BY <1>1, LenProperties DEF IsPlan, GivenWell
<1>3. ASSUME preds = <<>>, NEW b \in 1 .. n, NEW k \in 1 .. Len(B[b].preds), NEW l \in 1 .. Len(B[b].preds)
      PROVE  k = l
    <2>1. B = PlanBatches
        BY <1>3 DEF RecordedPlan
    <2>2. B[b].preds = IF b = 1 THEN <<>> ELSE <<b - 1>>
        BY <1>2, <2>1, PlanOfChain
    <2>3. CASE B[b].preds = <<>>
        BY <1>3, <2>3
    <2>4. CASE B[b].preds = <<b - 1>>
        BY <1>3, <2>4
    <2> QED
        BY <2>2, <2>3, <2>4
<1>4. ASSUME preds # <<>>, NEW b \in 1 .. n, NEW k \in 1 .. Len(B[b].preds), NEW l \in 1 .. Len(B[b].preds),
             B[b].preds[k] = B[b].preds[l]
      PROVE  k = l
    <2>1. B = PlanDag
        BY <1>4 DEF RecordedPlan
    <2>2. n = Len(queues) /\ B[b].preds = preds[b]
        BY <1>1, <1>2, <1>4, <2>1, DagIs
    <2>3. PICK p \in Seq(Seq(Steps)) : p = preds /\ n = Len(p)
        BY <1>4, <2>2 DEF GivenWell
    <2>4. b \in DOMAIN p /\ p[b] \in Seq(Steps)
        BY <1>2, <2>3
    <2>5. IsInjective(p[b]) /\ DOMAIN p[b] = 1 .. Len(p[b])
        <3>1. WellFormed(b)
            BY <2>3, <2>4
        <3> QED
            BY <2>3, <2>4, <3>1 DEF WellFormed
    <2> QED
        BY <1>4, <2>2, <2>3, <2>5 DEF IsInjective
<1> QED
    BY <1>1, <1>2, <1>3, <1>4 DEF NoneTwice

LEMMA PlanGraphOnce ==
    ASSUME BuildInv, PlanInv, MaxHazards \in Nat, NEW present \in BOOLEAN, PlanGraph(present)
    PROVE  PDistinct'
<1>1. PICK B : B = RecordedPlan
    OBVIOUS
<1>2. \/ /\ \A i \in DOMAIN preds : WellFormed(i)
         /\ phase' = "planned" /\ hazards' \in HazardLists
         /\ plan' = AddResourceDependencies(B, hazards')
      \/ phase' = "rejected"
    BY <1>1 DEF PlanGraph, RecordedPlan
<1>3. GivenWell(queues, preds) /\ queues \in Seq(Queues)
    BY DEF BuildInv, Written, GivenWell
<1>4. CASE phase' = "rejected"
    BY <1>4 DEF PDistinct, PlannedPhases
<1>5. CASE /\ \A i \in DOMAIN preds : WellFormed(i)
           /\ hazards' \in HazardLists /\ plan' = AddResourceDependencies(B, hazards')
    <2>1. IsPlan(B) /\ NoneTwice(B)
        BY <1>1, <1>3, <1>5, PlannedOnce
    <2>2. PICK l \in HazardLists : l = hazards'
        BY <1>5
    <2>3. l \in Seq(Nat \X Nat) /\ \A e \in Range(l) : IsHazard(e)
        BY <1>3, HazardListsAre
    <2>4. GrownBy(B, plan', Range(l))
        BY <1>3, <1>5, <2>1, <2>2, <2>3, HazardsKeep
    <2>5. NoneTwice(plan')
        BY <2>1, <2>4 DEF GrownBy
    <2> QED
        BY <2>5 DEF PDistinct, NoneTwice
<1> QED
    BY <1>2, <1>4, <1>5

EachOnce(s) == \A i, j \in 1 .. Len(s) : s[i] = s[j] => i = j

LEMMA InOrderOnce ==
    ASSUME NEW n \in Nat, NEW S, S \in SUBSET (1 .. n), NEW s, s = InOrder(S)
    PROVE  s \in Seq(S) /\ EachOnce(s)
<1>1. s \in Seq(S) /\ \A i, j \in 1 .. Len(s) : i < j => s[i] < s[j]
    BY InOrderFacts
<1>2. PICK l \in Nat : l = Len(s) /\ \A i \in 1 .. l : s[i] \in S
    BY <1>1, LenProperties, ElementOfSeq
<1>3. ASSUME NEW i \in 1 .. l, NEW j \in 1 .. l, s[i] = s[j]
      PROVE  i = j
    <2>1. s[i] \in 1 .. n /\ s[j] \in 1 .. n
        BY <1>2
    <2>2. ~ (i < j) /\ ~ (j < i)
        BY <1>1, <1>2, <1>3, <2>1
    <2> QED
        BY <2>2
<1> QED
    BY <1>1, <1>2, <1>3 DEF EachOnce

\* No batch comes after a terminal one.
LEMMA SinksOnce ==
    ASSUME NEW P, P \in Seq(AnyBatch), Earlier(P), NEW n \in Nat, n = Len(P),
           NEW s, s = TerminalBatches(P)
    PROVE  /\ s \in Seq(1 .. n)
           /\ EachOnce(s)
           /\ \A b \in Range(s), d \in 1 .. n : ~ Follows(P, b, d)
<1>1. DOMAIN P = 1 .. n
    BY EarlierBatches
<1>2. PICK S : S = {b \in 1 .. n : \A d \in 1 .. n : ~ Contains(P[d].preds, b)}
    OBVIOUS
<1>3. S \in SUBSET (1 .. n) /\ s = InOrder(S)
    BY <1>1, <1>2 DEF TerminalBatches
<1>4. s \in Seq(S) /\ EachOnce(s)
    BY <1>3, InOrderOnce
<1>5. s \in Seq(1 .. n) /\ Range(s) = S
    BY <1>3, InOrderHas
<1>6. \A b \in S, d \in 1 .. n : ~ Follows(P, b, d)
    BY <1>2 DEF Contains, Follows
<1> QED
    BY <1>4, <1>5, <1>6

LEMMA TerminalOnce ==
    ASSUME BuildInv, PlanInv, SyncInv, PrepareTerminal
    PROVE  PDistinct'
<1>1. PICK P, Q, n, s, joins :
        /\ P = plan /\ Q = plan' /\ n = Len(P) /\ s = TerminalBatches(P)
        /\ joins = (preds # <<>> /\ ~ presenting /\ Len(s) > 1)
    OBVIOUS
<1>2. PICK j : j = Batch(DefaultQueue, Len(queues) + 1, Len(queues), s)
    OBVIOUS
<1>3. /\ phase = "recorded"
      /\ Q = IF joins THEN Append(P, j)
             ELSE IF preds # <<>> /\ presenting
             THEN [P EXCEPT ![n].preds = @ \o InOrder(Range(s) \ {n})]
             ELSE P
    BY <1>1, <1>2 DEF PrepareTerminal
<1>4. P \in Seq(AnyBatch) /\ Earlier(P) /\ n \in Nat /\ DOMAIN P = 1 .. n
    <2>1. P \in Seq(AnyBatch) /\ Earlier(P)
        BY <1>1, <1>3 DEF PlanInv, PGrown, PlannedPhases, Grown
    <2> QED
        BY <1>1, <2>1, LenProperties
<1>5. NoneTwice(P)
    BY <1>1, <1>3 DEF SyncInv, PDistinct, PlannedPhases
<1>6. /\ s \in Seq(1 .. n)
      /\ \A i, k \in 1 .. Len(s) : s[i] = s[k] => i = k
      /\ \A b \in Range(s), d \in 1 .. n : ~ Follows(P, b, d)
    BY <1>1, <1>4, SinksOnce DEF EachOnce
<1>7. ASSUME Q = Append(P, j)
      PROVE  NoneTwice(Q)
    <2>1. j.preds = s
        BY <1>2 DEF Batch
    <2>2. Len(Q) = n + 1 /\ Q[n + 1] = j /\ \A b \in 1 .. n : Q[b] = P[b]
        BY <1>1, <1>4, <1>7, AppendProperties
    <2>3. ASSUME NEW b \in 1 .. n + 1, NEW k \in 1 .. Len(Q[b].preds), NEW l \in 1 .. Len(Q[b].preds),
                 Q[b].preds[k] = Q[b].preds[l]
          PROVE  k = l
        <3>1. CASE b = n + 1
            BY <1>6, <2>1, <2>2, <2>3, <3>1
        <3>2. CASE b # n + 1
            <4>1. b \in 1 .. n /\ Q[b] = P[b]
                BY <1>4, <2>2, <3>2
            <4> QED
                BY <1>1, <1>5, <2>3, <4>1 DEF NoneTwice
        <3> QED
            BY <3>1, <3>2
    <2> QED
        BY <2>2, <2>3 DEF NoneTwice
<1>8. ASSUME Q = [P EXCEPT ![n].preds = @ \o InOrder(Range(s) \ {n})]
      PROVE  NoneTwice(Q)
    <2>1. CASE n = 0
        <3>1. n \notin DOMAIN P
            BY <1>4, <2>1
        <3>2. Q = P
            BY <1>4, <1>8, <3>1
        <3> QED
            BY <1>5, <3>2
    <2>2. CASE n # 0
        <3>1. PICK T : T = Range(s) \ {n}
            OBVIOUS
        <3>2. PICK o : o = InOrder(T)
            OBVIOUS
        <3>p. PICK k \in Nat : k = n - 1
            BY <1>4, <2>2
        <3>3. k \in Nat /\ T \in SUBSET (1 .. k)
            <4>1. Range(s) \in SUBSET (1 .. n)
                BY <1>6, RangeOfSeq
            <4> QED
                BY <1>4, <2>2, <3>1, <3>p, <4>1
        <3>4. o \in Seq(T) /\ EachOnce(o)
            BY <3>2, <3>3, InOrderOnce
        <3>5. o \in Seq(1 .. n - 1)
            BY <3>3, <3>4, <3>p, SeqOfMore
        <3>6. n \in 1 .. n /\ MorePreds(P, Q, n, o)
            BY <1>4, <1>8, <2>2, <3>1, <3>2 DEF MorePreds
        <3>7. \A i \in 1 .. Len(o) : ~ Follows(P, o[i], n)
            <4>1. \A i \in 1 .. Len(o) : o[i] \in T
                BY <3>4, ElementOfSeq
            <4> QED
                BY <1>6, <3>1, <3>6, <4>1
        <3> QED
            BY <1>1, <1>4, <1>5, <3>4, <3>5, <3>6, <3>7, StillNoneTwice DEF EachOnce
    <2> QED
        BY <2>1, <2>2
<1>9. NoneTwice(Q)
    BY <1>3, <1>5, <1>7, <1>8
<1> QED
    BY <1>1, <1>9 DEF PDistinct, NoneTwice

LEMMA SyncStarts == BuilderInit => SyncInv
    BY DEF BuilderInit, Init, SyncInv, PDistinct, PPrepared, PlannedPhases

LEMMA SyncStep ==
    ASSUME BuildInv, PlanInv, SyncInv, [BuilderNext]_<<vars, builderVars>>
    PROVE  SyncInv'
<1>1. MaxHazards \in Nat
    BY PlanAssumption DEF PlanAssumption
<1>2. ASSUME UNCHANGED <<plan, timeline, presenting, sync>>, phase' \in {phase, "rejected"}
      PROVE  SyncInv'
    BY <1>2 DEF SyncInv, PDistinct, PPrepared, PlannedPhases, NoneTwice, PrepareBatchSync
<1>3. CASE Piping
    <2>1. UNCHANGED <<plan, timeline, presenting, sync>> /\ phase' \in {phase, "rejected"}
        <3>1. CASE Collect
            BY <3>1 DEF Collect, options
        <3>2. CASE OpenFork \/ OpenBranch \/ CloseBranch \/ CloseFork
            <4>1. UNCHANGED vars
                BY <3>2 DEF OpenFork, OpenBranch, CloseBranch, CloseFork
            <4> QED
                BY <4>1 DEF vars, options
        <3>3. CASE Materialize
            BY <3>3 DEF Materialize, options
        <3>4. ASSUME NEW q \in Queues, Pipe(q) \/ PipeComposite(q)
              PROVE  UNCHANGED <<plan, timeline, presenting, sync>> /\ phase' \in {phase, "rejected"}
            BY <3>4 DEF Pipe, PipeComposite, options
        <3> QED
            BY <1>3, <3>1, <3>2, <3>3, <3>4 DEF Piping
    <2> QED
        BY <1>2, <2>1
<1>4. CASE Appending
    <2>1. UNCHANGED <<plan, timeline, presenting, sync, phase>>
        BY <1>4 DEF Appending, AppendCall, AppendStep, AppendAfter, options
    <2> QED
        BY <1>2, <2>1
<1>5. ASSUME NEW present \in BOOLEAN, PlanGraph(present)
      PROVE  SyncInv'
    <2>1. PDistinct'
        BY <1>1, <1>5, PlanGraphOnce
    <2>2. phase' \in {"planned", "rejected"}
        BY <1>5 DEF PlanGraph
    <2> QED
        BY <2>1, <2>2 DEF SyncInv, PPrepared
<1>6. CASE OpenScopes
    <2>1. phase = "planned" /\ phase' = "recorded" /\ plan' = plan
        BY <1>6 DEF OpenScopes
    <2> QED
        BY <2>1 DEF SyncInv, PDistinct, PPrepared, PlannedPhases, NoneTwice
<1>7. CASE PrepareTerminal
    <2>1. PDistinct' /\ phase' = "joined"
        BY <1>7, TerminalOnce DEF PrepareTerminal
    <2> QED
        BY <2>1 DEF SyncInv, PPrepared
<1>8. ASSUME NEW capable \in BOOLEAN, PrepareSync(capable)
      PROVE  SyncInv'
    <2>1. /\ phase = "joined" /\ plan' = plan /\ presenting' = presenting
          /\ sync' = PrepareBatchSync(plan, timeline', presenting)
        BY <1>8 DEF PrepareSync
    <2>2. NoneTwice(plan')
        BY <2>1 DEF SyncInv, PDistinct, PlannedPhases
    <2>3. sync' = PrepareBatchSync(plan', timeline', presenting')
        BY <2>1
    <2> QED
        BY <2>2, <2>3 DEF SyncInv, PDistinct, PPrepared, NoneTwice, PrepareBatchSync
<1>9. CASE UNCHANGED <<vars, builderVars>>
    <2>1. UNCHANGED <<plan, timeline, presenting, sync, phase>>
        BY <1>9 DEF vars, options
    <2> QED
        BY <1>2, <2>1
<1> QED
    BY <1>3, <1>4, <1>5, <1>6, <1>7, <1>8, <1>9 DEF BuilderNext, Starting, StartGraph

\* The flat arrays of semaphores say what the edges of the plan say, each batch
\* finds its own in its slots, and the presenter's are in the last batch's
\* (prepare_batch_sync and the accessors waits_for and signals_for).
THEOREM SyncsMatch == BuilderSpec => []SyncMatches
<1>1. BuilderInit => BuildInv /\ PlanInv /\ SyncInv
    BY BuildStarts, PlanStarts, SyncStarts
<1>2. BuildInv /\ PlanInv /\ SyncInv /\ [BuilderNext]_<<vars, builderVars>>
        => BuildInv' /\ PlanInv' /\ SyncInv'
    BY BuildStep, PlanStep, SyncStep
<1>3. BuildInv /\ PlanInv /\ SyncInv => SyncMatches
    BY ReadyMatches
<1> QED
    BY <1>1, <1>2, <1>3, PTL DEF BuilderSpec
================================================================================
