---------------------------- MODULE SignerProofs ----------------------------
(* Proofs about the signer pipeline, for every input and every CycleNum. *)
EXTENDS Signer, Integers, SequenceTheorems, FiniteSetTheorems, FunctionTheorems, TLAPS

Md5TypeOK ==
  /\ sent \in 0..Len(Input)
  /\ md5 \in [Items -> {"idle", "lock", "heat", "md5", "crc", "done"}]
  /\ \A i \in Items : i > sent => md5[i] = "idle"

\* The worker between SaveMd5's Lock and Unlock holds the mutex, and
\* dataSignerOverheat is set only while the holder is in DataSignerMd5.
HeldByWorker ==
  /\ \A i \in Items : md5[i] \in {"heat", "md5"} => mutex = i
  /\ overheat => mutex \in Items /\ md5[mutex] = "md5"

LEMMA ItemsFacts == Len(Input) \in Nat /\ NoItem \notin Items
<1>1. Len(Input) \in Nat
  BY LenProperties, InputAssumption
<1>. QED  BY <1>1 DEF Items, NoItem

LEMMA InitHeld == Init => Md5TypeOK /\ HeldByWorker
  BY ItemsFacts DEF Init, Md5TypeOK, HeldByWorker

LEMMA NextHeld == Md5TypeOK /\ HeldByWorker /\ [Next]_vars => Md5TypeOK' /\ HeldByWorker'
<1>. SUFFICES ASSUME Md5TypeOK, HeldByWorker, [Next]_vars
              PROVE  Md5TypeOK' /\ HeldByWorker'
  OBVIOUS
<1>. USE ItemsFacts DEF Md5TypeOK, HeldByWorker, singleVars, multiVars
<1>1. CASE SourceSends
  <2>1. /\ sent' = sent + 1 /\ sent' \in Items /\ sent' \in 0..Len(Input)
        /\ \A i \in Items : i > sent' => i > sent
        /\ sent' > sent
    BY <1>1 DEF SourceSends, Items
  <2>2. md5' = [md5 EXCEPT ![sent'] = "lock"] /\ UNCHANGED <<mutex, overheat>>
    BY <1>1 DEF SourceSends
  <2>3. md5[sent'] = "idle"
    BY <2>1
  <2>4. overheat => sent' # mutex
    BY <2>3
  <2>5. \A i \in Items : i > sent' => i # sent'
    BY <2>1 DEF Items
  <2>. QED  BY <2>1, <2>2, <2>4, <2>5
<1>2. ASSUME NEW i \in Items, LockMd5(i) PROVE Md5TypeOK' /\ HeldByWorker'
  <2>1. /\ mutex = NoItem /\ mutex' = i /\ md5[i] = "lock" /\ sent' = sent /\ overheat' = overheat
        /\ md5' = [md5 EXCEPT ![i] = "heat"]
    BY <1>2 DEF LockMd5, Md5Step
  <2>2. ~overheat /\ \A k \in Items : md5[k] \notin {"heat", "md5"}
    BY <2>1
  <2>. QED  BY <2>1, <2>2
<1>3. ASSUME NEW i \in Items, OverheatLock(i) PROVE Md5TypeOK' /\ HeldByWorker'
  BY <1>3 DEF OverheatLock, Md5Step
<1>4. ASSUME NEW i \in Items, Md5Returns(i) PROVE Md5TypeOK' /\ HeldByWorker'
  <2>1. /\ md5[i] = "md5" /\ md5' = [md5 EXCEPT ![i] = "crc"] /\ sent' = sent
        /\ overheat' = FALSE /\ mutex' = NoItem
    BY <1>4 DEF Md5Returns, Md5Step
  <2>2. \A k \in Items \ {i} : md5[k] \notin {"heat", "md5"}
    BY <2>1
  <2>. QED  BY <2>1, <2>2
<1>5. ASSUME NEW i \in Items, Crc2(i) PROVE Md5TypeOK' /\ HeldByWorker'
  BY <1>5 DEF Crc2, Md5Step
<1>6. CASE UNCHANGED <<sent, md5, mutex, overheat>>
  BY <1>6
<1>. QED
  BY <1>1, <1>2, <1>3, <1>4, <1>5, <1>6
  DEF Next, ItemStep, SourceReturns, Crc1, SingleReady, SingleToMulti, CycleCrc, MultiReady,
      MultiToCombine, RangeEnds, StageReturns, CombineToSink, PipelineReturns, vars

\* No worker ever finds dataSignerOverheat set: DataSignerMd5 is never entered twice.
THEOREM NoOverheat == Spec => []NeverOverheats
<1>1. Md5TypeOK /\ HeldByWorker => NeverOverheats
  BY DEF Md5TypeOK, HeldByWorker, NeverOverheats
<1>. QED  BY <1>1, InitHeld, NextHeld, PTL DEF Spec

\* A stage has returned, with no worker left, when its channel is closed.
StageInv ==
  /\ \A j \in {"single", "multi"} : j \in closed => stage[j] = "returned"
  /\ stage["single"] = "returned" => \A i \in Items : single[i] \notin {"work", "send"}
  /\ stage["multi"] = "returned" => \A i \in Items : multi[i] \notin {"work", "send"}

LEMMA InitStages == Init => TypeOK /\ StageInv
<1>. SUFFICES ASSUME Init PROVE TypeOK /\ StageInv
  OBVIOUS
<1>1. sent \in 0..Len(Input)
  BY ItemsFacts DEF Init
<1>2. TypeOK
  BY <1>1 DEF Init, TypeOK
<1>3. StageInv
  BY DEF Init, StageInv
<1>. QED  BY <1>2, <1>3

LEMMA NextStages == TypeOK /\ StageInv /\ [Next]_vars => TypeOK' /\ StageInv'
<1>. SUFFICES ASSUME TypeOK, StageInv, [Next]_vars
              PROVE  TypeOK' /\ StageInv'
  OBVIOUS
<1>. USE ItemsFacts DEF TypeOK, StageInv, singleVars, multiVars
<1>1. CASE SourceSends
  <2>1. sent' = sent + 1 /\ sent' \in Items /\ sent' \in 0..Len(Input)
    BY <1>1 DEF SourceSends, Items
  <2>. QED  BY <1>1, <2>1 DEF SourceSends
<1>2. CASE SourceReturns
  BY <1>2 DEF SourceReturns
<1>3. ASSUME NEW i \in Items, Crc1(i) PROVE TypeOK' /\ StageInv'
  BY <1>3 DEF Crc1
<1>4. ASSUME NEW i \in Items, LockMd5(i) PROVE TypeOK' /\ StageInv'
  BY <1>4 DEF LockMd5, Md5Step
<1>5. ASSUME NEW i \in Items, OverheatLock(i) \/ Md5Returns(i) \/ Crc2(i) PROVE TypeOK' /\ StageInv'
  BY <1>5 DEF OverheatLock, Md5Returns, Crc2, Md5Step
<1>6. ASSUME NEW i \in Items, SingleReady(i) PROVE TypeOK' /\ StageInv'
  BY <1>6 DEF SingleReady
<1>7. ASSUME NEW i \in Items, SingleToMulti(i) PROVE TypeOK' /\ StageInv'
  BY <1>7 DEF SingleToMulti
<1>8. ASSUME NEW i \in Items, MultiReady(i) PROVE TypeOK' /\ StageInv'
  BY <1>8 DEF MultiReady
<1>9. ASSUME NEW i \in Items, MultiToCombine(i) PROVE TypeOK' /\ StageInv'
  BY <1>9 DEF MultiToCombine
<1>10. ASSUME NEW i \in Items, NEW th \in Cycle, CycleCrc(i, th) PROVE TypeOK' /\ StageInv'
  BY <1>10 DEF CycleCrc
<1>11. ASSUME NEW j \in {"single", "multi"}, RangeEnds(j) PROVE TypeOK' /\ StageInv'
  BY <1>11 DEF RangeEnds
<1>12. ASSUME NEW j \in {"single", "multi"}, StageReturns(j) PROVE TypeOK' /\ StageInv'
  BY <1>12 DEF StageReturns
<1>13. CASE CombineToSink \/ PipelineReturns
  BY <1>13 DEF CombineToSink, PipelineReturns
<1>14. CASE UNCHANGED vars
  BY <1>14 DEF vars
<1>. QED
  BY <1>1, <1>2, <1>3, <1>4, <1>5, <1>6, <1>7, <1>8, <1>9, <1>10, <1>11, <1>12, <1>13, <1>14
  DEF Next, ItemStep

LEMMA Invariance == Spec => [](TypeOK /\ StageInv)
  BY InitStages, NextStages, PTL DEF Spec

\* Every goroutine of the pipeline keeps to its states, for any input and any
\* CycleNum; no source sends more values than there are (signer.go:78-136).
THEOREM TypeCorrect == Spec => []TypeOK
<1>1. TypeOK /\ StageInv => TypeOK
  OBVIOUS
<1>. QED  BY <1>1, Invariance, PTL

\* No worker sends on a channel ExecutePipeline has closed: a stage returns only
\* after its wait group has let it (signer.go:24-33, 84).
THEOREM NoSendAfterClose == Spec => []NoSendOnClosed
<1>1. TypeOK /\ StageInv => NoSendOnClosed
  BY DEF TypeOK, StageInv, NoSendOnClosed
<1>. QED  BY <1>1, Invariance, PTL

-----------------------------------------------------------------------------
(* What CombineResults' sort gives does not depend on the order in which it
   received the hashes. *)

Ascending(x, p, n) == \A i, j \in 1..n : i < j => x[p[i]] <= x[p[j]]

LEMMA OrderFacts ==
  ASSUME NEW n \in Nat, NEW x \in [1..n -> Int], NEW p \in Orders(n)
  PROVE  p \in [1..n -> 1..n] /\ \A i \in 1..n : p[i] \in 1..n /\ x[p[i]] \in Int
  BY DEF Orders

LEMMA IntervalSize == ASSUME NEW n \in Nat PROVE IsFiniteSet(1..n) /\ Cardinality(1..n) = n
  BY FS_Interval

LEMMA OrderIsBijection ==
  ASSUME NEW n \in Nat, NEW p \in Orders(n)
  PROVE  p \in Injection(1..n, 1..n) /\ p \in Surjection(1..n, 1..n)
<1>1. IsFiniteSet(1..n)
  BY FS_Interval
<1>2. p \in Injection(1..n, 1..n)
  BY DEF Orders, Injection, IsInjective
<1>. QED  BY <1>1, <1>2, FS_Injection

\* Some order puts n keys one after the other: count the keys before each.
LEMMA SortExists ==
  ASSUME NEW n \in Nat, NEW x \in [1..n -> Int]
  PROVE  \E p \in Orders(n) : Ascending(x, p, n)
<1>. DEFINE below(i) == {j \in 1..n : x[j] < x[i] \/ (x[j] = x[i] /\ j <= i)}
            pos == [i \in 1..n |-> Cardinality(below(i))]
<1>1. /\ IsFiniteSet(1..n) /\ Cardinality(1..n) = n
      /\ \A i \in 1..n : IsFiniteSet(below(i)) /\ below(i) \subseteq 1..n
  <2>1. IsFiniteSet(1..n) /\ Cardinality(1..n) = n
    BY IntervalSize
  <2>2. \A i \in 1..n : below(i) \in SUBSET (1..n)
    OBVIOUS
  <2>. QED  BY <2>1, <2>2, FS_Subset
<1>2. ASSUME NEW i \in 1..n, NEW j \in 1..n, i # j, x[i] < x[j] \/ (x[i] = x[j] /\ i < j)
      PROVE  Cardinality(below(i)) < Cardinality(below(j))
  <2>1. below(i) \in SUBSET below(j)
    BY <1>2
  <2>2. j \in below(j) /\ j \notin below(i)
    BY <1>2
  <2>3. Cardinality(below(i)) <= Cardinality(below(j)) /\ Cardinality(below(i)) # Cardinality(below(j))
    BY <1>1, <2>1, <2>2, FS_Subset
  <2>4. Cardinality(below(i)) \in Nat /\ Cardinality(below(j)) \in Nat
    BY <1>1, FS_CardinalityType
  <2>. HIDE DEF below
  <2>. QED  BY <2>3, <2>4
<1>3. \A i \in 1..n : Cardinality(below(i)) \in 1..n
  <2>. SUFFICES ASSUME NEW i \in 1..n PROVE Cardinality(below(i)) \in 1..n
    OBVIOUS
  <2>1. Cardinality(below(i)) \in Nat /\ Cardinality(below(i)) <= n
    BY <1>1, FS_CardinalityType, FS_Subset
  <2>2. i \in below(i)
    OBVIOUS
  <2>3. Cardinality(below(i)) # 0
    BY <1>1, <2>2, FS_EmptySet
  <2>. HIDE DEF below
  <2>. QED  BY <2>1, <2>3
<1>4. pos \in Orders(n)
  <2>1. pos \in [1..n -> 1..n]
    BY <1>3
  <2>2. ASSUME NEW i \in 1..n, NEW j \in 1..n, pos[i] = pos[j], i # j PROVE FALSE
    <3>1. x[i] < x[j] \/ x[j] < x[i] \/ (x[i] = x[j] /\ (i < j \/ j < i))
      BY <2>2
    <3>2. Cardinality(below(i)) < Cardinality(below(j)) \/ Cardinality(below(j)) < Cardinality(below(i))
      BY <1>2, <2>2, <3>1
    <3>3. Cardinality(below(i)) = Cardinality(below(j)) /\ Cardinality(below(i)) \in 1..n
      BY <1>3, <2>2
    <3>. HIDE DEF below
    <3>. QED  BY <3>2, <3>3
  <2>. QED  BY <2>1, <2>2 DEF Orders
<1>. DEFINE p == [k \in 1..n |-> CHOOSE i \in 1..n : pos[i] = k]
<1>5. \A k \in 1..n : p[k] \in 1..n /\ pos[p[k]] = k
  <2>1. \A k \in 1..n : \E i \in 1..n : pos[i] = k
    BY <1>4, OrderIsBijection DEF Surjection
  <2>. HIDE DEF pos
  <2>. QED  BY <2>1
<1>6. p \in Orders(n)
  <2>1. p \in [1..n -> 1..n]
    BY <1>5
  <2>. HIDE DEF p
  <2>. QED  BY <1>5, <2>1 DEF Orders
<1>7. ASSUME NEW i \in 1..n, NEW j \in 1..n, i < j PROVE x[p[i]] <= x[p[j]]
  <2>1. /\ p[i] \in 1..n /\ p[j] \in 1..n
        /\ Cardinality(below(p[i])) = i /\ Cardinality(below(p[j])) = j
    BY <1>5
  <2>. HIDE DEF p, below
  <2>2. ~(x[p[j]] < x[p[i]])
    <3>1. ASSUME x[p[j]] < x[p[i]] PROVE FALSE
      <4>1. p[j] # p[i]
        BY <3>1, <2>1
      <4>2. Cardinality(below(p[j])) < Cardinality(below(p[i]))
        BY <1>2, <2>1, <3>1, <4>1
      <4>. QED  BY <4>2, <2>1, <1>7
    <3>. QED  BY <3>1
  <2>. QED  BY <2>1, <2>2
<1>. HIDE DEF p
<1>. QED  BY <1>6, <1>7 DEF Ascending

\* An order moves the keys up to c about, it does not change how many there are.
LEMMA OrderKeepsCount ==
  ASSUME NEW n \in Nat, NEW x \in [1..n -> Int], NEW p \in Orders(n), NEW c \in Int
  PROVE  /\ IsFiniteSet({i \in 1..n : x[p[i]] <= c})
         /\ Cardinality({i \in 1..n : x[p[i]] <= c}) = Cardinality({i \in 1..n : x[i] <= c})
<1>. DEFINE A == {i \in 1..n : x[p[i]] <= c}
            B == {i \in 1..n : x[i] <= c}
            f == [i \in A |-> p[i]]
<1>1. IsFiniteSet(A) /\ IsFiniteSet(B)
  BY FS_Interval, FS_Subset, A \in SUBSET (1..n), B \in SUBSET (1..n)
<1>2. f \in [A -> B] /\ \A i, j \in A : f[i] = f[j] => i = j
  BY DEF Orders
<1>3. \A k \in B : \E i \in A : f[i] = k
  <2>1. \A k \in 1..n : \E i \in 1..n : p[i] = k
    BY OrderIsBijection DEF Surjection
  <2>. QED  BY <2>1
<1>. HIDE DEF A, B, f
<1>4. f \in Injection(A, B) /\ f \in Surjection(A, B)
  BY <1>2, <1>3 DEF Injection, IsInjective, Surjection
<1>5. Cardinality(A) = Cardinality(B)
  BY <1>1, <1>4, FS_Injection
<1>. QED  BY <1>1, <1>5 DEF A, B

\* The keys two such orders put at a place cannot differ: up to the smaller one
\* the one order would have k keys, the other fewer.
LEMMA SortNotBelow ==
  ASSUME NEW n \in Nat, NEW x \in [1..n -> Int], NEW a \in Orders(n), NEW b \in Orders(n),
         NEW k \in 1..n, NEW c \in Int, c = x[a[k]],
         Ascending(x, a, n), Ascending(x, b, n)
  PROVE  ~(c < x[b[k]])
<1>. SUFFICES ASSUME c < x[b[k]] PROVE FALSE
  OBVIOUS
<1>. DEFINE A == {i \in 1..n : x[a[i]] <= c}
            B == {i \in 1..n : x[b[i]] <= c}
<1>1. k \in Int /\ k >= 1
  OBVIOUS
<1>a. \A i \in 1..n : x[a[i]] \in Int
  BY OrderFacts
<1>b. \A i \in 1..n : x[b[i]] \in Int
  BY OrderFacts
<1>2. 1..k \in SUBSET A
  <2>1. \A i \in 1..k : i \in 1..n /\ (i < k \/ i = k)
    OBVIOUS
  <2>2. \A i \in 1..k : i < k => x[a[i]] <= x[a[k]]
    BY <2>1 DEF Ascending
  <2>3. \A i \in 1..k : x[a[i]] <= c
    BY <1>a, <2>1, <2>2
  <2>. QED  BY <2>1, <2>3
<1>3. B \in SUBSET (1..(k - 1))
  <2>1. ASSUME NEW i \in 1..n, ~(i < k) PROVE ~(x[b[i]] <= c)
    <3>1. i = k \/ k < i
      BY <2>1
    <3>2. x[b[k]] <= x[b[i]]
      <4>1. k < i => x[b[k]] <= x[b[i]]
        BY DEF Ascending
      <4>. QED  BY <1>b, <3>1, <4>1
    <3>. QED  BY <1>b, <3>2
  <2>2. \A i \in 1..n : i < k => i \in 1..(k - 1)
    OBVIOUS
  <2>. QED  BY <2>1, <2>2
<1>4. IsFiniteSet(A) /\ IsFiniteSet(B) /\ Cardinality(A) = Cardinality(B)
  <2>1. /\ IsFiniteSet(A) /\ Cardinality(A) = Cardinality({i \in 1..n : x[i] <= c})
    BY OrderKeepsCount
  <2>2. /\ IsFiniteSet(B) /\ Cardinality(B) = Cardinality({i \in 1..n : x[i] <= c})
    BY OrderKeepsCount
  <2>. HIDE DEF A, B
  <2>. QED  BY <2>1, <2>2
<1>. HIDE DEF A, B
<1>5. Cardinality(1..k) = k /\ IsFiniteSet(1..(k - 1)) /\ Cardinality(1..(k - 1)) = k - 1
  <2>1. Cardinality(1..k) = k
    BY <1>1, FS_Interval
  <2>2. k - 1 \in Int
    BY <1>1
  <2>3. IsFiniteSet(1..(k - 1)) /\ Cardinality(1..(k - 1)) = IF 1 > k - 1 THEN 0 ELSE (k - 1) - 1 + 1
    BY <2>2, FS_Interval, 1 \in Int
  <2>. QED  BY <1>1, <2>1, <2>3
<1>6. k <= Cardinality(A) /\ Cardinality(B) <= k - 1
  <2>1. Cardinality(1..k) <= Cardinality(A)
    BY <1>2, <1>4, FS_Subset
  <2>2. Cardinality(B) <= Cardinality(1..(k - 1))
    BY <1>3, <1>5, FS_Subset
  <2>. QED  BY <2>1, <2>2, <1>5
<1>7. Cardinality(A) \in Nat /\ Cardinality(B) \in Nat
  BY <1>4, FS_CardinalityType
<1>. QED  BY <1>1, <1>4, <1>6, <1>7

\* Two orders that both put the keys one after the other give the same keys.
LEMMA SortUnique ==
  ASSUME NEW n \in Nat, NEW x \in [1..n -> Int], NEW p \in Orders(n), NEW q \in Orders(n),
         Ascending(x, p, n), Ascending(x, q, n)
  PROVE  \A k \in 1..n : x[p[k]] = x[q[k]]
<1>. TAKE k \in 1..n
<1>1. x[p[k]] \in Int /\ x[q[k]] \in Int
  BY OrderFacts
<1>2. ~(x[p[k]] < x[q[k]])
  BY <1>1, SortNotBelow
<1>3. ~(x[q[k]] < x[p[k]])
  BY <1>1, SortNotBelow
<1>. QED  BY <1>1, <1>2, <1>3

-----------------------------------------------------------------------------
(* The pipeline: what has reached which stage. *)

Full == [th \in Cycle |-> th]

\* A worker of MultiHash that sends has all its parts, each in its own place.
PartsInv ==
  /\ parts \in [Items -> [Cycle -> Cycle \cup {Unset}]]
  /\ \A i \in Items, th \in Cycle : parts[i][th] \in {th, Unset}
  /\ \A i \in Items : multi[i] \in {"send", "done"} => parts[i] = Full

\* A value is in SingleHash once it is sent, in MultiHash once SingleHash is
\* done with it, and a channel is closed after the one before it.
FlowInv ==
  /\ \A i \in Items : i <= sent <=> single[i] # "none"
  /\ \A i \in Items : single[i] = "done" <=> multi[i] # "none"
  /\ "source" \in closed => sent = Len(Input)
  /\ stage["single"] # "range" => "source" \in closed
  /\ stage["multi"] # "range" => "single" \in closed

\* What CombineResults holds when the values reach it in this order.
Arrived(order) == [k \in 1..Len(order) |-> Hash(order[k], Full)]

\* Every value MultiHash is done with has reached CombineResults once.
Arrival(order) ==
  /\ order \in Seq(Items)
  /\ vals = Arrived(order)
  /\ \A k, l \in 1..Len(order) : order[k] = order[l] => k = l
  /\ \A i \in Items : multi[i] = "done" <=> \E k \in 1..Len(order) : order[k] = i

CollectInv == \E order \in Seq(Items) : Arrival(order)

OutcomeInv ==
  /\ "combine" \notin closed => result = << >>
  /\ "combine" \in closed => result = Reference

\* w is in order when read through p.
InOrder(w, p, n) == \A i, j \in 1..n : i < j => w[p[i]].rank <= w[p[j]].rank

LEMMA SortedFacts ==
  ASSUME NEW w, \E p \in Orders(Len(w)) : InOrder(w, p, Len(w))
  PROVE  \E p \in Orders(Len(w)) : InOrder(w, p, Len(w)) /\ Sorted(w) = [i \in 1..Len(w) |-> w[p[i]]]
<1>. DEFINE p == CHOOSE p \in Orders(Len(w)) : InOrder(w, p, Len(w))
<1>1. p \in Orders(Len(w)) /\ InOrder(w, p, Len(w))
  OBVIOUS
<1>2. Sorted(w) = [i \in 1..Len(w) |-> w[p[i]]]
  BY DEF Sorted, InOrder
<1>. QED  BY <1>1, <1>2

LEMMA InOrderIsAscending ==
  ASSUME NEW n \in Nat, NEW x, NEW w, NEW ps, NEW p \in Orders(n),
         \A k \in 1..n : w[k] = [rank |-> x[k], parts |-> ps]
  PROVE  InOrder(w, p, n) <=> Ascending(x, p, n)
<1>1. \A i \in 1..n : p[i] \in 1..n
  BY DEF Orders
<1>2. \A i \in 1..n : w[p[i]].rank = x[p[i]]
  <2>. TAKE i \in 1..n
  <2>1. p[i] \in 1..n
    BY <1>1
  <2>2. w[p[i]] = [rank |-> x[p[i]], parts |-> ps]
    BY <2>1
  <2>. QED  BY <2>2
<1>. QED  BY <1>2 DEF InOrder, Ascending

LEMMA SortForgetsArrival ==
  ASSUME NEW order \in Orders(Len(Input)), NEW hs, NEW ps,
         hs = [k \in Items |-> Hash(order[k], ps)]
  PROVE  Sorted(hs) = Sorted([i \in Items |-> Hash(i, ps)])
<1>. DEFINE n == Len(Input)
            x == [i \in 1..n |-> Rank[Input[i]]]
            y == [k \in 1..n |-> x[order[k]]]
            ref == [i \in Items |-> Hash(i, ps)]
<1>1. n \in Nat /\ Items = 1..n
  BY ItemsFacts DEF Items
<1>2. x \in [1..n -> Int]
  <2>1. \A i \in 1..n : Input[i] \in DOMAIN Rank
    BY <1>1, ElementOfSeq, InputAssumption
  <2>. QED  BY <2>1, RankAssumption
<1>3. order \in [1..n -> 1..n]
  BY DEF Orders
<1>4. y \in [1..n -> Int]
  BY <1>2, <1>3
<1>5. Len(hs) = n /\ Len(ref) = n
  <2>1. hs \in [1..n -> {Hash(i, ps) : i \in 1..n}] /\ ref \in [1..n -> {Hash(i, ps) : i \in 1..n}]
    BY <1>1, <1>3
  <2>. QED  BY <2>1, <1>1, LenProperties, SeqDef
<1>6. \A k \in 1..n : hs[k] = Hash(order[k], ps) /\ ref[k] = Hash(k, ps)
  BY <1>1
<1>7. \A k \in 1..n : Hash(k, ps) = [rank |-> x[k], parts |-> ps]
  BY DEF Hash
<1>8. \A k \in 1..n : hs[k] = [rank |-> y[k], parts |-> ps] /\ ref[k] = [rank |-> x[k], parts |-> ps]
  BY <1>3, <1>6, <1>7
<1>. HIDE DEF n, x, y, ref
<1>9. PICK p \in Orders(n) : Ascending(y, p, n) /\ Sorted(hs) = [k \in 1..n |-> hs[p[k]]]
  <2>1. \E p \in Orders(n) : InOrder(hs, p, n)
    <3>1. PICK p \in Orders(n) : Ascending(y, p, n)
      BY <1>1, <1>4, SortExists
    <3>. QED  BY <1>1, <1>8, <3>1, InOrderIsAscending
  <2>2. PICK p \in Orders(n) : InOrder(hs, p, n) /\ Sorted(hs) = [k \in 1..n |-> hs[p[k]]]
    BY <1>5, <2>1, SortedFacts
  <2>3. \A k \in 1..n : hs[k] = [rank |-> y[k], parts |-> ps]
    BY <1>8
  <2>4. Ascending(y, p, n)
    BY <1>1, <2>2, <2>3, InOrderIsAscending
  <2>. QED  BY <2>2, <2>4
<1>10. PICK q \in Orders(n) : Ascending(x, q, n) /\ Sorted(ref) = [k \in 1..n |-> ref[q[k]]]
  <2>1. \E q \in Orders(n) : InOrder(ref, q, n)
    BY <1>1, <1>2, <1>8, SortExists, InOrderIsAscending
  <2>2. \E q \in Orders(n) : InOrder(ref, q, n) /\ Sorted(ref) = [k \in 1..n |-> ref[q[k]]]
    BY <1>5, <2>1, SortedFacts
  <2>. QED  BY <1>1, <1>8, <2>2, InOrderIsAscending
<1>. DEFINE r == [k \in 1..n |-> order[p[k]]]
<1>11. \A k \in 1..n : p[k] \in 1..n /\ q[k] \in 1..n /\ order[k] \in 1..n
  BY DEF Orders, n
<1>12. r \in Orders(n)
  BY <1>11 DEF Orders, n
<1>13. \A k \in 1..n : y[k] = x[order[k]]
  BY DEF y
<1>14. \A k \in 1..n : x[r[k]] = y[p[k]]
  BY <1>11, <1>13
<1>. HIDE DEF r
<1>15. Ascending(x, r, n)
  BY <1>9, <1>14 DEF Ascending
<1>16. \A k \in 1..n : x[r[k]] = x[q[k]]
  BY <1>1, <1>2, <1>10, <1>12, <1>15, SortUnique
<1>17. \A k \in 1..n : hs[p[k]] = ref[q[k]]
  <2>. TAKE k \in 1..n
  <2>1. y[p[k]] = x[q[k]]
    BY <1>14, <1>16
  <2>2. p[k] \in 1..n /\ q[k] \in 1..n
    BY <1>11
  <2>3. hs[p[k]] = [rank |-> y[p[k]], parts |-> ps] /\ ref[q[k]] = [rank |-> x[q[k]], parts |-> ps]
    BY <1>8, <2>2
  <2>. QED  BY <2>1, <2>3
<1>18. Sorted(hs) = Sorted(ref)
  BY <1>9, <1>10, <1>17
<1>. QED  BY <1>18 DEF ref

LEMMA InitPipe == Init => PartsInv /\ FlowInv /\ CollectInv /\ OutcomeInv
<1>. SUFFICES ASSUME Init PROVE PartsInv /\ FlowInv /\ CollectInv /\ OutcomeInv
  OBVIOUS
<1>1. PartsInv
  BY DEF Init, PartsInv
<1>2. FlowInv
  BY ItemsFacts DEF Init, FlowInv, Items
<1>3. Arrival(<< >>)
  <2>1. << >> \in Seq(Items) /\ Len(<< >>) = 0
    BY EmptySeq
  <2>2. Arrived(<< >>) = << >>
    BY <2>1 DEF Arrived
  <2>. QED  BY <2>1, <2>2 DEF Init, Arrival
<1>4. CollectInv
  BY <1>3, EmptySeq DEF CollectInv
<1>5. OutcomeInv
  BY DEF Init, OutcomeInv
<1>. QED  BY <1>1, <1>2, <1>4, <1>5

LEMMA NextParts == TypeOK /\ PartsInv /\ FlowInv /\ [Next]_vars => PartsInv'
<1>. SUFFICES ASSUME TypeOK, PartsInv, FlowInv, [Next]_vars PROVE PartsInv'
  OBVIOUS
<1>. USE DEF PartsInv
<1>1. ASSUME NEW i \in Items, SingleToMulti(i) PROVE PartsInv'
  BY <1>1 DEF SingleToMulti, TypeOK
<1>2. ASSUME NEW i \in Items, NEW th \in Cycle, CycleCrc(i, th) PROVE PartsInv'
  <2>1. /\ multi[i] = "work" /\ multi' = multi
        /\ parts' = [parts EXCEPT ![i][th] = th]
    BY <1>2 DEF CycleCrc
  <2>2. parts' \in [Items -> [Cycle -> Cycle \cup {Unset}]]
    BY <2>1
  <2>3. \A k \in Items, t \in Cycle : parts'[k][t] \in {t, Unset}
    BY <2>1
  <2>4. \A k \in Items : multi'[k] \in {"send", "done"} => parts'[k] = Full
    BY <2>1
  <2>. QED  BY <2>2, <2>3, <2>4
<1>3. ASSUME NEW i \in Items, MultiReady(i) PROVE PartsInv'
  <2>1. /\ \A th \in Cycle : parts[i][th] # Unset
        /\ multi' = [multi EXCEPT ![i] = "send"] /\ parts' = parts
    BY <1>3 DEF MultiReady
  <2>2. parts[i] = Full
    BY <2>1 DEF Full
  <2>. QED  BY <2>1, <2>2 DEF TypeOK
<1>4. ASSUME NEW i \in Items, MultiToCombine(i) PROVE PartsInv'
  BY <1>4 DEF MultiToCombine, TypeOK
<1>5. CASE UNCHANGED multiVars
  BY <1>5 DEF multiVars
<1>. QED
  BY <1>1, <1>2, <1>3, <1>4, <1>5
  DEF Next, ItemStep, SourceSends, SourceReturns, Crc1, LockMd5, OverheatLock, Md5Returns, Crc2,
      Md5Step, SingleReady, RangeEnds, StageReturns, CombineToSink, PipelineReturns, multiVars, vars

LEMMA NextFlow == TypeOK /\ StageInv /\ FlowInv /\ [Next]_vars => FlowInv'
<1>. SUFFICES ASSUME TypeOK, StageInv, FlowInv, [Next]_vars PROVE FlowInv'
  OBVIOUS
<1>. USE ItemsFacts DEF FlowInv, TypeOK, singleVars, multiVars
<1>1. CASE SourceSends
  <2>1. /\ sent' = sent + 1 /\ sent' \in Items /\ sent < Len(Input) /\ stage["single"] = "range"
        /\ single' = [single EXCEPT ![sent'] = "work"] /\ UNCHANGED <<closed, stage, multi>>
    BY <1>1 DEF SourceSends, Items
  <2>2. single[sent'] = "none"
    BY <2>1
  <2>3. \A i \in Items : i <= sent' <=> single'[i] # "none"
    BY <2>1 DEF Items
  <2>4. \A i \in Items : single'[i] = "done" <=> multi'[i] # "none"
    BY <2>1, <2>2
  <2>. QED  BY <2>1, <2>3, <2>4
<1>2. CASE SourceReturns
  BY <1>2 DEF SourceReturns
<1>3. ASSUME NEW i \in Items, SingleReady(i) PROVE FlowInv'
  BY <1>3 DEF SingleReady
<1>4. ASSUME NEW i \in Items, SingleToMulti(i) PROVE FlowInv'
  BY <1>4 DEF SingleToMulti
<1>5. ASSUME NEW i \in Items, MultiReady(i) \/ MultiToCombine(i) PROVE FlowInv'
  BY <1>5 DEF MultiReady, MultiToCombine
<1>6. ASSUME NEW j \in {"single", "multi"}, RangeEnds(j) PROVE FlowInv'
  BY <1>6 DEF RangeEnds
<1>7. ASSUME NEW j \in {"single", "multi"}, StageReturns(j) PROVE FlowInv'
  BY <1>7 DEF StageReturns
<1>8. CASE CombineToSink
  BY <1>8 DEF CombineToSink
<1>9. CASE UNCHANGED <<sent, single, multi, closed, stage>>
  BY <1>9
<1>. QED
  BY <1>1, <1>2, <1>3, <1>4, <1>5, <1>6, <1>7, <1>8, <1>9
  DEF Next, ItemStep, Crc1, LockMd5, OverheatLock, Md5Returns, Crc2, Md5Step, CycleCrc,
      PipelineReturns, vars

LEMMA NextCollect == TypeOK /\ PartsInv /\ FlowInv /\ CollectInv /\ [Next]_vars => CollectInv'
<1>. SUFFICES ASSUME TypeOK, PartsInv, FlowInv, CollectInv, [Next]_vars PROVE CollectInv'
  OBVIOUS
<1>1. PICK order \in Seq(Items) : Arrival(order)
  BY DEF CollectInv
<1>2. CASE UNCHANGED <<vals, multi>>
  BY <1>1, <1>2 DEF CollectInv, Arrival
<1>3. ASSUME NEW i \in Items, vals' = vals,
             \A k \in Items : multi'[k] = "done" <=> multi[k] = "done"
      PROVE  CollectInv'
  BY <1>1, <1>3 DEF CollectInv, Arrival
<1>4. ASSUME NEW i \in Items, SingleToMulti(i) \/ MultiReady(i) PROVE CollectInv'
  <2>1. vals' = vals /\ \A k \in Items : multi'[k] = "done" <=> multi[k] = "done"
    BY <1>4 DEF SingleToMulti, MultiReady, TypeOK, FlowInv
  <2>. QED  BY <1>3, <2>1
<1>5. ASSUME NEW i \in Items, MultiToCombine(i) PROVE CollectInv'
  <2>. DEFINE n == Len(order)
              longer == Append(order, i)
  <2>1. /\ multi[i] = "send" /\ multi' = [multi EXCEPT ![i] = "done"]
        /\ vals' = Append(vals, Hash(i, Full))
    BY <1>5 DEF MultiToCombine, PartsInv
  <2>2. /\ longer \in Seq(Items) /\ n \in Nat /\ Len(longer) = n + 1 /\ longer[n + 1] = i
        /\ \A k \in 1..n : longer[k] = order[k]
    BY AppendProperties, LenProperties
  <2>3. \A k \in 1..n : order[k] # i
    BY <1>1, <2>1 DEF Arrival
  <2>. HIDE DEF longer
  <2>4. \A k, l \in 1..Len(longer) : longer[k] = longer[l] => k = l
    BY <1>1, <2>2, <2>3 DEF Arrival
  <2>5. \A m \in Items : multi'[m] = "done" <=> \E k \in 1..Len(longer) : longer[k] = m
    <3>. TAKE m \in Items
    <3>1. multi'[m] = "done" <=> m = i \/ multi[m] = "done"
      BY <2>1 DEF TypeOK
    <3>2. multi[m] = "done" <=> \E k \in 1..n : order[k] = m
      BY <1>1 DEF Arrival
    <3>3. (\E k \in 1..Len(longer) : longer[k] = m) <=> m = i \/ \E k \in 1..n : order[k] = m
      BY <2>2
    <3>. QED  BY <3>1, <3>2, <3>3
  <2>6. vals' = Arrived(longer)
    <3>1. vals = [k \in 1..n |-> Hash(order[k], Full)]
      BY <1>1 DEF Arrival, Arrived
    <3>2. vals \in Seq({Hash(k, Full) : k \in Items}) /\ Len(vals) = n
      <4>1. \A k \in 1..n : order[k] \in Items
        BY ElementOfSeq
      <4>2. vals \in [1..n -> {Hash(k, Full) : k \in Items}]
        BY <3>1, <4>1
      <4>. QED  BY <4>2, <2>2, SeqDef, LenProperties
    <3>3. vals' = [k \in 1..(n + 1) |-> IF k = n + 1 THEN Hash(i, Full) ELSE vals[k]]
      <4>1. /\ vals' \in Seq({Hash(k, Full) : k \in Items}) /\ Len(vals') = n + 1
            /\ vals'[n + 1] = Hash(i, Full) /\ \A k \in 1..n : vals'[k] = vals[k]
        BY <2>1, <3>2, AppendProperties
      <4>2. vals' = [k \in 1..(n + 1) |-> vals'[k]]
        BY <4>1, LenProperties
      <4>3. \A k \in 1..(n + 1) : vals'[k] = IF k = n + 1 THEN Hash(i, Full) ELSE vals[k]
        BY <2>2, <4>1
      <4>. QED  BY <4>2, <4>3
    <3>4. \A k \in 1..(n + 1) : k = n + 1 \/ k \in 1..n
      BY <2>2
    <3>. QED  BY <2>2, <3>1, <3>3, <3>4 DEF Arrived
  <2>7. Arrival(longer)'
    BY <2>2, <2>4, <2>5, <2>6 DEF Arrival, Arrived, Hash, Full
  <2>. QED  BY <2>2, <2>7 DEF CollectInv
<1>. QED
  BY <1>2, <1>4, <1>5
  DEF Next, ItemStep, SourceSends, SourceReturns, Crc1, LockMd5, OverheatLock, Md5Returns, Crc2,
      Md5Step, SingleReady, CycleCrc, RangeEnds, StageReturns, CombineToSink, PipelineReturns,
      multiVars, vars

\* When MultiHash's channel is closed every value has been through all stages.
LEMMA AllDone ==
  ASSUME TypeOK, StageInv, FlowInv, "multi" \in closed
  PROVE  \A i \in Items : multi[i] = "done"
<1>1. stage["multi"] = "returned" /\ stage["single"] = "returned" /\ sent = Len(Input)
  BY DEF StageInv, FlowInv
<1>2. \A i \in Items : single[i] = "done"
  BY <1>1, ItemsFacts DEF StageInv, FlowInv, TypeOK, Items
<1>. QED  BY <1>1, <1>2 DEF StageInv, FlowInv, TypeOK

LEMMA CollectedAll ==
  ASSUME TypeOK, StageInv, FlowInv, CollectInv, "multi" \in closed
  PROVE  Sorted(vals) = Reference
<1>1. PICK order \in Seq(Items) : Arrival(order)
  BY DEF CollectInv
<1>. DEFINE n == Len(Input)
            m == Len(order)
<1>2. m \in Nat /\ n \in Nat /\ Items = 1..n /\ order \in [1..m -> 1..n]
  BY LenProperties, ItemsFacts DEF Items
<1>3. /\ \A k, l \in 1..m : order[k] = order[l] => k = l
      /\ \A i \in 1..n : \E k \in 1..m : order[k] = i
  BY <1>1, <1>2, AllDone DEF Arrival
<1>4. order \in Bijection(1..m, 1..n)
  BY <1>2, <1>3 DEF Bijection, Injection, Surjection, IsInjective
<1>5. m = n
  <2>1. ExistsBijection(1..m, 1..n)
    BY <1>4, Zenon DEF ExistsBijection
  <2>2. IsFiniteSet(1..m) /\ Cardinality(1..m) = m /\ Cardinality(1..n) = n
    BY <1>2, IntervalSize
  <2>. QED  BY <2>1, <2>2, FS_Bijection
<1>6. order \in Orders(n)
  BY <1>2, <1>3, <1>5 DEF Orders
<1>7. vals = [k \in Items |-> Hash(order[k], Full)]
  BY <1>1, <1>2, <1>5 DEF Arrival, Arrived
<1>8. Sorted(vals) = Sorted([i \in Items |-> Hash(i, Full)])
  BY <1>6, <1>7, SortForgetsArrival
<1>. QED  BY <1>8 DEF Reference, Full

LEMMA NextOutcome ==
  TypeOK /\ StageInv /\ FlowInv /\ CollectInv /\ OutcomeInv /\ [Next]_vars => OutcomeInv'
<1>. SUFFICES ASSUME TypeOK, StageInv, FlowInv, CollectInv, OutcomeInv, [Next]_vars PROVE OutcomeInv'
  OBVIOUS
<1>1. Reference' = Reference
  BY DEF Reference, Sorted, Hash
<1>2. CASE CombineToSink
  <2>1. result' = Sorted(vals) /\ "combine" \in closed'
    BY <1>2 DEF CombineToSink
  <2>2. Sorted(vals) = Reference
    BY <1>2, CollectedAll DEF CombineToSink
  <2>. QED  BY <1>1, <2>1, <2>2 DEF OutcomeInv
<1>3. CASE result' = result /\ ("combine" \in closed' <=> "combine" \in closed)
  BY <1>1, <1>3 DEF OutcomeInv
<1>. QED
  BY <1>2, <1>3
  DEF Next, ItemStep, SourceSends, SourceReturns, Crc1, LockMd5, OverheatLock, Md5Returns, Crc2,
      Md5Step, SingleReady, SingleToMulti, CycleCrc, MultiReady, MultiToCombine, RangeEnds,
      StageReturns, PipelineReturns, vars

PipeInv == TypeOK /\ StageInv /\ PartsInv /\ FlowInv /\ CollectInv /\ OutcomeInv

LEMMA PipeInvariance == Spec => []PipeInv
<1>1. Init => PipeInv
  BY InitStages, InitPipe DEF PipeInv
<1>2. PipeInv /\ [Next]_vars => PipeInv'
  BY NextStages, NextParts, NextFlow, NextCollect, NextOutcome DEF PipeInv
<1>. QED  BY <1>1, <1>2, PTL DEF Spec

\* The result does not depend on how the workers and the goroutines of MultiHash
\* interleave, for any input, any hashes and any CycleNum: what the sink receives
\* is the sorted list of all hashes, each once and with its parts in the order of
\* th (signer.go:106-136).
THEOREM ResultStands == Spec => []ResultIsReference
<1>1. PipeInv => ResultIsReference
  BY DEF PipeInv, OutcomeInv, ResultIsReference
<1>. QED  BY <1>1, PipeInvariance, PTL

-----------------------------------------------------------------------------
(* Somebody can always go on: no goroutine waits for another for ever. *)

\* The guards of the steps of the source, of a value's goroutines, and of the rest.
SourceCan ==
  \/ sent < Len(Input) /\ (feedback => Len(vals) = sent) /\ stage["single"] = "range"
  \/ sent = Len(Input) /\ "source" \notin closed

Md5Can(i) ==
  \/ md5[i] = "lock" /\ mutex = NoItem
  \/ md5[i] = "heat" /\ ~overheat
  \/ md5[i] \in {"md5", "crc"}

ItemCan(i) ==
  \/ single[i] = "work" /\ (i \notin crc1 \/ md5[i] = "done")
  \/ Md5Can(i)
  \/ single[i] = "send" /\ "single" \notin closed /\ stage["multi"] = "range"
  \/ multi[i] = "work" /\ ((\E th \in Cycle : parts[i][th] = Unset) \/ \A th \in Cycle : parts[i][th] # Unset)
  \/ multi[i] = "send" /\ "multi" \notin closed

StageCan(j) ==
  \/ stage[j] = "range" /\ (IF j = "single" THEN "source" ELSE "single") \in closed
  \/ stage[j] = "wait" /\ \A i \in Items : (IF j = "single" THEN single[i] ELSE multi[i]) \notin {"work", "send"}

CanStep ==
  \/ SourceCan
  \/ \E i \in Items : ItemCan(i)
  \/ \E j \in {"single", "multi"} : StageCan(j)
  \/ "multi" \in closed /\ "combine" \notin closed
  \/ waiting /\ closed = {"source", "single", "multi", "combine", "sink"}

NeverStuck == waiting => CanStep

\* The mutex is with a worker that will give it back, a worker's second goroutine
\* starts with it, and a job that has returned has closed its channel.
AliveInv ==
  /\ mutex \in Items => md5[mutex] \in {"heat", "md5"}
  /\ \A i \in Items : single[i] = "none" <=> md5[i] = "idle"
  /\ \A j \in {"single", "multi"} : stage[j] = "returned" => j \in closed
  /\ "combine" \in closed => "sink" \in closed

LEMMA InitAlive == Init => AliveInv
  BY ItemsFacts DEF Init, AliveInv

LEMMA NextAlive == TypeOK /\ FlowInv /\ AliveInv /\ [Next]_vars => AliveInv'
<1>. SUFFICES ASSUME TypeOK, FlowInv, AliveInv, [Next]_vars PROVE AliveInv'
  OBVIOUS
<1>. USE ItemsFacts DEF TypeOK, AliveInv, singleVars, multiVars
<1>1. CASE SourceSends
  <2>1. /\ sent' = sent + 1 /\ sent' \in Items /\ sent < Len(Input)
        /\ single' = [single EXCEPT ![sent'] = "work"] /\ md5' = [md5 EXCEPT ![sent'] = "lock"]
        /\ UNCHANGED <<mutex, stage, closed>>
    BY <1>1 DEF SourceSends, Items
  <2>2. single[sent'] = "none"
    BY <2>1 DEF FlowInv, Items
  <2>3. md5[sent'] = "idle"
    BY <2>1, <2>2
  <2>. QED  BY <2>1, <2>3
<1>2. ASSUME NEW i \in Items, LockMd5(i) \/ OverheatLock(i) \/ Md5Returns(i) \/ Crc2(i) PROVE AliveInv'
  BY <1>2 DEF LockMd5, OverheatLock, Md5Returns, Crc2, Md5Step
<1>3. ASSUME NEW i \in Items, SingleReady(i) \/ SingleToMulti(i) PROVE AliveInv'
  BY <1>3 DEF SingleReady, SingleToMulti
<1>4. CASE SourceReturns \/ CombineToSink
  BY <1>4 DEF SourceReturns, CombineToSink
<1>5. ASSUME NEW j \in {"single", "multi"}, RangeEnds(j) \/ StageReturns(j) PROVE AliveInv'
  BY <1>5 DEF RangeEnds, StageReturns
<1>6. CASE UNCHANGED <<mutex, md5, single, stage, closed>>
  BY <1>6
<1>. QED
  BY <1>1, <1>2, <1>3, <1>4, <1>5, <1>6
  DEF Next, ItemStep, Crc1, CycleCrc, MultiReady, MultiToCombine, PipelineReturns, vars

\* A worker of SingleHash or MultiHash goes on, or another worker does.
LEMMA WorkerGoesOn ==
  ASSUME TypeOK, HeldByWorker, AliveInv, NEW i \in Items,
         single[i] = "work" \/ (multi[i] \in {"work", "send"} /\ "multi" \notin closed)
  PROVE  \E k \in Items : ItemCan(k)
<1>1. CASE single[i] = "work"
  <2>1. md5[i] \in {"lock", "heat", "md5", "crc", "done"}
    BY <1>1 DEF TypeOK, AliveInv
  <2>2. CASE md5[i] = "lock" /\ mutex # NoItem
    <3>1. mutex \in Items /\ md5[mutex] \in {"heat", "md5"}
      BY <2>2 DEF TypeOK, AliveInv
    <3>2. Md5Can(mutex)
      BY <3>1 DEF Md5Can, HeldByWorker
    <3>. QED  BY <3>1, <3>2 DEF ItemCan
  <2>3. CASE md5[i] = "heat"
    <3>1. ~overheat
      BY <2>3 DEF HeldByWorker
    <3>. QED  BY <2>3, <3>1 DEF ItemCan, Md5Can
  <2>. QED  BY <1>1, <2>1, <2>2, <2>3 DEF ItemCan, Md5Can
<1>2. CASE multi[i] \in {"work", "send"} /\ "multi" \notin closed
  BY <1>2 DEF ItemCan
<1>. QED  BY <1>1, <1>2

\* When the source waits for what it has sent to be collected, and no worker can go
\* on, everything has been collected.
LEMMA EverythingCollected ==
  ASSUME TypeOK, FlowInv, CollectInv, \A i \in Items : multi[i] = "done" <=> i <= sent
  PROVE  Len(vals) = sent
<1>1. PICK order \in Seq(Items) : Arrival(order)
  BY DEF CollectInv
<1>. DEFINE m == Len(order)
<1>2. m \in Nat /\ sent \in Nat /\ sent <= Len(Input) /\ order \in [1..m -> Items]
  BY LenProperties, ItemsFacts DEF TypeOK
<1>3. /\ \A k, l \in 1..m : order[k] = order[l] => k = l
      /\ \A i \in Items : i <= sent <=> \E k \in 1..m : order[k] = i
  BY <1>1 DEF Arrival
<1>4. order \in [1..m -> 1..sent]
  <2>. SUFFICES ASSUME NEW k \in 1..m PROVE order[k] \in 1..sent
    BY <1>2
  <2>1. order[k] \in Items
    BY <1>2
  <2>. QED  BY <1>2, <1>3, <2>1 DEF Items
<1>5. \A i \in 1..sent : \E k \in 1..m : order[k] = i
  <2>. SUFFICES ASSUME NEW i \in 1..sent PROVE \E k \in 1..m : order[k] = i
    OBVIOUS
  <2>1. i \in Items /\ i <= sent
    BY <1>2, ItemsFacts DEF Items
  <2>. QED  BY <1>3, <2>1
<1>6. order \in Bijection(1..m, 1..sent)
  BY <1>3, <1>4, <1>5 DEF Bijection, Injection, Surjection, IsInjective
<1>7. m = sent
  <2>1. ExistsBijection(1..m, 1..sent)
    BY <1>6, Zenon DEF ExistsBijection
  <2>2. IsFiniteSet(1..m) /\ Cardinality(1..m) = m /\ Cardinality(1..sent) = sent
    BY <1>2, IntervalSize
  <2>. QED  BY <2>1, <2>2, FS_Bijection
<1>8. Len(vals) = m
  <2>1. vals = [k \in 1..m |-> Hash(order[k], Full)]
    BY <1>1 DEF Arrival, Arrived
  <2>2. vals \in [1..m -> {Hash(k, Full) : k \in Items}]
    BY <1>2, <2>1
  <2>. QED  BY <1>2, <2>2, SeqDef, LenProperties
<1>. QED  BY <1>7, <1>8

LEMMA SomeoneCan ==
  ASSUME TypeOK, StageInv, FlowInv, CollectInv, HeldByWorker, AliveInv, waiting, ~CanStep
  PROVE  FALSE
<1>1. /\ ~SourceCan /\ \A i \in Items : ~ItemCan(i)
      /\ ~StageCan("single") /\ ~StageCan("multi")
      /\ "multi" \in closed => "combine" \in closed
      /\ closed # {"source", "single", "multi", "combine", "sink"}
  BY DEF CanStep
<1>2. "multi" \notin closed
  <2>. SUFFICES ASSUME "multi" \in closed PROVE FALSE
    OBVIOUS
  <2>1. "single" \in closed /\ "source" \in closed
    BY DEF StageInv, FlowInv
  <2>2. "combine" \in closed /\ "sink" \in closed
    BY <1>1 DEF AliveInv
  <2>. QED  BY <1>1, <2>1, <2>2 DEF TypeOK
<1>3. \A i \in Items : single[i] # "work" /\ multi[i] \notin {"work", "send"}
  BY <1>1, <1>2, WorkerGoesOn
<1>4. stage["multi"] = "range" /\ "single" \notin closed
  BY <1>1, <1>2, <1>3 DEF StageCan, TypeOK, AliveInv
<1>5. \A i \in Items : single[i] \notin {"work", "send"}
  BY <1>1, <1>3, <1>4 DEF ItemCan
<1>6. stage["single"] = "range" /\ "source" \notin closed
  BY <1>1, <1>4, <1>5 DEF StageCan, TypeOK, AliveInv
<1>7. \A i \in Items : multi[i] = "done" <=> i <= sent
  BY <1>3, <1>5 DEF TypeOK, FlowInv
<1>8. Len(vals) = sent
  BY <1>7, EverythingCollected
<1>9. sent = Len(Input) \/ sent < Len(Input)
  BY ItemsFacts DEF TypeOK
<1>. QED  BY <1>1, <1>6, <1>8, <1>9 DEF SourceCan

\* While ExecutePipeline waits, some goroutine can take its next step, also when
\* the source sends a value only after the one before it has been collected: no
\* cycle of waiting through the channels, the wait groups and SaveMd5's mutex.
THEOREM NoDeadlock == Spec => []NeverStuck
<1>1. PipeInv /\ HeldByWorker /\ AliveInv => NeverStuck
  BY SomeoneCan DEF PipeInv, NeverStuck
<1>2. PipeInv /\ AliveInv /\ [Next]_vars => AliveInv'
  BY NextAlive DEF PipeInv
<1>. QED  BY <1>1, <1>2, PipeInvariance, InitAlive, InitHeld, NextHeld, PTL DEF Spec

-----------------------------------------------------------------------------
(* The steps run out: each one brings some goroutine to where it never was. *)

\* The states a worker, result2 and a stage's loop have come to on their way.
WorkerPast == [none |-> {}, work |-> {"work"}, send |-> {"work", "send"}, done |-> {"work", "send", "done"}]
Md5Past == [idle |-> {}, lock |-> {"lock"}, heat |-> {"lock", "heat"}, md5 |-> {"lock", "heat", "md5"},
            crc |-> {"lock", "heat", "md5", "crc"}, done |-> {"lock", "heat", "md5", "crc", "done"}]
LoopPast == [range |-> {}, wait |-> {"wait"}, returned |-> {"wait", "returned"}]

Been(state, past, all) == {p \in (DOMAIN state) \X all : p[2] \in past[state[p[1]]]}

\* What each kind of goroutine has reached so far, and all there is to reach.
Reached ==
  [single  |-> Been(single, WorkerPast, WorkerPast["done"]),
   multi   |-> Been(multi, WorkerPast, WorkerPast["done"]),
   md5     |-> Been(md5, Md5Past, Md5Past["done"]),
   crc1    |-> crc1,
   results |-> {p \in Items \X Cycle : parts[p[1]][p[2]] # Unset},
   loops   |-> Been(stage, LoopPast, LoopPast["returned"]),
   closed  |-> closed,
   wg      |-> {FALSE} \cap {waiting}]

Milestones ==
  [single  |-> Items \X WorkerPast["done"],
   multi   |-> Items \X WorkerPast["done"],
   md5     |-> Items \X Md5Past["done"],
   crc1    |-> Items,
   results |-> Items \X Cycle,
   loops   |-> {"single", "multi"} \X LoopPast["returned"],
   closed  |-> {"source", "single", "multi", "combine", "sink"},
   wg      |-> {FALSE}]

Grows(a, b) == (\A k \in DOMAIN a : a[k] \subseteq b[k]) /\ \E k \in DOMAIN a : a[k] # b[k]

LEMMA FewAreFinite ==
  /\ IsFiniteSet(WorkerPast["done"]) /\ IsFiniteSet(Md5Past["done"])
  /\ IsFiniteSet(LoopPast["returned"]) /\ IsFiniteSet({"single", "multi"})
  /\ IsFiniteSet({"source", "single", "multi", "combine", "sink"}) /\ IsFiniteSet({FALSE})
<1>1. ASSUME NEW S, NEW a, IsFiniteSet(S) PROVE IsFiniteSet(S \cup {a})
  BY <1>1, FS_AddElement
<1>2. IsFiniteSet({FALSE}) /\ IsFiniteSet({"single"}) /\ IsFiniteSet({"work"}) /\ IsFiniteSet({"lock"})
      /\ IsFiniteSet({"wait"}) /\ IsFiniteSet({"source"})
  BY FS_Singleton
<1>3. IsFiniteSet({"single"} \cup {"multi"})
  BY <1>1, <1>2
<1>4. IsFiniteSet(({"work"} \cup {"send"}) \cup {"done"})
  BY <1>1, <1>2
<1>5. IsFiniteSet({"wait"} \cup {"returned"})
  BY <1>1, <1>2
<1>6. IsFiniteSet(((({"lock"} \cup {"heat"}) \cup {"md5"}) \cup {"crc"}) \cup {"done"})
  BY <1>1, <1>2
<1>7. IsFiniteSet(((({"source"} \cup {"single"}) \cup {"multi"}) \cup {"combine"}) \cup {"sink"})
  BY <1>1, <1>2
<1>8. /\ {"single", "multi"} = {"single"} \cup {"multi"}
      /\ WorkerPast["done"] = ({"work"} \cup {"send"}) \cup {"done"}
      /\ LoopPast["returned"] = {"wait"} \cup {"returned"}
      /\ Md5Past["done"] = ((({"lock"} \cup {"heat"}) \cup {"md5"}) \cup {"crc"}) \cup {"done"}
      /\ {"source", "single", "multi", "combine", "sink"}
         = ((({"source"} \cup {"single"}) \cup {"multi"}) \cup {"combine"}) \cup {"sink"}
  BY DEF WorkerPast, LoopPast, Md5Past
<1>. QED  BY <1>2, <1>3, <1>4, <1>5, <1>6, <1>7, <1>8

LEMMA FiniteMilestones == \A k \in DOMAIN Milestones : IsFiniteSet(Milestones[k])
<1>1. IsFiniteSet(Items)
  BY ItemsFacts, IntervalSize DEF Items
<1>2. IsFiniteSet(Cycle)
  BY CycleAssumption, FS_Interval DEF Cycle
<1>3. /\ IsFiniteSet(Milestones.single) /\ IsFiniteSet(Milestones.multi) /\ IsFiniteSet(Milestones.md5)
      /\ IsFiniteSet(Milestones.results) /\ IsFiniteSet(Milestones.loops)
  BY <1>1, <1>2, FewAreFinite, FS_Product DEF Milestones
<1>4. IsFiniteSet(Milestones.crc1) /\ IsFiniteSet(Milestones.closed) /\ IsFiniteSet(Milestones.wg)
  BY <1>1, FewAreFinite DEF Milestones
<1>5. DOMAIN Milestones = {"single", "multi", "md5", "crc1", "results", "loops", "closed", "wg"}
  BY DEF Milestones
<1>. QED  BY <1>3, <1>4, <1>5

\* A goroutine that goes from where it is to l, past what it has reached.
LEMMA BeenGrows ==
  ASSUME NEW state, NEW past, NEW all, NEW x \in DOMAIN state, NEW l \in all, NEW new,
         DOMAIN new = DOMAIN state, new[x] = l, \A d \in DOMAIN state : d # x => new[d] = state[d],
         past[state[x]] \subseteq past[l], l \in past[l], l \notin past[state[x]]
  PROVE  Been(state, past, all) \subseteq Been(new, past, all) /\ Been(state, past, all) # Been(new, past, all)
<1>1. Been(state, past, all) \subseteq Been(new, past, all)
  <2>. SUFFICES ASSUME NEW p \in Been(state, past, all) PROVE p \in Been(new, past, all)
    OBVIOUS
  <2>1. p \in (DOMAIN state) \X all /\ p[2] \in past[state[p[1]]] /\ p[1] \in DOMAIN state
    BY DEF Been
  <2>2. p[2] \in past[new[p[1]]]
    BY <2>1
  <2>. QED  BY <2>1, <2>2 DEF Been
<1>2. <<x, l>> \in Been(new, past, all) /\ <<x, l>> \notin Been(state, past, all)
  BY DEF Been
<1>. QED  BY <1>1, <1>2

WorkerTurn(from, to) ==
  (from = "none" /\ to = "work") \/ (from = "work" /\ to = "send") \/ (from = "send" /\ to = "done")
Md5Turn(from, to) ==
  \/ from = "idle" /\ to = "lock"
  \/ from = "lock" /\ to = "heat"
  \/ from = "heat" /\ to = "md5"
  \/ from = "md5" /\ to = "crc"
  \/ from = "crc" /\ to = "done"
LoopTurn(from, to) == (from = "range" /\ to = "wait") \/ (from = "wait" /\ to = "returned")

LEMMA WorkerGrows ==
  ASSUME NEW state \in [Items -> {"none", "work", "send", "done"}], NEW i \in Items, NEW l,
         WorkerTurn(state[i], l),
         NEW new, new = [state EXCEPT ![i] = l]
  PROVE  /\ Been(state, WorkerPast, WorkerPast["done"]) \subseteq Been(new, WorkerPast, WorkerPast["done"])
         /\ Been(state, WorkerPast, WorkerPast["done"]) # Been(new, WorkerPast, WorkerPast["done"])
<1>1. /\ l \in WorkerPast["done"] /\ l \in WorkerPast[l] /\ l \notin WorkerPast[state[i]]
      /\ WorkerPast[state[i]] \subseteq WorkerPast[l]
  BY DEF WorkerPast, WorkerTurn
<1>2. /\ i \in DOMAIN state /\ DOMAIN new = DOMAIN state /\ new[i] = l
      /\ \A d \in DOMAIN state : d # i => new[d] = state[d]
  OBVIOUS
<1>. QED  BY <1>1, <1>2, BeenGrows

LEMMA Md5Grows ==
  ASSUME NEW state \in [Items -> {"idle", "lock", "heat", "md5", "crc", "done"}], NEW i \in Items, NEW l,
         Md5Turn(state[i], l),
         NEW new, new = [state EXCEPT ![i] = l]
  PROVE  /\ Been(state, Md5Past, Md5Past["done"]) \subseteq Been(new, Md5Past, Md5Past["done"])
         /\ Been(state, Md5Past, Md5Past["done"]) # Been(new, Md5Past, Md5Past["done"])
<1>1. /\ l \in Md5Past["done"] /\ l \in Md5Past[l] /\ l \notin Md5Past[state[i]]
      /\ Md5Past[state[i]] \subseteq Md5Past[l]
  BY DEF Md5Past, Md5Turn
<1>2. /\ i \in DOMAIN state /\ DOMAIN new = DOMAIN state /\ new[i] = l
      /\ \A d \in DOMAIN state : d # i => new[d] = state[d]
  OBVIOUS
<1>. QED  BY <1>1, <1>2, BeenGrows

LEMMA LoopGrows ==
  ASSUME NEW state \in [{"single", "multi"} -> {"range", "wait", "returned"}],
         NEW j \in {"single", "multi"}, NEW l,
         LoopTurn(state[j], l),
         NEW new, new = [state EXCEPT ![j] = l]
  PROVE  /\ Been(state, LoopPast, LoopPast["returned"]) \subseteq Been(new, LoopPast, LoopPast["returned"])
         /\ Been(state, LoopPast, LoopPast["returned"]) # Been(new, LoopPast, LoopPast["returned"])
<1>1. /\ l \in LoopPast["returned"] /\ l \in LoopPast[l] /\ l \notin LoopPast[state[j]]
      /\ LoopPast[state[j]] \subseteq LoopPast[l]
  BY DEF LoopPast, LoopTurn
<1>2. /\ j \in DOMAIN state /\ DOMAIN new = DOMAIN state /\ new[j] = l
      /\ \A d \in DOMAIN state : d # j => new[d] = state[d]
  OBVIOUS
<1>. QED  BY <1>1, <1>2, BeenGrows

LEMMA StepGrows ==
  ASSUME TypeOK, PartsInv, FlowInv, AliveInv, Next
  PROVE  Grows(Reached, Reached')
<1>. DEFINE more(k) == Reached[k] \subseteq Reached'[k]
            kinds == {"single", "multi", "md5", "crc1", "results", "loops", "closed", "wg"}
<1>k. DOMAIN Reached = kinds
  BY DEF Reached
<1>s. /\ single' = single => Reached'["single"] = Reached["single"]
      /\ multi' = multi => Reached'["multi"] = Reached["multi"]
      /\ md5' = md5 => Reached'["md5"] = Reached["md5"]
      /\ crc1' = crc1 => Reached'["crc1"] = Reached["crc1"]
      /\ parts' = parts => Reached'["results"] = Reached["results"]
      /\ stage' = stage => Reached'["loops"] = Reached["loops"]
      /\ closed' = closed => Reached'["closed"] = Reached["closed"]
      /\ waiting' = waiting => Reached'["wg"] = Reached["wg"]
  BY DEF Reached
<1>w. ASSUME NEW i \in Items, NEW l,
             WorkerTurn(single[i], l),
             single' = [single EXCEPT ![i] = l]
      PROVE  more("single") /\ Reached["single"] # Reached'["single"]
  BY <1>w, WorkerGrows DEF Reached, TypeOK
<1>x. ASSUME NEW i \in Items, NEW l,
             WorkerTurn(multi[i], l),
             multi' = [multi EXCEPT ![i] = l]
      PROVE  more("multi") /\ Reached["multi"] # Reached'["multi"]
  BY <1>x, WorkerGrows DEF Reached, TypeOK
<1>y. ASSUME NEW i \in Items, NEW l,
             Md5Turn(md5[i], l),
             md5' = [md5 EXCEPT ![i] = l]
      PROVE  more("md5") /\ Reached["md5"] # Reached'["md5"]
  BY <1>y, Md5Grows DEF Reached, TypeOK
<1>z. ASSUME NEW j \in {"single", "multi"}, NEW l,
             LoopTurn(stage[j], l),
             stage' = [stage EXCEPT ![j] = l]
      PROVE  more("loops") /\ Reached["loops"] # Reached'["loops"]
  BY <1>z, LoopGrows DEF Reached, TypeOK
<1>c. closed \subseteq closed' => more("closed")
  BY DEF Reached
<1>d. closed # closed' => Reached["closed"] # Reached'["closed"]
  BY DEF Reached
<1>g. ASSUME \A k \in kinds : more(k), \E k \in kinds : Reached[k] # Reached'[k] PROVE Grows(Reached, Reached')
  BY <1>k, <1>g DEF Grows
<1>. HIDE DEF more
<1>m. \A k \in kinds : Reached'[k] = Reached[k] => more(k)
  BY DEF more
<1>1. CASE SourceSends
  <2>1. /\ sent' \in Items /\ sent' = sent + 1
        /\ single' = [single EXCEPT ![sent'] = "work"] /\ md5' = [md5 EXCEPT ![sent'] = "lock"]
        /\ UNCHANGED <<multi, crc1, parts, stage, closed, waiting>>
    BY <1>1, ItemsFacts DEF SourceSends, Items, TypeOK, multiVars
  <2>2. single[sent'] = "none" /\ md5[sent'] = "idle"
    BY <2>1, ItemsFacts DEF FlowInv, AliveInv, TypeOK, Items
  <2>3. WorkerTurn(single[sent'], "work") /\ Md5Turn(md5[sent'], "lock")
    BY <2>2 DEF WorkerTurn, Md5Turn
  <2>. QED  BY <2>1, <2>3, <1>s, <1>w, <1>y, <1>m, <1>g
<1>2. CASE SourceReturns
  <2>1. /\ closed \subseteq closed' /\ closed # closed'
        /\ UNCHANGED <<single, multi, md5, crc1, parts, stage, waiting>>
    BY <1>2 DEF SourceReturns, singleVars, multiVars
  <2>. QED  BY <2>1, <1>s, <1>c, <1>d, <1>m, <1>g
<1>3. ASSUME NEW i \in Items, Crc1(i) PROVE Grows(Reached, Reached')
  <2>1. UNCHANGED <<single, multi, md5, parts, stage, closed, waiting>>
    BY <1>3 DEF Crc1, multiVars
  <2>2. more("crc1") /\ Reached["crc1"] # Reached'["crc1"]
    BY <1>3 DEF Crc1, Reached, more
  <2>. QED  BY <2>1, <2>2, <1>s, <1>m, <1>g
<1>4. ASSUME NEW i \in Items, LockMd5(i) \/ OverheatLock(i) \/ Md5Returns(i) \/ Crc2(i)
      PROVE  Grows(Reached, Reached')
  <2>1. PICK l \in {"heat", "md5", "crc", "done"} :
             /\ Md5Turn(md5[i], l) /\ md5' = [md5 EXCEPT ![i] = l]
             /\ UNCHANGED <<single, multi, crc1, parts, stage, closed, waiting>>
    BY <1>4 DEF Md5Turn, LockMd5, OverheatLock, Md5Returns, Crc2, Md5Step, multiVars
  <2>. QED  BY <2>1, <1>s, <1>y, <1>m, <1>g
<1>5. ASSUME NEW i \in Items, SingleReady(i) PROVE Grows(Reached, Reached')
  <2>1. /\ single[i] = "work" /\ single' = [single EXCEPT ![i] = "send"]
        /\ UNCHANGED <<multi, md5, crc1, parts, stage, closed, waiting>>
    BY <1>5 DEF SingleReady, multiVars
  <2>2. WorkerTurn(single[i], "send")
    BY <2>1 DEF WorkerTurn
  <2>. QED  BY <2>1, <2>2, <1>s, <1>w, <1>m, <1>g
<1>6. ASSUME NEW i \in Items, SingleToMulti(i) PROVE Grows(Reached, Reached')
  <2>1. /\ single[i] = "send" /\ single' = [single EXCEPT ![i] = "done"]
        /\ multi' = [multi EXCEPT ![i] = "work"]
        /\ UNCHANGED <<md5, crc1, parts, stage, closed, waiting>>
    BY <1>6 DEF SingleToMulti
  <2>2. WorkerTurn(single[i], "done") /\ WorkerTurn(multi[i], "work")
    BY <2>1 DEF FlowInv, TypeOK, WorkerTurn
  <2>. QED  BY <2>1, <2>2, <1>s, <1>w, <1>x, <1>m, <1>g
<1>7. ASSUME NEW i \in Items, NEW th \in Cycle, CycleCrc(i, th) PROVE Grows(Reached, Reached')
  <2>1. /\ parts[i][th] = Unset /\ parts' = [parts EXCEPT ![i][th] = th]
        /\ UNCHANGED <<single, multi, md5, crc1, stage, closed, waiting>>
    BY <1>7 DEF CycleCrc, singleVars
  <2>2. th # Unset
    BY CycleAssumption DEF Cycle, Unset
  <2>3. parts'[i][th] # Unset /\ \A k \in Items, t \in Cycle : parts[k][t] # Unset => parts'[k][t] # Unset
    BY <2>1, <2>2 DEF PartsInv
  <2>4. <<i, th>> \in Reached'["results"] /\ <<i, th>> \notin Reached["results"]
    BY <2>1, <2>3 DEF Reached
  <2>5. more("results")
    BY <2>3 DEF more, Reached
  <2>. QED  BY <2>1, <2>4, <2>5, <1>s, <1>m, <1>g
<1>8. ASSUME NEW i \in Items, MultiReady(i) \/ MultiToCombine(i) PROVE Grows(Reached, Reached')
  <2>1. PICK l \in {"send", "done"} :
             /\ WorkerTurn(multi[i], l) /\ multi' = [multi EXCEPT ![i] = l]
             /\ UNCHANGED <<single, md5, crc1, parts, stage, closed, waiting>>
    BY <1>8 DEF WorkerTurn, MultiReady, MultiToCombine, singleVars
  <2>. QED  BY <2>1, <1>s, <1>x, <1>m, <1>g
<1>9. ASSUME NEW j \in {"single", "multi"}, RangeEnds(j) \/ StageReturns(j) PROVE Grows(Reached, Reached')
  <2>1. PICK l \in {"wait", "returned"} :
             /\ LoopTurn(stage[j], l) /\ stage' = [stage EXCEPT ![j] = l] /\ closed \subseteq closed'
             /\ UNCHANGED <<single, multi, md5, crc1, parts, waiting>>
    BY <1>9 DEF LoopTurn, RangeEnds, StageReturns, singleVars, multiVars
  <2>. QED  BY <2>1, <1>s, <1>z, <1>c, <1>m, <1>g
<1>10. CASE CombineToSink
  <2>1. /\ closed \subseteq closed' /\ closed # closed'
        /\ UNCHANGED <<single, multi, md5, crc1, parts, stage, waiting>>
    BY <1>10 DEF CombineToSink, singleVars, multiVars
  <2>. QED  BY <2>1, <1>s, <1>c, <1>d, <1>m, <1>g
<1>11. CASE PipelineReturns
  <2>1. UNCHANGED <<single, multi, md5, crc1, parts, stage, closed>>
    BY <1>11 DEF PipelineReturns, singleVars, multiVars
  <2>2. more("wg") /\ Reached["wg"] # Reached'["wg"]
    BY <1>11 DEF PipelineReturns, Reached, more
  <2>. QED  BY <2>1, <2>2, <1>s, <1>m, <1>g
<1>. QED
  BY <1>1, <1>2, <1>3, <1>4, <1>5, <1>6, <1>7, <1>8, <1>9, <1>10, <1>11 DEF Next, ItemStep

\* ExecutePipeline takes finitely many steps: each brings some goroutine, loop or
\* channel to where it never was, none is ever undone, and there are finitely many
\* such places.  With NoDeadlock, the pipeline comes to its end (signer.go:16-36).
THEOREM StepsRunOut ==
  /\ \A k \in DOMAIN Milestones : IsFiniteSet(Milestones[k])
  /\ Spec => [](\A k \in DOMAIN Milestones : Reached[k] \in SUBSET Milestones[k])
  /\ Spec => [][Grows(Reached, Reached')]_vars
<1>1. PipeInv => \A k \in DOMAIN Milestones : Reached[k] \in SUBSET Milestones[k]
  BY DEF PipeInv, TypeOK, Milestones, Reached, Been
<1>2. PipeInv /\ AliveInv /\ [Next]_vars => [Grows(Reached, Reached')]_vars
  BY StepGrows DEF PipeInv
<1>3. PipeInv /\ AliveInv /\ [Next]_vars => AliveInv'
  BY NextAlive DEF PipeInv
<1>4. Spec => [](PipeInv /\ AliveInv)
  BY <1>3, PipeInvariance, InitAlive, PTL DEF Spec
<1>5. Spec => [](\A k \in DOMAIN Milestones : Reached[k] \in SUBSET Milestones[k])
  BY <1>1, PipeInvariance, PTL
<1>6. Spec => [][Grows(Reached, Reached')]_vars
  BY <1>2, <1>4, PTL DEF Spec
<1>. QED  BY <1>5, <1>6, FiniteMilestones
=============================================================================
