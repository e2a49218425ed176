------------------------------- MODULE Signer -------------------------------
(***************************************************************************)
(* hw2_signer: ExecutePipeline running a source, SingleHash, MultiHash,    *)
(* CombineResults and a sink, one goroutine each, joined by unbuffered     *)
(* channels.  SingleHash and MultiHash start a worker per value; a worker  *)
(* of the first starts two goroutines, one of the second CycleNum.         *)
(*                                                                         *)
(* A value is followed by its index in the input.  The hash of a value is  *)
(* represented by its rank in the order of sort.Strings, so values that    *)
(* have the same hash have the same rank, and by the parts MultiHash       *)
(* joined.                                                                 *)
(***************************************************************************)
EXTENDS Naturals, Sequences, FiniteSets

CONSTANTS Input,      \* the sequence of values the source sends
          Rank,       \* for each value, the rank of its hash
          CycleNum    \* goroutines of a MultiHash worker (6 in the code)

Items == 1..Len(Input)
Cycle == 0..CycleNum - 1
NoItem == 0            \* nobody holds the mutex
Unset == CycleNum      \* a place of results not filled yet

ASSUME InputAssumption == Input \in Seq(DOMAIN Rank)
ASSUME RankAssumption == Rank \in [DOMAIN Rank -> Nat]
ASSUME CycleAssumption == CycleNum \in Nat \ {0}

VARIABLES
  feedback,   \* whether the source waits for each value to be collected
  sent,       \* how many values the source has sent
  closed,     \* which jobs have returned and closed their out channel
  stage,      \* SingleHash and MultiHash: "range", "wait" or "returned"
  single,     \* SingleHash's worker for an item: "none", "work", "send", "done"
  crc1,       \* items whose result1 is computed
  md5,        \* progress of result2: "idle","lock","heat","md5","crc","done"
  mutex,      \* md5Mut: the item whose worker holds it
  overheat,   \* dataSignerOverheat
  multi,      \* MultiHash's worker for an item
  parts,      \* its results array
  vals,       \* what CombineResults has received
  result,     \* what the sink has received
  waiting     \* ExecutePipeline is in wg.Wait

singleVars == <<single, crc1, md5, mutex, overheat>>
multiVars  == <<multi, parts>>
vars == <<feedback, sent, closed, stage, singleVars, multiVars, vals, result, waiting>>

Hash(i, ps) == [rank |-> Rank[Input[i]], parts |-> ps]

\* The n! ways to put n things in order.
Orders(n) == {p \in [1..n -> 1..n] : \A i, j \in 1..n : p[i] = p[j] => i = j}

\* sort.Strings: the hashes in an order in which none is less than one before it.
Sorted(hs) ==
  LET n == Len(hs)
      p == CHOOSE p \in Orders(n) : \A i, j \in 1..n : i < j => hs[p[i]].rank <= hs[p[j]].rank
  IN  [i \in 1..n |-> hs[p[i]]]

Init ==
  /\ feedback \in BOOLEAN
  /\ sent = 0 /\ closed = {} /\ waiting = TRUE
  /\ stage = [j \in {"single", "multi"} |-> "range"]
  /\ single = [i \in Items |-> "none"] /\ multi = [i \in Items |-> "none"]
  /\ crc1 = {} /\ md5 = [i \in Items |-> "idle"]
  /\ mutex = NoItem /\ overheat = FALSE
  /\ parts = [i \in Items |-> [th \in Cycle |-> Unset]]
  /\ vals = << >> /\ result = << >>

-----------------------------------------------------------------------------
(* The source, and SingleHash's loop receiving from it *)

\* Faulty: SingleHash starts its workers when its input has ended.
SourceSendsHeld ==
  /\ sent < Len(Input)
  /\ feedback => Len(vals) = sent
  /\ stage["single"] = "range"
  /\ sent' = sent + 1
  /\ single' = [i \in Items |-> IF sent' = Len(Input) THEN "work" ELSE "none"]
  /\ md5' = [i \in Items |-> IF sent' = Len(Input) THEN "lock" ELSE "idle"]
  /\ UNCHANGED <<feedback, closed, stage, crc1, mutex, overheat, multiVars, vals, result, waiting>>

SourceSends ==
  /\ sent < Len(Input)
  /\ feedback => Len(vals) = sent
  /\ stage["single"] = "range"
  /\ sent' = sent + 1
  /\ single' = [single EXCEPT ![sent'] = "work"]
  /\ md5' = [md5 EXCEPT ![sent'] = "lock"]
  /\ UNCHANGED <<feedback, closed, stage, crc1, mutex, overheat, multiVars, vals, result, waiting>>

SourceReturns ==
  /\ sent = Len(Input)
  /\ "source" \notin closed
  /\ closed' = closed \cup {"source"}
  /\ UNCHANGED <<feedback, sent, stage, singleVars, multiVars, vals, result, waiting>>

-----------------------------------------------------------------------------
(* SingleHash *)

Crc1(i) ==
  /\ single[i] = "work" /\ i \notin crc1
  /\ crc1' = crc1 \cup {i}
  /\ UNCHANGED <<feedback, sent, closed, stage, single, md5, mutex, overheat, multiVars, vals, result, waiting>>

Md5Step(i, from, to) ==
  /\ md5[i] = from
  /\ md5' = [md5 EXCEPT ![i] = to]
  /\ UNCHANGED <<feedback, sent, closed, stage, single, crc1, multiVars, vals, result, waiting>>

\* Faulty: SaveMd5 does not lock.
LockMd5Not(i) == Md5Step(i, "lock", "heat") /\ UNCHANGED <<mutex, overheat>>

\* SaveMd5: mut.Lock()
LockMd5(i) == Md5Step(i, "lock", "heat") /\ mutex = NoItem /\ mutex' = i /\ UNCHANGED overheat

\* OverheatLock: a failed compare-and-swap sleeps a second and tries again.
OverheatLock(i) == Md5Step(i, "heat", "md5") /\ ~overheat /\ overheat' = TRUE /\ UNCHANGED mutex

\* DataSignerMd5 returns: OverheatUnlock, then mut.Unlock().
Md5Returns(i) == Md5Step(i, "md5", "crc") /\ overheat' = FALSE /\ mutex' = NoItem

Crc2(i) == Md5Step(i, "crc", "done") /\ UNCHANGED <<mutex, overheat>>

\* crcWg.Wait() returns.
SingleReady(i) ==
  /\ single[i] = "work" /\ i \in crc1 /\ md5[i] = "done"
  /\ single' = [single EXCEPT ![i] = "send"]
  /\ UNCHANGED <<feedback, sent, closed, stage, crc1, md5, mutex, overheat, multiVars, vals, result, waiting>>

\* The worker's send meets MultiHash's loop; wg.Done().
SingleToMulti(i) ==
  /\ single[i] = "send"
  /\ "single" \notin closed
  /\ stage["multi"] = "range"
  /\ single' = [single EXCEPT ![i] = "done"]
  /\ multi' = [multi EXCEPT ![i] = "work"]
  /\ UNCHANGED <<feedback, sent, closed, stage, crc1, md5, mutex, overheat, parts, vals, result, waiting>>

-----------------------------------------------------------------------------
(* MultiHash and CombineResults *)

\* Faulty: the result goes to the next free place, not to place th.
CycleCrcAppend(i, th) ==
  /\ multi[i] = "work"
  /\ \A k \in Cycle : parts[i][k] # th
  /\ LET place == CHOOSE k \in Cycle : parts[i][k] = Unset /\ \A j \in 0..k - 1 : parts[i][j] # Unset
     IN  parts' = [parts EXCEPT ![i][place] = th]
  /\ UNCHANGED <<feedback, sent, closed, stage, singleVars, multi, vals, result, waiting>>

\* Goroutine th of a worker fills results[th].
CycleCrc(i, th) ==
  /\ multi[i] = "work"
  /\ parts[i][th] = Unset
  /\ parts' = [parts EXCEPT ![i][th] = th]
  /\ UNCHANGED <<feedback, sent, closed, stage, singleVars, multi, vals, result, waiting>>

\* cycleWg.Wait() returns.
MultiReady(i) ==
  /\ multi[i] = "work"
  /\ \A th \in Cycle : parts[i][th] # Unset
  /\ multi' = [multi EXCEPT ![i] = "send"]
  /\ UNCHANGED <<feedback, sent, closed, stage, singleVars, parts, vals, result, waiting>>

\* The worker's send meets CombineResults' loop; wg.Done().
MultiToCombine(i) ==
  /\ multi[i] = "send"
  /\ "multi" \notin closed
  /\ multi' = [multi EXCEPT ![i] = "done"]
  /\ vals' = Append(vals, Hash(i, parts[i]))
  /\ UNCHANGED <<feedback, sent, closed, stage, singleVars, parts, result, waiting>>

\* Faulty: a stage returns when its input has ended, without wg.Wait().
StageReturnsEarly(j) ==
  /\ stage[j] = "wait"
  /\ stage' = [stage EXCEPT ![j] = "returned"]
  /\ closed' = closed \cup {j}
  /\ UNCHANGED <<feedback, sent, singleVars, multiVars, vals, result, waiting>>

\* The range over the in channel ends when the job before has closed it.
RangeEnds(j) ==
  /\ stage[j] = "range"
  /\ (IF j = "single" THEN "source" ELSE "single") \in closed
  /\ stage' = [stage EXCEPT ![j] = "wait"]
  /\ UNCHANGED <<feedback, sent, closed, singleVars, multiVars, vals, result, waiting>>

\* wg.Wait() returns, the job returns and ExecutePipeline closes its channel.
StageReturns(j) ==
  /\ stage[j] = "wait"
  /\ \A i \in Items : (IF j = "single" THEN single[i] ELSE multi[i]) \notin {"work", "send"}
  /\ stage' = [stage EXCEPT ![j] = "returned"]
  /\ closed' = closed \cup {j}
  /\ UNCHANGED <<feedback, sent, singleVars, multiVars, vals, result, waiting>>

\* CombineResults sorts and sends; the sink receives.  Both return.
CombineToSink ==
  /\ "multi" \in closed /\ "combine" \notin closed
  /\ result' = Sorted(vals)
  /\ closed' = closed \cup {"combine", "sink"}
  /\ UNCHANGED <<feedback, sent, stage, singleVars, multiVars, vals, waiting>>

\* wg.Wait() of ExecutePipeline.
PipelineReturns ==
  /\ waiting
  /\ closed = {"source", "single", "multi", "combine", "sink"}
  /\ waiting' = FALSE
  /\ UNCHANGED <<feedback, sent, closed, stage, singleVars, multiVars, vals, result>>

ItemStep(i) ==
  \/ Crc1(i) \/ LockMd5(i) \/ OverheatLock(i) \/ Md5Returns(i) \/ Crc2(i)
  \/ SingleReady(i) \/ SingleToMulti(i)
  \/ \E th \in Cycle : CycleCrc(i, th)
  \/ MultiReady(i) \/ MultiToCombine(i)

Next ==
  \/ SourceSends \/ SourceReturns
  \/ \E i \in Items : ItemStep(i)
  \/ \E j \in {"single", "multi"} : RangeEnds(j) \/ StageReturns(j)
  \/ CombineToSink \/ PipelineReturns

Spec == Init /\ [][Next]_vars

\* Some goroutine that can go on does; each step is taken at most once, so no
\* goroutine can be passed over for ever.
LiveSpec == Spec /\ WF_vars(Next)

-----------------------------------------------------------------------------
(* Properties *)

\* Every variable has one of the values its goroutine can give it.
TypeOK ==
  /\ sent \in 0..Len(Input)
  /\ closed \subseteq {"source", "single", "multi", "combine", "sink"}
  /\ stage \in [{"single", "multi"} -> {"range", "wait", "returned"}]
  /\ single \in [Items -> {"none", "work", "send", "done"}]
  /\ multi \in [Items -> {"none", "work", "send", "done"}]
  /\ crc1 \subseteq Items
  /\ md5 \in [Items -> {"idle", "lock", "heat", "md5", "crc", "done"}]
  /\ mutex \in Items \cup {NoItem}
  /\ overheat \in BOOLEAN
  /\ waiting \in BOOLEAN /\ feedback \in BOOLEAN

\* DataSignerMd5 never finds dataSignerOverheat set: SaveMd5's mutex keeps the
\* workers apart, so none of them sleeps a second and tries again.
NeverOverheats == \A i \in Items : md5[i] = "heat" => ~overheat

\* No goroutine sends on a channel ExecutePipeline has closed.
NoSendOnClosed ==
  \A i \in Items : /\ single[i] \in {"work", "send"} => "single" \notin closed
                   /\ multi[i] \in {"work", "send"} => "multi" \notin closed

Reference == Sorted([i \in Items |-> Hash(i, [th \in Cycle |-> th])])

\* The result does not depend on the order in which the workers finish: it is
\* the sorted list of the hashes of all values, each joined in the order of th.
ResultIsReference == result # << >> => result = Reference

\* ExecutePipeline returns, even when the source sends a value only after
\* the one before it has been collected: no stage holds values back.
PipelineEnds == <>~waiting
=============================================================================
