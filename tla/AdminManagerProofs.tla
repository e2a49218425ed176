------------------------- MODULE AdminManagerProofs -------------------------
(***************************************************************************)
(* Proofs about the event bus, for any sets of loggers, staters and calls  *)
(* and any channel capacities.                                             *)
(***************************************************************************)
EXTENDS AdminManager, SequenceTheorems, FiniteSetTheorems, FunctionTheorems, TLAPS

\* What Append does to a sequence and to the set of its elements.
LEMMA AppendFacts ==
  ASSUME NEW S, NEW q \in Seq(S), NEW e \in S
  PROVE  /\ Append(q, e) \in Seq(S)
         /\ Len(Append(q, e)) = Len(q) + 1
         /\ \A i \in 1..Len(q) : Append(q, e)[i] = q[i]
         /\ Append(q, e)[Len(q) + 1] = e
         /\ Listed(Append(q, e)) = Listed(q) \cup {e}
<1>1. /\ Append(q, e) \in Seq(S)
      /\ Len(Append(q, e)) = Len(q) + 1
      /\ \A i \in 1..Len(q) : Append(q, e)[i] = q[i]
      /\ Append(q, e)[Len(q) + 1] = e
      /\ Len(q) \in Nat
  BY AppendProperties, LenProperties
<1>2. Listed(Append(q, e)) \subseteq Listed(q) \cup {e}
  <2>. SUFFICES ASSUME NEW i \in 1..Len(q) + 1
                PROVE  Append(q, e)[i] \in Listed(q) \cup {e}
    BY <1>1 DEF Listed
  <2>1. i \in 1..Len(q) \/ i = Len(q) + 1
    BY <1>1
  <2>. QED  BY <1>1, <2>1 DEF Listed
<1>3. Listed(q) \cup {e} \subseteq Listed(Append(q, e))
  <2>1. \A i \in 1..Len(q) : i \in 1..Len(Append(q, e))
    BY <1>1
  <2>2. Len(q) + 1 \in 1..Len(Append(q, e))
    BY <1>1
  <2>. QED  BY <1>1, <2>1, <2>2 DEF Listed
<1>. QED  BY <1>1, <1>2, <1>3

\* The elements of a sequence over S are in S; the empty sequence has none.
LEMMA ListedFacts ==
  ASSUME NEW S, NEW q \in Seq(S)
  PROVE  /\ Len(q) \in Nat
         /\ \A i \in 1..Len(q) : q[i] \in S /\ q[i] \in Listed(q)
         /\ Listed(q) \subseteq S
         /\ Listed(<< >>) = {}
  BY LenProperties, ElementOfSeq DEF Listed

USE DisjointRpcs, CapAssumption, EventAssumption, EnvAssumption

-----------------------------------------------------------------------------
(* Type correctness *)

LEMMA InitTypeOK == Init => TypeOK
<1>. SUFFICES ASSUME Init PROVE TypeOK
  OBVIOUS
<1>1. << >> \in Seq(Rpcs) /\ << >> \in Seq(Staters) /\ << >> \in Seq(Loggers) /\ Len(<< >>) = 0
  BY EmptySeq
<1>2. NewStat \in [byMethod : [Methods -> Nat], byConsumer : [Consumers -> Nat]]
  BY DEF NewStat
<1>. QED  BY <1>1, <1>2 DEF Init, TypeOK, Subs

LEMMA NextTypeOK == TypeOK /\ [Next]_vars => TypeOK'
<1>. SUFFICES ASSUME TypeOK, [Next]_vars
              PROVE  TypeOK'
  OBVIOUS
<1>. USE DEF busVars, mgrVars, regVars, statVars, lifeVars
<1>s. Subs \subseteq Rpcs /\ Loggers \subseteq Subs /\ Staters \subseteq Subs
  BY DEF TypeOK, Rpcs, Subs
<1>n. Len(log) \in Nat /\ \A s \in Subs : Len(sub[s]) \in Nat
  BY LenProperties DEF TypeOK
<1>h. mpc \notin {"select", "stopped"} => InHand \in Rpcs
  BY <1>n, ElementOfSeq DEF TypeOK, InHand
<1>a. ASSUME NEW s \in Subs, ~SubFull(s), InHand \in Rpcs,
             sub' = [sub EXCEPT ![s] = Append(@, InHand)]
      PROVE  /\ sub' \in [Subs -> Seq(Rpcs)]
             /\ \A t \in Subs : rd[t] <= Len(sub'[t]) /\ Len(sub'[t]) <= rd[t] + StreamCap
  <2>1. sub[s] \in Seq(Rpcs)
    BY DEF TypeOK
  <2>2. Append(sub[s], InHand) \in Seq(Rpcs) /\ Len(Append(sub[s], InHand)) = Len(sub[s]) + 1
    BY <1>a, <2>1, AppendFacts DEF TypeOK
  <2>3. rd[s] <= Len(sub[s]) + 1 /\ Len(sub[s]) + 1 <= rd[s] + StreamCap
    <3>1. /\ rd[s] \in Nat /\ Len(sub[s]) \in Nat
          /\ rd[s] <= Len(sub[s]) /\ Len(sub[s]) <= rd[s] + StreamCap
      BY <1>n DEF TypeOK
    <3>2. Len(sub[s]) - rd[s] # StreamCap
      BY <1>a DEF SubFull
    <3>. HIDE <1>a
    <3>. QED  BY <3>1, <3>2
  <2>. QED  BY <1>a, <2>2, <2>3 DEF TypeOK
<1>d. Alive => Dispatched \in Nat
  <2>1. taken \in Nat /\ (mpc \notin {"select", "stopped"} => taken >= 1)
    BY <1>n DEF TypeOK
  <2>. QED  BY <2>1 DEF Dispatched
<1>1. ASSUME NEW r \in Rpcs, Arrive(r) PROVE TypeOK'
  BY <1>1 DEF TypeOK, Arrive
<1>2. ASSUME NEW r \in Rpcs, GenerateEvt(r) PROVE TypeOK'
  <2>1. /\ log' \in Seq(Rpcs) /\ Len(log') = Len(log) + 1
    BY <1>2, AppendFacts DEF TypeOK, GenerateEvt
  <2>2. taken' \in 0..Len(log') /\ Len(log') - taken' <= AdminCap
    BY <1>2, <1>n, <2>1 DEF TypeOK, GenerateEvt, AdminFull
  <2>3. pc' \in [Rpcs -> {"idle", "emit", "subscribe", "loop", "send", "ended",
                          "failed", "returned"}]
    BY <1>2 DEF TypeOK, GenerateEvt
  <2>. QED  BY <1>2, <2>1, <2>2, <2>3 DEF TypeOK, GenerateEvt
<1>3. ASSUME NEW l \in Loggers, AddLogger(l) PROVE TypeOK'
  <2>1. loggers' \in Seq(Loggers)
    BY <1>3, AppendFacts DEF TypeOK, AddLogger
  <2>2. base' \in [Subs -> Nat]
    BY <1>3, <1>d DEF TypeOK, AddLogger
  <2>3. ctxDone' \subseteq Subs
    BY <1>3, <1>s DEF TypeOK, AddLogger, WithCancel
  <2>. QED  BY <1>3, <1>s, <2>1, <2>2, <2>3 DEF TypeOK, AddLogger
<1>4. ASSUME NEW s \in Staters, AddStater(s) PROVE TypeOK'
  <2>1. staters' \in Seq(Staters)
    BY <1>4, AppendFacts DEF TypeOK, AddStater
  <2>2. base' \in [Subs -> Nat]
    BY <1>4, <1>d DEF TypeOK, AddStater
  <2>3. ctxDone' \subseteq Subs
    BY <1>4, <1>s DEF TypeOK, AddStater, WithCancel
  <2>. QED  BY <1>4, <1>s, <2>1, <2>2, <2>3 DEF TypeOK, AddStater, Locked
<1>5. ASSUME NEW l \in Loggers, LoggerRecv(l) PROVE TypeOK'
  <2>1. rd[l] + 1 \in Nat /\ rd[l] + 1 <= Len(sub[l])
    BY <1>5, <1>s, <1>n DEF TypeOK, LoggerRecv, SubEmpty
  <2>2. rd' = [rd EXCEPT ![l] = rd[l] + 1] /\ sub' = sub
    BY <1>5 DEF LoggerRecv
  <2>3. rd[l] \in Nat /\ Len(sub[l]) <= rd[l] + StreamCap
    BY <1>s DEF TypeOK
  <2>4. Len(sub[l]) <= rd[l] + 1 + StreamCap
    BY <1>s, <1>n, <2>3, CapAssumption
  <2>5. rd' \in [Subs -> Nat]
    BY <2>1, <2>2 DEF TypeOK
  <2>6. \A s \in Subs : rd'[s] <= Len(sub'[s]) /\ Len(sub'[s]) <= rd'[s] + StreamCap
    BY <1>s, <2>1, <2>2, <2>4 DEF TypeOK
  <2>7. pc' \in [Rpcs -> {"idle", "emit", "subscribe", "loop", "send", "ended",
                          "failed", "returned"}]
    BY <1>5, <1>s DEF TypeOK, LoggerRecv
  <2>. QED  BY <1>5, <2>2, <2>5, <2>6, <2>7 DEF TypeOK, LoggerRecv
<1>6. ASSUME NEW l \in Loggers, LoggerSend(l) PROVE TypeOK'
  BY <1>6, <1>s DEF TypeOK, LoggerSend
<1>7. ASSUME NEW l \in Loggers, LoggerEnd(l) PROVE TypeOK'
  BY <1>7, <1>s DEF TypeOK, LoggerEnd
<1>8. ASSUME NEW s \in Staters, StaterCount(s) PROVE TypeOK'
  <2>. DEFINE evt == sub[s][rd[s] + 1]
  <2>1. rd[s] + 1 \in 1..Len(sub[s])
    BY <1>8, <1>s, <1>n DEF TypeOK, StaterCount, SubEmpty
  <2>2. evt \in Rpcs
    BY <2>1, <1>s, ElementOfSeq DEF TypeOK
  <2>3. MethodOf[evt] \in Methods /\ ConsumerOf[evt] \in Consumers
    BY <2>2 DEF TypeOK, Methods, Consumers
  <2>. HIDE DEF evt
  <2>4. Counted(stat[s], evt) \in [byMethod : [Methods -> Nat], byConsumer : [Consumers -> Nat]]
    <3>1. /\ stat[s].byMethod \in [Methods -> Nat]
          /\ stat[s].byConsumer \in [Consumers -> Nat]
      BY DEF TypeOK
    <3>2. /\ [stat[s].byMethod EXCEPT ![MethodOf[evt]] = @ + 1] \in [Methods -> Nat]
          /\ [stat[s].byConsumer EXCEPT ![ConsumerOf[evt]] = @ + 1] \in [Consumers -> Nat]
      BY <3>1, <2>3
    <3>. QED  BY <3>2 DEF Counted
  <2>5. stat' \in [Staters -> [byMethod : [Methods -> Nat], byConsumer : [Consumers -> Nat]]]
    BY <1>8, <2>4 DEF TypeOK, StaterCount, evt
  <2>6. rd' \in [Subs -> Nat] /\ \A t \in Subs : rd'[t] <= Len(sub[t]) /\ Len(sub[t]) <= rd'[t] + StreamCap
    BY <1>8, <1>s, <1>n, <2>1 DEF TypeOK, StaterCount
  <2>. QED  BY <1>8, <2>5, <2>6 DEF TypeOK, StaterCount
<1>9. ASSUME NEW s \in Staters, StatTick(s) PROVE TypeOK'
  <2>. DEFINE Stats == [byMethod : [Methods -> Nat], byConsumer : [Consumers -> Nat]]
  <2>1. NewStat \in Stats
    BY DEF NewStat
  <2>t. stat \in [Staters -> Stats] /\ reported \in [Staters -> Nat] /\ rd[s] \in Nat
    BY <1>s DEF TypeOK
  <2>. HIDE DEF Stats
  <2>2. stat' \in [Staters -> Stats] /\ reported' \in [Staters -> Nat]
    BY <1>9, <2>t, <2>1 DEF StatTick
  <2>3. pc' \in [Rpcs -> {"idle", "emit", "subscribe", "loop", "send", "ended",
                          "failed", "returned"}]
    BY <1>9, <1>s DEF TypeOK, StatTick
  <2>. QED  BY <1>9, <2>2, <2>3 DEF TypeOK, StatTick, Stats
<1>10. ASSUME NEW s \in Staters, StaterEnd(s) PROVE TypeOK'
  BY <1>10, <1>s DEF TypeOK, StaterEnd
<1>11. ASSUME MgrDone PROVE TypeOK'
  <2>1. ctxDone' \subseteq Subs
    BY <1>11, <1>s, ListedFacts DEF TypeOK, MgrDone
  <2>. QED  BY <1>11, <2>1 DEF TypeOK, MgrDone
<1>12. ASSUME MgrRecv PROVE TypeOK'
  <2>1. taken' \in 0..Len(log') /\ Len(log') - taken' <= AdminCap
    BY <1>12, <1>n DEF TypeOK, MgrRecv
  <2>. QED  BY <1>12, <2>1 DEF TypeOK, MgrRecv
<1>13. ASSUME MgrLock PROVE TypeOK'
  BY <1>13 DEF TypeOK, MgrLock
<1>14. ASSUME MgrSendLogger PROVE TypeOK'
  <2>. DEFINE l == loggers[next]
  <2>1. CASE UNCHANGED <<next, sub>> /\ mpc' = "panic"
    BY <1>14, <2>1 DEF TypeOK, MgrSendLogger
  <2>2. CASE /\ ~SubFull(l)
             /\ sub' = [sub EXCEPT ![l] = Append(@, InHand)]
             /\ next' = next + 1
             /\ UNCHANGED mpc
    <3>1. l \in Subs
      BY <1>14, <1>s, ListedFacts DEF TypeOK, MgrSendLogger
    <3>2. InHand \in Rpcs
      BY <1>14, <1>h DEF TypeOK, MgrSendLogger
    <3>3. /\ sub' \in [Subs -> Seq(Rpcs)]
          /\ \A t \in Subs : rd[t] <= Len(sub'[t]) /\ Len(sub'[t]) <= rd[t] + StreamCap
      BY <2>2, <3>1, <3>2, <1>a
    <3>4. next' \in Nat \ {0}
      BY <2>2 DEF TypeOK
    <3>. QED  BY <1>14, <2>2, <3>3, <3>4 DEF TypeOK, MgrSendLogger
  <2>. QED  BY <1>14, <2>1, <2>2 DEF TypeOK, MgrSendLogger
<1>15. ASSUME MgrLoggersDone PROVE TypeOK'
  BY <1>15, EmptySeq DEF TypeOK, MgrLoggersDone
<1>16. ASSUME MgrCheckStater PROVE TypeOK'
  <2>1. next' \in Nat \ {0} /\ (mpc' = "statput" => next' <= Len(staters))
    BY <1>16 DEF TypeOK, MgrCheckStater
  <2>. QED  BY <1>16, <2>1 DEF TypeOK, MgrCheckStater
<1>17. ASSUME MgrSendStater PROVE TypeOK'
  <2>. DEFINE s == staters[next]
  <2>1. s \in Staters
    BY <1>17, ListedFacts DEF TypeOK, MgrSendStater
  <2>2. InHand \in Rpcs
    BY <1>17, <1>h DEF TypeOK, MgrSendStater
  <2>3. kept' \in Seq(Staters)
    BY <1>17, <2>1, AppendFacts DEF TypeOK, MgrSendStater
  <2>4. /\ sub' \in [Subs -> Seq(Rpcs)]
        /\ \A t \in Subs : rd[t] <= Len(sub'[t]) /\ Len(sub'[t]) <= rd[t] + StreamCap
    BY <1>17, <1>s, <2>1, <2>2, <1>a DEF TypeOK, MgrSendStater
  <2>5. next' \in Nat \ {0}
    BY <1>17 DEF TypeOK, MgrSendStater
  <2>. QED  BY <1>17, <2>3, <2>4, <2>5 DEF TypeOK, MgrSendStater
<1>18. ASSUME MgrUnlock PROVE TypeOK'
  BY <1>18 DEF TypeOK, MgrUnlock
<1>19. ASSUME FinishAdmin PROVE TypeOK'
  BY <1>19 DEF TypeOK, FinishAdmin
<1>20. ASSUME ServerStop PROVE TypeOK'
  BY <1>20 DEF TypeOK, ServerStop
<1>21. ASSUME NEW s \in Subs, PropagateCancel(s) PROVE TypeOK'
  BY <1>21 DEF TypeOK, PropagateCancel
<1>22. ASSUME NEW s \in Breakable, Disconnect(s) PROVE TypeOK'
  BY <1>22 DEF TypeOK, Disconnect
<1>23. CASE UNCHANGED vars
  BY <1>23 DEF TypeOK, vars
<1>. QED
  BY <1>1, <1>2, <1>3, <1>4, <1>5, <1>6, <1>7, <1>8, <1>9, <1>10, <1>11, <1>12,
     <1>13, <1>14, <1>15, <1>16, <1>17, <1>18, <1>19, <1>20, <1>21, <1>22, <1>23
  DEF Next, LoggerStep, StaterStep, MgrStep

\* Every reachable state is well typed: every index the code uses is in range
\* and no channel holds more than its capacity.
THEOREM TypeCorrect == Spec => []TypeOK
<1>. QED  BY InitTypeOK, NextTypeOK, PTL DEF Spec

-----------------------------------------------------------------------------
(* The rounds of deliveries *)

Fresh == {"idle", "emit", "subscribe"}

\* Positions are natural numbers, and a registered subscriber is a subscriber.
LEMMA TypeFacts ==
  ASSUME TypeOK
  PROVE  /\ \A s \in Subs : Position(s) \in Nat /\ Len(sub[s]) \in Nat /\ base[s] \in Nat
         /\ Len(loggers) \in Nat /\ Len(staters) \in Nat /\ Len(log) \in Nat
         /\ \A i \in 1..Len(loggers) : loggers[i] \in Loggers /\ loggers[i] \in Listed(loggers)
         /\ \A i \in 1..Len(staters) : staters[i] \in Staters /\ staters[i] \in Listed(staters)
         /\ Listed(loggers) \subseteq Loggers /\ Listed(staters) \subseteq Staters
         /\ Loggers \subseteq Subs /\ Staters \subseteq Subs /\ Subs \subseteq Rpcs
         /\ taken \in Nat /\ taken <= Len(log) /\ next \in Nat \ {0}
         /\ Alive => Dispatched \in Nat /\ Dispatched <= taken
         /\ mpc \notin {"select", "stopped"} => InHand \in Rpcs /\ taken >= 1
<1>1. Loggers \subseteq Subs /\ Staters \subseteq Subs /\ Subs \subseteq Rpcs
  BY DEF Rpcs, Subs
<1>2. Len(log) \in Nat /\ \A s \in Subs : Len(sub[s]) \in Nat /\ base[s] \in Nat
  BY LenProperties DEF TypeOK
<1>3. \A s \in Subs : Position(s) \in Nat
  BY <1>2 DEF Position
<1>4. taken \in Nat /\ taken <= Len(log) /\ (mpc \notin {"select", "stopped"} => taken >= 1)
  BY <1>2 DEF TypeOK
<1>5. Dispatched \in Nat /\ Dispatched <= taken
  BY <1>4 DEF Dispatched
<1>6. mpc \notin {"select", "stopped"} => InHand \in Rpcs
  BY <1>2, <1>4, ElementOfSeq DEF TypeOK, InHand
<1>7. loggers \in Seq(Loggers) /\ staters \in Seq(Staters) /\ next \in Nat \ {0}
  BY DEF TypeOK
<1>. QED  BY <1>1, <1>2, <1>3, <1>4, <1>5, <1>6, <1>7, ListedFacts

\* The manager's send of the event in hand moves one subscriber by one.
LEMMA SendMoves ==
  ASSUME TypeOK, NEW s \in Subs, InHand \in Rpcs, base' = base,
         sub' = [sub EXCEPT ![s] = Append(@, InHand)]
  PROVE  /\ Position(s)' = Position(s) + 1
         /\ \A t \in Subs : t # s => Position(t)' = Position(t)
<1>1. sub \in [Subs -> Seq(Rpcs)]
  BY DEF TypeOK
<1>2. Len(sub'[s]) = Len(sub[s]) + 1
  BY <1>1, AppendFacts
<1>3. Len(sub[s]) \in Nat /\ base[s] \in Nat
  BY TypeFacts
<1>4. \A a, b \in Nat : a + (b + 1) = (a + b) + 1
  OBVIOUS
<1>5. base'[s] + Len(sub'[s]) = (base[s] + Len(sub[s])) + 1
  BY <1>2, <1>3, <1>4
<1>6. Position(s)' = Position(s) + 1
  BY <1>5 DEF Position
<1>7. \A t \in Subs : t # s => Position(t)' = Position(t)
  BY <1>1 DEF Position
<1>. QED  BY <1>6, <1>7

\* A registration between two rounds puts the subscriber at their boundary.
LEMMA RegisterAtBoundary ==
  ASSUME TypeOK, FreshUnlisted, Alive, NEW s \in Subs, pc[s] = "subscribe", sub' = sub,
         base' = [base EXCEPT ![s] = Dispatched]
  PROVE  /\ s \notin Listed(loggers) \cup Listed(staters)
         /\ Position(s)' = Dispatched
         /\ \A t \in Subs : t # s => Position(t)' = Position(t)
<1>1. /\ s \notin Listed(loggers) \cup Listed(staters)
      /\ sub[s] = << >>
  BY DEF FreshUnlisted
<1>2. Len(sub[s]) = 0 /\ Dispatched \in Nat
  BY <1>1, TypeFacts, EmptySeq
<1>3. base \in [Subs -> Nat]
  BY DEF TypeOK
<1>4. Position(s)' = Dispatched + 0
  BY <1>2, <1>3 DEF Position
<1>. QED  BY <1>1, <1>2, <1>3, <1>4 DEF Position

LEMMA RoundInvQuiet ==
  ASSUME RoundInv,
         UNCHANGED <<taken, mpc, next, kept, loggers, staters, base, sub>>,
         ctxDone \subseteq ctxDone',
         \A s \in Subs : pc'[s] \in Fresh => pc[s] \in Fresh
  PROVE  RoundInv'
<1>1. FreshUnlisted'
  BY DEF RoundInv, FreshUnlisted, Fresh
<1>2. OneToOne(loggers)' /\ OneToOne(staters)'
  BY DEF RoundInv, OneToOne
<1>3. (\A s \in Subs : Position(s) <= taken)'
  BY DEF RoundInv, Position
<1>4. LoggersInRound'
  BY DEF RoundInv, LoggersInRound, Position, InStaterLoop, Dispatched
<1>5. StatersInRound'
  <2>1. CASE InStaterLoop
    <3>1. InStaterLoop' /\ OneToOne(kept)'
      BY <2>1 DEF RoundInv, StatersInRound, InStaterLoop, OneToOne
    <3>2. \A i \in 1..Len(staters) :
             IF i < next
             THEN \/ Position(staters[i]) = taken
                  \/ Position(staters[i]) = taken - 1 /\ staters[i] \in ctxDone'
             ELSE Position(staters[i]) = taken - 1
      BY <2>1 DEF RoundInv, StatersInRound
    <3>3. Listed(kept) = {s \in Listed(staters) : Position(s) = taken}
      BY <2>1 DEF RoundInv, StatersInRound
    <3>4. /\ Listed(kept)' = Listed(kept) /\ Listed(staters)' = Listed(staters)
          /\ \A s : Position(s)' = Position(s)
      BY DEF Listed, Position
    <3>5. (Listed(kept) = {s \in Listed(staters) : Position(s) = taken})'
      BY <3>3, <3>4
    <3>6. (\A i \in 1..Len(staters) :
             IF i < next
             THEN \/ Position(staters[i]) = taken
                  \/ Position(staters[i]) = taken - 1 /\ staters[i] \in ctxDone
             ELSE Position(staters[i]) = taken - 1)'
      BY <3>2, <3>4
    <3>. QED  BY <3>1, <3>5, <3>6 DEF StatersInRound
  <2>2. CASE ~InStaterLoop
    BY <2>2 DEF RoundInv, StatersInRound, Position, InStaterLoop, Dispatched
  <2>. QED  BY <2>1, <2>2
<1>. QED  BY <1>1, <1>2, <1>3, <1>4, <1>5 DEF RoundInv

\* A list stays one-to-one when a new element is appended to it.
LEMMA AppendOneToOne ==
  ASSUME NEW S, NEW q \in Seq(S), NEW e \in S, OneToOne(q), e \notin Listed(q)
  PROVE  OneToOne(Append(q, e))
<1>1. /\ Len(q) \in Nat
      /\ Len(Append(q, e)) = Len(q) + 1
      /\ \A i \in 1..Len(q) : Append(q, e)[i] = q[i] /\ q[i] \in Listed(q)
      /\ Append(q, e)[Len(q) + 1] = e
  BY AppendFacts, ListedFacts
<1>. SUFFICES ASSUME NEW i \in 1..Len(q) + 1, NEW j \in 1..Len(q) + 1,
                     Append(q, e)[i] = Append(q, e)[j]
              PROVE  i = j
  BY <1>1 DEF OneToOne
<1>2. (i \in 1..Len(q) \/ i = Len(q) + 1) /\ (j \in 1..Len(q) \/ j = Len(q) + 1)
  BY <1>1
<1>. QED  BY <1>1, <1>2 DEF OneToOne

LEMMA RoundInvAddLogger ==
  ASSUME TypeOK, RoundInv, NEW l \in Loggers, AddLogger(l)
  PROVE  RoundInv'
<1>1. /\ Alive /\ ~Locked /\ pc[l] = "subscribe" /\ sub' = sub
      /\ base' = [base EXCEPT ![l] = Dispatched]
      /\ loggers' = Append(loggers, l) /\ staters' = staters
      /\ UNCHANGED <<taken, mpc, next, kept>>
      /\ pc' = [pc EXCEPT ![l] = "loop"]
  BY DEF AddLogger, busVars, mgrVars, regVars
<1>2. l \in Subs /\ FreshUnlisted
  BY DEF Subs, RoundInv
<1>3. /\ l \notin Listed(loggers) \cup Listed(staters)
      /\ Position(l)' = Dispatched
      /\ \A t \in Subs : t # l => Position(t)' = Position(t)
  BY <1>1, <1>2, RegisterAtBoundary
<1>4. loggers \in Seq(Loggers) /\ pc \in [Rpcs -> {"idle", "emit", "subscribe", "loop",
                                   "send", "ended", "failed", "returned"}]
  BY DEF TypeOK
<1>5. /\ Len(loggers') = Len(loggers) + 1
      /\ \A i \in 1..Len(loggers) : loggers'[i] = loggers[i]
      /\ loggers'[Len(loggers) + 1] = l
      /\ Listed(loggers)' = Listed(loggers) \cup {l}
      /\ Listed(staters)' = Listed(staters)
  BY <1>1, <1>4, AppendFacts DEF Listed
<1>6. ~InStaterLoop /\ mpc \notin {"loggers", "panic"} /\ Dispatched' = Dispatched
  BY <1>1 DEF InStaterLoop, Locked, Alive, Dispatched
<1>7. FreshUnlisted'
  <2>. SUFFICES ASSUME NEW s \in Subs, pc'[s] \in Fresh
                PROVE  /\ s \notin Listed(loggers)' \cup Listed(staters)'
                       /\ sub'[s] = << >> /\ base'[s] = 0
    BY DEF FreshUnlisted, Fresh
  <2>1. s # l /\ pc[s] \in Fresh
    BY <1>1, <1>4, TypeFacts DEF Fresh
  <2>. QED  BY <2>1, <1>1, <1>2, <1>5 DEF FreshUnlisted, Fresh, TypeOK
<1>8. OneToOne(loggers)' /\ OneToOne(staters)'
  <2>1. OneToOne(loggers') /\ OneToOne(staters)
    BY <1>1, <1>3, <1>4, AppendOneToOne DEF RoundInv
  <2>. QED  BY <2>1, <1>1 DEF OneToOne
<1>9. (\A s \in Subs : Position(s) <= taken)'
  BY <1>1, <1>2, <1>3, TypeFacts DEF RoundInv
<1>10. LoggersInRound'
  <2>. SUFFICES ASSUME NEW i \in 1..Len(loggers) + 1
                PROVE  Position(loggers[i])' = Dispatched
    BY <1>1, <1>5, <1>6 DEF LoggersInRound, InStaterLoop
  <2>1. CASE i = Len(loggers) + 1
    BY <2>1, <1>3, <1>5 DEF Position
  <2>2. CASE i \in 1..Len(loggers)
    <3>1. Position(loggers[i]) = Dispatched
      BY <2>2, <1>6 DEF RoundInv, LoggersInRound
    <3>2. loggers[i] \in Subs /\ loggers[i] # l /\ loggers'[i] = loggers[i]
      BY <2>2, <1>3, <1>5, TypeFacts
    <3>. QED  BY <3>1, <3>2, <1>3 DEF Position
  <2>. QED  BY <2>1, <2>2, TypeFacts
<1>11. StatersInRound'
  <2>. SUFFICES ASSUME NEW i \in 1..Len(staters)
                PROVE  Position(staters[i])' = Dispatched
    BY <1>1, <1>6 DEF StatersInRound, InStaterLoop
  <2>1. Position(staters[i]) = Dispatched
    BY <1>6 DEF RoundInv, StatersInRound
  <2>2. staters[i] \in Subs /\ staters[i] # l
    BY <1>3, TypeFacts
  <2>. QED  BY <2>1, <2>2, <1>1, <1>3 DEF Position
<1>. QED  BY <1>7, <1>8, <1>9, <1>10, <1>11 DEF RoundInv

LEMMA RoundInvAddStater ==
  ASSUME TypeOK, RoundInv, NEW s \in Staters, AddStater(s)
  PROVE  RoundInv'
<1>1. /\ Alive /\ ~Locked /\ pc[s] = "subscribe" /\ sub' = sub
      /\ base' = [base EXCEPT ![s] = Dispatched]
      /\ staters' = Append(staters, s) /\ loggers' = loggers
      /\ UNCHANGED <<taken, mpc, next, kept>>
      /\ pc' = [pc EXCEPT ![s] = "loop"]
  BY DEF AddStater, busVars, mgrVars, regVars
<1>2. s \in Subs /\ FreshUnlisted
  BY DEF Subs, RoundInv
<1>3. /\ s \notin Listed(loggers) \cup Listed(staters)
      /\ Position(s)' = Dispatched
      /\ \A t \in Subs : t # s => Position(t)' = Position(t)
  BY <1>1, <1>2, RegisterAtBoundary
<1>4. staters \in Seq(Staters) /\ pc \in [Rpcs -> {"idle", "emit", "subscribe", "loop",
                                   "send", "ended", "failed", "returned"}]
  BY DEF TypeOK
<1>5. /\ Len(staters') = Len(staters) + 1
      /\ \A i \in 1..Len(staters) : staters'[i] = staters[i]
      /\ staters'[Len(staters) + 1] = s
      /\ Listed(staters)' = Listed(staters) \cup {s}
      /\ Listed(loggers)' = Listed(loggers)
  BY <1>1, <1>4, AppendFacts DEF Listed
<1>6. ~InStaterLoop /\ mpc \notin {"loggers", "panic"} /\ Dispatched' = Dispatched
  BY <1>1 DEF InStaterLoop, Locked, Alive, Dispatched
<1>7. FreshUnlisted'
  <2>. SUFFICES ASSUME NEW t \in Subs, pc'[t] \in Fresh
                PROVE  /\ t \notin Listed(loggers)' \cup Listed(staters)'
                       /\ sub'[t] = << >> /\ base'[t] = 0
    BY DEF FreshUnlisted, Fresh
  <2>1. t # s /\ pc[t] \in Fresh
    BY <1>1, <1>4, TypeFacts DEF Fresh
  <2>. QED  BY <2>1, <1>1, <1>2, <1>5 DEF FreshUnlisted, Fresh, TypeOK
<1>8. OneToOne(loggers)' /\ OneToOne(staters)'
  <2>1. OneToOne(staters') /\ OneToOne(loggers)
    BY <1>1, <1>3, <1>4, AppendOneToOne DEF RoundInv
  <2>. QED  BY <2>1, <1>1 DEF OneToOne
<1>9. (\A t \in Subs : Position(t) <= taken)'
  BY <1>1, <1>2, <1>3, TypeFacts DEF RoundInv
<1>10. StatersInRound'
  <2>. SUFFICES ASSUME NEW i \in 1..Len(staters) + 1
                PROVE  Position(staters[i])' = Dispatched
    BY <1>1, <1>5, <1>6 DEF StatersInRound, InStaterLoop
  <2>1. CASE i = Len(staters) + 1
    BY <2>1, <1>3, <1>5 DEF Position
  <2>2. CASE i \in 1..Len(staters)
    <3>1. Position(staters[i]) = Dispatched
      BY <2>2, <1>6 DEF RoundInv, StatersInRound
    <3>2. staters[i] \in Subs /\ staters[i] # s /\ staters'[i] = staters[i]
      BY <2>2, <1>3, <1>5, TypeFacts
    <3>. QED  BY <3>1, <3>2, <1>3 DEF Position
  <2>. QED  BY <2>1, <2>2, TypeFacts
<1>11. LoggersInRound'
  <2>. SUFFICES ASSUME NEW i \in 1..Len(loggers)
                PROVE  Position(loggers[i])' = Dispatched
    BY <1>1, <1>6 DEF LoggersInRound, InStaterLoop
  <2>1. Position(loggers[i]) = Dispatched
    BY <1>6 DEF RoundInv, LoggersInRound
  <2>2. loggers[i] \in Subs /\ loggers[i] # s
    BY <1>3, TypeFacts
  <2>. QED  BY <2>1, <2>2, <1>1, <1>3 DEF Position
<1>. QED  BY <1>7, <1>8, <1>9, <1>10, <1>11 DEF RoundInv

LEMMA RoundInvMgr ==
  ASSUME TypeOK, RoundInv, MgrStep
  PROVE  RoundInv'
<1>. USE DEF busVars, mgrVars, regVars, lifeVars
<1>1. ASSUME MgrDone PROVE RoundInv'
  <2>1. FreshUnlisted' /\ OneToOne(loggers)' /\ OneToOne(staters)'
    BY <1>1 DEF MgrDone, RoundInv, FreshUnlisted, OneToOne
  <2>2. (\A s \in Subs : Position(s) <= taken)'
    BY <1>1 DEF MgrDone, RoundInv, Position
  <2>3. LoggersInRound'
    BY <1>1 DEF MgrDone, RoundInv, LoggersInRound, Position, InStaterLoop, Dispatched
  <2>4. StatersInRound'
    BY <1>1 DEF MgrDone, RoundInv, StatersInRound, Position, InStaterLoop, Dispatched
  <2>. QED  BY <2>1, <2>2, <2>3, <2>4 DEF RoundInv
<1>2. ASSUME MgrRecv PROVE RoundInv'
  <2>1. FreshUnlisted' /\ OneToOne(loggers)' /\ OneToOne(staters)'
    BY <1>2 DEF MgrRecv, RoundInv, FreshUnlisted, OneToOne
  <2>2. (\A s \in Subs : Position(s) <= taken)'
    BY <1>2, TypeFacts DEF MgrRecv, RoundInv, Position
  <2>3. Dispatched' = Dispatched
    BY <1>2, TypeFacts DEF MgrRecv, Dispatched
  <2>4. LoggersInRound'
    BY <1>2, <2>3 DEF MgrRecv, RoundInv, LoggersInRound, Position, InStaterLoop
  <2>5. StatersInRound'
    BY <1>2, <2>3 DEF MgrRecv, RoundInv, StatersInRound, Position, InStaterLoop
  <2>. QED  BY <2>1, <2>2, <2>4, <2>5 DEF RoundInv
<1>3. ASSUME MgrLock PROVE RoundInv'
  <2>1. FreshUnlisted' /\ OneToOne(loggers)' /\ OneToOne(staters)'
    BY <1>3 DEF MgrLock, RoundInv, FreshUnlisted, OneToOne
  <2>2. (\A s \in Subs : Position(s) <= taken)'
    BY <1>3 DEF MgrLock, RoundInv, Position
  <2>3. Dispatched' = Dispatched
    BY <1>3 DEF MgrLock, Dispatched
  <2>4. LoggersInRound'
    BY <1>3, <2>3 DEF MgrLock, RoundInv, LoggersInRound, Position, InStaterLoop
  <2>5. StatersInRound'
    BY <1>3, <2>3 DEF MgrLock, RoundInv, StatersInRound, Position, InStaterLoop
  <2>. QED  BY <2>1, <2>2, <2>4, <2>5 DEF RoundInv
<1>4. ASSUME MgrSendLogger PROVE RoundInv'
  <2>0. /\ mpc = "loggers" /\ next \in 1..Len(loggers)
        /\ UNCHANGED <<pc, taken, kept, loggers, staters, base>>
    BY <1>4, TypeFacts DEF MgrSendLogger
  <2>l. PICK l \in Subs : l = loggers[next] /\ l \in Loggers /\ l \in Listed(loggers)
    BY <2>0, TypeFacts
  <2>1. CASE UNCHANGED <<next, sub>> /\ mpc' = "panic"
    <3>1. FreshUnlisted' /\ OneToOne(loggers)' /\ OneToOne(staters)'
      BY <2>0, <2>1 DEF RoundInv, FreshUnlisted, OneToOne
    <3>2. (\A s \in Subs : Position(s) <= taken)'
      BY <2>0, <2>1 DEF RoundInv, Position
    <3>3. LoggersInRound' /\ StatersInRound'
      BY <2>0, <2>1
      DEF RoundInv, LoggersInRound, StatersInRound, Position, InStaterLoop, Dispatched
    <3>. QED  BY <3>1, <3>2, <3>3 DEF RoundInv
  <2>2. CASE /\ sub' = [sub EXCEPT ![l] = Append(@, InHand)]
             /\ next' = next + 1 /\ mpc' = mpc
    <3>1. l \in Subs /\ l \in Loggers /\ l \in Listed(loggers) /\ InHand \in Rpcs
      BY <2>0, <2>l, TypeFacts
    <3>2. /\ Position(l)' = Position(l) + 1
          /\ \A t \in Subs : t # l => Position(t)' = Position(t)
      BY <2>0, <2>2, <3>1, SendMoves
    <3>3. ~InStaterLoop /\ Dispatched = taken - 1 /\ Dispatched' = Dispatched /\ taken \in Nat
      BY <2>0, <2>2, TypeFacts DEF InStaterLoop, Dispatched
    <3>4. Position(l) = taken - 1 /\ Position(l)' = taken
      BY <2>0, <2>l, <3>2, <3>3, TypeFacts DEF RoundInv, LoggersInRound
    <3>5. FreshUnlisted'
      BY <2>0, <2>2, <3>1 DEF RoundInv, FreshUnlisted, TypeOK
    <3>6. OneToOne(loggers)' /\ OneToOne(staters)'
      BY <2>0 DEF RoundInv, OneToOne
    <3>7. (\A s \in Subs : Position(s) <= taken)'
      BY <2>0, <3>2, <3>3, <3>4 DEF RoundInv
    <3>8. LoggersInRound'
      <4>. SUFFICES ASSUME NEW i \in 1..Len(loggers)
                    PROVE  Position(loggers[i])' = IF i < next + 1 THEN taken ELSE taken - 1
        BY <2>0, <2>2, <3>3 DEF LoggersInRound, InStaterLoop
      <4>1. CASE i = next
        BY <4>1, <2>0, <2>l, <3>4, TypeFacts DEF Position
      <4>2. CASE i # next
        <5>1. loggers[i] # l /\ loggers[i] \in Subs
          BY <4>2, <2>0, <2>l, TypeFacts DEF RoundInv, OneToOne
        <5>2. Position(loggers[i]) = IF i < next THEN taken ELSE taken - 1
          BY <2>0, <3>3 DEF RoundInv, LoggersInRound
        <5>3. i < next + 1 <=> i < next
          BY <4>2, TypeFacts
        <5>. QED  BY <5>1, <5>2, <5>3, <3>2, <2>0 DEF Position
      <4>. QED  BY <4>1, <4>2
    <3>9. StatersInRound'
      <4>. SUFFICES ASSUME NEW i \in 1..Len(staters)
                    PROVE  Position(staters[i])' = Dispatched
        BY <2>0, <2>2, <3>3 DEF StatersInRound, InStaterLoop
      <4>1. staters[i] \in Subs /\ staters[i] # l
        BY <3>1, TypeFacts
      <4>2. Position(staters[i]) = Dispatched
        BY <3>3 DEF RoundInv, StatersInRound
      <4>. QED  BY <4>1, <4>2, <3>2, <2>0 DEF Position
    <3>. QED  BY <3>5, <3>6, <3>7, <3>8, <3>9 DEF RoundInv
  <2>. QED  BY <1>4, <2>l, <2>1, <2>2 DEF MgrSendLogger
<1>5. ASSUME MgrLoggersDone PROVE RoundInv'
  <2>0. /\ mpc = "loggers" /\ next > Len(loggers) /\ mpc' = "staters" /\ next' = 1
        /\ kept' = << >> /\ UNCHANGED <<pc, taken, loggers, staters, base, sub>>
    BY <1>5 DEF MgrLoggersDone
  <2>1. FreshUnlisted' /\ OneToOne(loggers)' /\ OneToOne(staters)'
    BY <2>0 DEF RoundInv, FreshUnlisted, OneToOne
  <2>2. (\A s \in Subs : Position(s) <= taken)'
    BY <2>0 DEF RoundInv, Position
  <2>3. LoggersInRound'
    <3>1. \A i \in 1..Len(loggers) : i < next
      BY <2>0, TypeFacts
    <3>. QED  BY <2>0, <3>1 DEF RoundInv, LoggersInRound, Position, InStaterLoop
  <2>4. \A i \in 1..Len(staters) : Position(staters[i]) = taken - 1
    BY <2>0 DEF RoundInv, StatersInRound, InStaterLoop, Dispatched
  <2>5. \A s \in Listed(staters) : Position(s) # taken
    BY <2>4, TypeFacts DEF Listed
  <2>6. Listed(kept') = {} /\ OneToOne(kept')
    BY <2>0 DEF Listed, OneToOne
  <2>7. StatersInRound'
    <3>1. \A s : Position(s)' = Position(s)
      BY <2>0 DEF Position
    <3>2. (Listed(kept) = {s \in Listed(staters) : Position(s) = taken})'
      BY <2>0, <2>5, <2>6, <3>1 DEF Listed
    <3>3. OneToOne(kept)'
      BY <2>6 DEF OneToOne
    <3>4. (\A i \in 1..Len(staters) : ~(i < next) /\ Position(staters[i]) = taken - 1)'
      BY <2>0, <2>4, <3>1, TypeFacts
    <3>5. InStaterLoop'
      BY <2>0 DEF InStaterLoop
    <3>. QED  BY <3>2, <3>3, <3>4, <3>5 DEF StatersInRound
  <2>. QED  BY <2>1, <2>2, <2>3, <2>7 DEF RoundInv
<1>6. ASSUME MgrCheckStater PROVE RoundInv'
  <2>0. /\ mpc = "staters" /\ next \in 1..Len(staters) /\ mpc' \in {"staters", "statput"}
        /\ UNCHANGED <<pc, taken, kept, loggers, staters, base, sub, ctxDone>>
        /\ \/ staters[next] \in ctxDone /\ next' = next + 1
           \/ next' = next
    BY <1>6, TypeFacts DEF MgrCheckStater
  <2>1. FreshUnlisted' /\ OneToOne(loggers)' /\ OneToOne(staters)'
    BY <2>0 DEF RoundInv, FreshUnlisted, OneToOne
  <2>2. (\A s \in Subs : Position(s) <= taken)'
    BY <2>0 DEF RoundInv, Position
  <2>3. LoggersInRound'
    BY <2>0 DEF RoundInv, LoggersInRound, Position, InStaterLoop
  <2>4. StatersInRound'
    <3>1. InStaterLoop /\ InStaterLoop'
      BY <2>0 DEF InStaterLoop
    <3>2. \A s : Position(s)' = Position(s)
      BY <2>0 DEF Position
    <3>3. (Listed(kept) = {s \in Listed(staters) : Position(s) = taken})'
      BY <2>0, <3>1, <3>2 DEF RoundInv, StatersInRound, Listed
    <3>4. OneToOne(kept)'
      BY <2>0, <3>1 DEF RoundInv, StatersInRound, OneToOne
    <3>5. ASSUME NEW i \in 1..Len(staters)
          PROVE  IF i < next'
                 THEN \/ Position(staters[i]) = taken
                      \/ Position(staters[i]) = taken - 1 /\ staters[i] \in ctxDone
                 ELSE Position(staters[i]) = taken - 1
      <4>1. IF i < next
            THEN \/ Position(staters[i]) = taken
                 \/ Position(staters[i]) = taken - 1 /\ staters[i] \in ctxDone
            ELSE Position(staters[i]) = taken - 1
        BY <3>1 DEF RoundInv, StatersInRound
      <4>2. CASE next' = next
        BY <4>1, <4>2
      <4>3. CASE staters[next] \in ctxDone /\ next' = next + 1 /\ i # next
        <5>1. i < next' <=> i < next
          BY <4>3, TypeFacts
        <5>. QED  BY <4>1, <5>1
      <4>4. CASE staters[next] \in ctxDone /\ next' = next + 1 /\ i = next
        <5>1. ~(i < next) /\ i < next'
          BY <4>4, TypeFacts
        <5>. QED  BY <4>1, <4>4, <5>1
      <4>. QED  BY <2>0, <4>2, <4>3, <4>4
    <3>. QED  BY <2>0, <3>1, <3>2, <3>3, <3>4, <3>5 DEF StatersInRound
  <2>. QED  BY <2>1, <2>2, <2>3, <2>4 DEF RoundInv
<1>7. ASSUME MgrSendStater PROVE RoundInv'
  <2>0. /\ mpc = "statput" /\ next \in 1..Len(staters) /\ mpc' = "staters" /\ next' = next + 1
        /\ UNCHANGED <<pc, taken, loggers, staters, base, ctxDone>>
        /\ InHand \in Rpcs
        /\ InStaterLoop /\ InStaterLoop'
    <3>1. /\ mpc = "statput" /\ mpc' = "staters" /\ next' = next + 1
          /\ UNCHANGED <<pc, taken, loggers, staters, base, ctxDone>>
      BY <1>7 DEF MgrSendStater
    <3>2. next <= Len(staters)
      BY <3>1 DEF TypeOK
    <3>3. next \in 1..Len(staters) /\ InHand \in Rpcs
      BY <3>1, <3>2, TypeFacts
    <3>. QED  BY <3>1, <3>3 DEF InStaterLoop
  <2>l. PICK s \in Subs : s = staters[next] /\ s \in Staters /\ s \in Listed(staters)
    BY <2>0, TypeFacts
  <2>1. sub' = [sub EXCEPT ![s] = Append(@, InHand)] /\ kept' = Append(kept, s)
    BY <1>7, <2>l DEF MgrSendStater
  <2>2. /\ Position(s)' = Position(s) + 1
        /\ \A t \in Subs : t # s => Position(t)' = Position(t)
    BY <2>0, <2>1, SendMoves
  <2>3. Position(s) = taken - 1 /\ Position(s)' = taken /\ taken \in Nat
    BY <2>0, <2>l, <2>2, TypeFacts DEF RoundInv, StatersInRound
  <2>4. FreshUnlisted'
    BY <2>0, <2>1, <2>l DEF RoundInv, FreshUnlisted, TypeOK
  <2>5. OneToOne(loggers)' /\ OneToOne(staters)'
    BY <2>0 DEF RoundInv, OneToOne
  <2>6. (\A t \in Subs : Position(t) <= taken)'
    BY <2>0, <2>2, <2>3 DEF RoundInv
  <2>7. LoggersInRound'
    <3>. SUFFICES ASSUME NEW i \in 1..Len(loggers)
                  PROVE  Position(loggers[i])' = taken
      BY <2>0 DEF LoggersInRound
    <3>1. loggers[i] \in Subs /\ loggers[i] # s
      BY <2>l, TypeFacts
    <3>2. Position(loggers[i]) = taken
      BY <2>0 DEF RoundInv, LoggersInRound
    <3>. QED  BY <3>1, <3>2, <2>0, <2>2 DEF Position
  <2>8. kept \in Seq(Staters) /\ s \notin Listed(kept)
    BY <2>0, <2>3 DEF RoundInv, StatersInRound, TypeOK
  <2>9. Listed(kept') = Listed(kept) \cup {s} /\ OneToOne(kept')
    BY <2>0, <2>1, <2>l, <2>8, AppendFacts, AppendOneToOne DEF RoundInv, StatersInRound
  <2>10. StatersInRound'
    <3>1. (Listed(kept) = {t \in Listed(staters) : Position(t) = taken})'
      <4>1. Listed(kept) = {t \in Listed(staters) : Position(t) = taken}
        BY <2>0 DEF RoundInv, StatersInRound
      <4>2. Listed(staters)' = Listed(staters) /\ Listed(kept)' = Listed(kept) \cup {s}
        BY <2>0, <2>9 DEF Listed
      <4>3. \A t \in Listed(staters) : t \in Subs
        BY TypeFacts
      <4>. QED  BY <4>1, <4>2, <4>3, <2>0, <2>2, <2>3, <2>l
    <3>2. OneToOne(kept)'
      BY <2>9 DEF OneToOne
    <3>3. ASSUME NEW i \in 1..Len(staters)
          PROVE  IF i < next + 1
                 THEN \/ Position(staters[i])' = taken
                      \/ Position(staters[i])' = taken - 1 /\ staters[i] \in ctxDone
                 ELSE Position(staters[i])' = taken - 1
      <4>1. IF i < next
            THEN \/ Position(staters[i]) = taken
                 \/ Position(staters[i]) = taken - 1 /\ staters[i] \in ctxDone
            ELSE Position(staters[i]) = taken - 1
        BY <2>0 DEF RoundInv, StatersInRound
      <4>2. CASE i = next
        <5>1. i < next + 1
          BY <4>2, TypeFacts
        <5>2. Position(staters[i])' = taken
          BY <4>2, <2>0, <2>3, <2>l DEF Position
        <5>. QED  BY <5>1, <5>2
      <4>3. CASE i # next
        <5>1. i < next + 1 <=> i < next
          BY <4>3, TypeFacts
        <5>2. staters[i] \in Subs /\ staters[i] # s
          BY <4>3, <2>0, <2>l, TypeFacts DEF RoundInv, OneToOne
        <5>3. Position(staters[i])' = Position(staters[i])
          BY <5>2, <2>0, <2>2 DEF Position
        <5>. QED  BY <4>1, <5>1, <5>3
      <4>. QED  BY <4>2, <4>3
    <3>4. (\A i \in 1..Len(staters) :
             IF i < next
             THEN \/ Position(staters[i]) = taken
                  \/ Position(staters[i]) = taken - 1 /\ staters[i] \in ctxDone
             ELSE Position(staters[i]) = taken - 1)'
      BY <2>0, <3>3
    <3>. QED  BY <2>0, <3>1, <3>2, <3>4 DEF StatersInRound
  <2>. QED  BY <2>4, <2>5, <2>6, <2>7, <2>10 DEF RoundInv
<1>8. ASSUME MgrUnlock PROVE RoundInv'
  <2>0. /\ mpc = "staters" /\ mpc' = "select" /\ staters' = kept
        /\ UNCHANGED <<pc, taken, loggers, base, sub>>
        /\ InStaterLoop /\ ~InStaterLoop' /\ Dispatched' = taken
    BY <1>8 DEF MgrUnlock, InStaterLoop, Dispatched
  <2>1. /\ Listed(kept) = {s \in Listed(staters) : Position(s) = taken}
        /\ OneToOne(kept)
    BY <2>0 DEF RoundInv, StatersInRound
  <2>2. \A s : Position(s)' = Position(s)
    BY <2>0 DEF Position
  <2>3. Listed(staters)' = Listed(kept) /\ Listed(loggers)' = Listed(loggers)
    BY <2>0 DEF Listed
  <2>4. FreshUnlisted'
    BY <2>0, <2>1, <2>3 DEF RoundInv, FreshUnlisted
  <2>5. OneToOne(loggers)' /\ OneToOne(staters)'
    BY <2>0, <2>1 DEF RoundInv, OneToOne
  <2>6. (\A s \in Subs : Position(s) <= taken)'
    BY <2>0 DEF RoundInv, Position
  <2>7. LoggersInRound'
    BY <2>0 DEF RoundInv, LoggersInRound, Position
  <2>8. StatersInRound'
    <3>1. \A i \in 1..Len(kept) : kept[i] \in Listed(kept)
      BY DEF Listed
    <3>2. \A i \in 1..Len(kept) : Position(kept[i]) = taken
      BY <2>1, <3>1
    <3>. QED  BY <2>0, <3>2 DEF StatersInRound, Position
  <2>. QED  BY <2>4, <2>5, <2>6, <2>7, <2>8 DEF RoundInv
<1>. QED  BY <1>1, <1>2, <1>3, <1>4, <1>5, <1>6, <1>7, <1>8 DEF MgrStep

LEMMA NextRoundInv == TypeOK /\ RoundInv /\ [Next]_vars => RoundInv'
<1>. SUFFICES ASSUME TypeOK, RoundInv, [Next]_vars
              PROVE  RoundInv'
  OBVIOUS
<1>. USE DEF busVars, mgrVars, regVars, statVars, lifeVars
<1>s. pc \in [Rpcs -> {"idle", "emit", "subscribe", "loop", "send", "ended",
                       "failed", "returned"}]
      /\ Loggers \subseteq Rpcs /\ Staters \subseteq Rpcs /\ Subs \subseteq Rpcs
      /\ \A s \in Subs : s \notin Calls
  BY DEF TypeOK, Rpcs, Subs
<1>1. ASSUME NEW r \in Rpcs, Arrive(r) \/ GenerateEvt(r) PROVE RoundInv'
  <2>1. /\ UNCHANGED <<taken, mpc, next, kept, loggers, staters, base, sub>>
        /\ ctxDone \subseteq ctxDone'
    BY <1>1 DEF Arrive, GenerateEvt
  <2>2. \A s \in Subs : pc'[s] \in Fresh => pc[s] \in Fresh
    BY <1>1, <1>s DEF Arrive, GenerateEvt, Fresh
  <2>. QED  BY <2>1, <2>2, RoundInvQuiet
<1>2. ASSUME NEW l \in Loggers, LoggerStep(l) PROVE RoundInv'
  <2>1. CASE AddLogger(l)
    BY <2>1, RoundInvAddLogger
  <2>2. CASE LoggerRecv(l) \/ LoggerSend(l) \/ LoggerEnd(l)
    <3>1. /\ UNCHANGED <<taken, mpc, next, kept, loggers, staters, base, sub>>
          /\ ctxDone \subseteq ctxDone'
      BY <2>2 DEF LoggerRecv, LoggerSend, LoggerEnd
    <3>2. \A s \in Subs : pc'[s] \in Fresh => pc[s] \in Fresh
      BY <2>2, <1>s DEF LoggerRecv, LoggerSend, LoggerEnd, Fresh
    <3>. QED  BY <3>1, <3>2, RoundInvQuiet
  <2>. QED  BY <1>2, <2>1, <2>2 DEF LoggerStep
<1>3. ASSUME NEW s \in Staters, StaterStep(s) PROVE RoundInv'
  <2>1. CASE AddStater(s)
    BY <2>1, RoundInvAddStater
  <2>2. CASE StaterCount(s) \/ StatTick(s) \/ StaterEnd(s)
    <3>1. /\ UNCHANGED <<taken, mpc, next, kept, loggers, staters, base, sub>>
          /\ ctxDone \subseteq ctxDone'
      BY <2>2 DEF StaterCount, StatTick, StaterEnd
    <3>2. \A t \in Subs : pc'[t] \in Fresh => pc[t] \in Fresh
      BY <2>2, <1>s DEF StaterCount, StatTick, StaterEnd, Fresh
    <3>. QED  BY <3>1, <3>2, RoundInvQuiet
  <2>. QED  BY <1>3, <2>1, <2>2 DEF StaterStep
<1>4. ASSUME MgrStep PROVE RoundInv'
  BY <1>4, RoundInvMgr
<1>5. ASSUME \/ FinishAdmin \/ ServerStop
             \/ \E s \in Subs : PropagateCancel(s)
             \/ \E s \in Breakable : Disconnect(s)
             \/ UNCHANGED vars
      PROVE RoundInv'
  <2>1. /\ UNCHANGED <<pc, taken, mpc, next, kept, loggers, staters, base, sub>>
        /\ ctxDone \subseteq ctxDone'
    BY <1>5 DEF FinishAdmin, ServerStop, PropagateCancel, Disconnect, vars
  <2>. QED  BY <2>1, RoundInvQuiet
<1>. QED  BY <1>1, <1>2, <1>3, <1>4, <1>5 DEF Next

-----------------------------------------------------------------------------
(* The content of the streams *)

LEMMA NextStreamIsSegment ==
  TypeOK /\ RoundInv /\ StreamIsSegment /\ [Next]_vars => StreamIsSegment'
<1>. SUFFICES ASSUME TypeOK, RoundInv, StreamIsSegment, [Next]_vars
              PROVE  StreamIsSegment'
  OBVIOUS
<1>. USE DEF busVars, mgrVars, regVars, statVars, lifeVars
<1>1. ASSUME NEW r \in Rpcs, GenerateEvt(r) PROVE StreamIsSegment'
  <2>1. /\ log' = Append(log, r) /\ base' = base /\ sub' = sub
        /\ Len(log') = Len(log) + 1 /\ \A i \in 1..Len(log) : log'[i] = log[i]
    BY <1>1, AppendFacts DEF GenerateEvt, TypeOK
  <2>. SUFFICES ASSUME NEW s \in Subs
                PROVE  /\ base[s] + Len(sub[s]) <= Len(log')
                       /\ \A i \in 1..Len(sub[s]) : sub[s][i] = log'[base[s] + i]
    BY <2>1 DEF StreamIsSegment
  <2>2. base[s] + Len(sub[s]) <= Len(log) /\ \A i \in 1..Len(sub[s]) : sub[s][i] = log[base[s] + i]
    BY DEF StreamIsSegment
  <2>3. base[s] \in Nat /\ Len(sub[s]) \in Nat /\ Len(log) \in Nat
    BY TypeFacts
  <2>4. \A i \in 1..Len(sub[s]) : base[s] + i \in 1..Len(log)
    BY <2>2, <2>3
  <2>. QED  BY <2>1, <2>2, <2>3, <2>4
<1>2. ASSUME NEW s \in Subs, pc[s] = "subscribe", Alive, sub' = sub, log' = log,
             base' = [base EXCEPT ![s] = Dispatched]
      PROVE  StreamIsSegment'
  <2>1. sub[s] = << >> /\ Len(sub[s]) = 0 /\ Dispatched \in Nat /\ Dispatched <= Len(log)
    BY <1>2, TypeFacts, EmptySeq DEF RoundInv, FreshUnlisted
  <2>2. base \in [Subs -> Nat]
    BY DEF TypeOK
  <2>3. base'[s] = Dispatched /\ \A t \in Subs : t # s => base'[t] = base[t]
    BY <1>2, <2>2
  <2>4. base'[s] + Len(sub[s]) <= Len(log) /\ \A i \in 1..Len(sub[s]) : FALSE
    BY <2>1, <2>3, TypeFacts
  <2>. QED  BY <1>2, <2>3, <2>4 DEF StreamIsSegment
<1>3. ASSUME NEW s \in Subs, Position(s) = taken - 1, taken >= 1, InHand \in Rpcs, log' = log,
             base' = base, sub' = [sub EXCEPT ![s] = Append(@, InHand)]
      PROVE  StreamIsSegment'
  <2>1. sub \in [Subs -> Seq(Rpcs)]
    BY DEF TypeOK
  <2>2. /\ Len(sub'[s]) = Len(sub[s]) + 1
        /\ \A i \in 1..Len(sub[s]) : sub'[s][i] = sub[s][i]
        /\ sub'[s][Len(sub[s]) + 1] = InHand
        /\ \A t \in Subs : t # s => sub'[t] = sub[t]
    BY <1>3, <2>1, AppendFacts
  <2>3. base[s] \in Nat /\ Len(sub[s]) \in Nat /\ Len(log) \in Nat /\ taken \in Nat /\ taken <= Len(log)
    BY TypeFacts
  <2>4. base[s] + Len(sub[s]) = taken - 1
    BY <1>3 DEF Position
  <2>5. base[s] + (Len(sub[s]) + 1) = taken
    BY <2>3, <2>4
  <2>6. \A i \in 1..Len(sub[s]) + 1 : sub'[s][i] = log[base[s] + i]
    <3>1. sub'[s][Len(sub[s]) + 1] = log[base[s] + (Len(sub[s]) + 1)]
      BY <2>2, <2>5 DEF InHand
    <3>2. \A i \in 1..Len(sub[s]) : sub'[s][i] = log[base[s] + i]
      BY <2>2 DEF StreamIsSegment
    <3>3. \A i \in 1..Len(sub[s]) + 1 : i \in 1..Len(sub[s]) \/ i = Len(sub[s]) + 1
      BY <2>3
    <3>. QED  BY <3>1, <3>2, <3>3
  <2>7. base[s] + Len(sub'[s]) <= Len(log)
    BY <2>2, <2>3, <2>5
  <2>. QED  BY <1>3, <2>2, <2>6, <2>7 DEF StreamIsSegment
<1>4. ASSUME MgrSendLogger PROVE StreamIsSegment'
  <2>1. CASE sub' = sub
    BY <1>4, <2>1 DEF MgrSendLogger, StreamIsSegment
  <2>2. CASE sub' # sub
    <3>0. mpc = "loggers" /\ next \in 1..Len(loggers) /\ base' = base /\ log' = log
      BY <1>4, TypeFacts DEF MgrSendLogger
    <3>1. PICK l \in Subs : l = loggers[next]
      BY <3>0, TypeFacts
    <3>2. sub' = [sub EXCEPT ![l] = Append(@, InHand)]
      BY <1>4, <2>2, <3>1 DEF MgrSendLogger
    <3>3. Position(l) = taken - 1
      BY <3>0, <3>1, TypeFacts DEF RoundInv, LoggersInRound, InStaterLoop, Dispatched
    <3>. QED  BY <3>0, <3>2, <3>3, <1>3, TypeFacts
  <2>. QED  BY <2>1, <2>2
<1>5. ASSUME MgrSendStater PROVE StreamIsSegment'
  <2>0. mpc = "statput" /\ base' = base /\ log' = log
    BY <1>5 DEF MgrSendStater
  <2>1. next \in 1..Len(staters)
    <3>1. next <= Len(staters)
      BY <2>0 DEF TypeOK
    <3>. QED  BY <3>1, TypeFacts
  <2>2. PICK s \in Subs : s = staters[next]
    BY <2>1, TypeFacts
  <2>3. sub' = [sub EXCEPT ![s] = Append(@, InHand)]
    BY <1>5, <2>2 DEF MgrSendStater
  <2>4. Position(s) = taken - 1
    BY <2>0, <2>1, <2>2, TypeFacts DEF RoundInv, StatersInRound, InStaterLoop
  <2>. QED  BY <2>0, <2>3, <2>4, <1>3, TypeFacts
<1>6. ASSUME UNCHANGED <<log, base, sub>> PROVE StreamIsSegment'
  BY <1>6 DEF StreamIsSegment
<1>7. ASSUME NEW l \in Loggers, LoggerStep(l) PROVE StreamIsSegment'
  <2>1. CASE AddLogger(l)
    BY <2>1, <1>2 DEF AddLogger, Subs
  <2>2. CASE LoggerRecv(l) \/ LoggerSend(l) \/ LoggerEnd(l)
    BY <2>2, <1>6 DEF LoggerRecv, LoggerSend, LoggerEnd
  <2>. QED  BY <1>7, <2>1, <2>2 DEF LoggerStep
<1>8. ASSUME NEW s \in Staters, StaterStep(s) PROVE StreamIsSegment'
  <2>1. CASE AddStater(s)
    BY <2>1, <1>2 DEF AddStater, Subs
  <2>2. CASE StaterCount(s) \/ StatTick(s) \/ StaterEnd(s)
    BY <2>2, <1>6 DEF StaterCount, StatTick, StaterEnd
  <2>. QED  BY <1>8, <2>1, <2>2 DEF StaterStep
<1>9. ASSUME MgrStep PROVE StreamIsSegment'
  BY <1>9, <1>4, <1>5, <1>6
  DEF MgrStep, MgrDone, MgrRecv, MgrLock, MgrLoggersDone, MgrCheckStater, MgrUnlock
<1>10. ASSUME \/ \E r \in Rpcs : Arrive(r)
              \/ FinishAdmin \/ ServerStop
              \/ \E s \in Subs : PropagateCancel(s)
              \/ \E s \in Breakable : Disconnect(s)
              \/ UNCHANGED vars
      PROVE StreamIsSegment'
  BY <1>10, <1>6 DEF Arrive, FinishAdmin, ServerStop, PropagateCancel, Disconnect, vars
<1>. QED  BY <1>1, <1>7, <1>8, <1>9, <1>10 DEF Next

-----------------------------------------------------------------------------
(* Registrations, contexts and panics *)

LEMMA NextLiveSubscriberListed ==
  TypeOK /\ RoundInv /\ LiveSubscriberListed /\ [Next]_vars => LiveSubscriberListed'
<1>. SUFFICES ASSUME TypeOK, RoundInv, LiveSubscriberListed, [Next]_vars
              PROVE  LiveSubscriberListed'
  OBVIOUS
<1>. USE DEF busVars, mgrVars, regVars, statVars, lifeVars
<1>s. /\ pc \in [Rpcs -> {"idle", "emit", "subscribe", "loop", "send", "ended",
                          "failed", "returned"}]
      /\ loggers \in Seq(Loggers) /\ staters \in Seq(Staters)
      /\ Loggers \subseteq Subs /\ Staters \subseteq Subs /\ Subs \subseteq Rpcs
  BY DEF TypeOK, Rpcs, Subs
<1>q. ASSUME UNCHANGED <<loggers, staters>>, ctxDone \subseteq ctxDone',
             \A s \in Subs : pc'[s] \in {"loop", "send"} => pc[s] \in {"loop", "send"}
      PROVE  LiveSubscriberListed'
  BY <1>q DEF LiveSubscriberListed, Listed
<1>1. ASSUME NEW r \in Rpcs, Arrive(r) \/ GenerateEvt(r) PROVE LiveSubscriberListed'
  BY <1>1, <1>q, <1>s DEF Arrive, GenerateEvt
<1>2. ASSUME NEW l \in Loggers, LoggerStep(l) PROVE LiveSubscriberListed'
  <2>1. CASE AddLogger(l)
    <3>1. Listed(loggers)' = Listed(loggers) \cup {l} /\ Listed(staters)' = Listed(staters)
      BY <2>1, <1>s, AppendFacts DEF AddLogger, Listed
    <3>2. ctxDone \subseteq ctxDone'
      BY <2>1 DEF AddLogger, WithCancel
    <3>. QED  BY <2>1, <3>1, <3>2, <1>s DEF AddLogger, LiveSubscriberListed
  <2>2. CASE LoggerRecv(l) \/ LoggerSend(l) \/ LoggerEnd(l)
    BY <2>2, <1>q, <1>s DEF LoggerRecv, LoggerSend, LoggerEnd
  <2>. QED  BY <1>2, <2>1, <2>2 DEF LoggerStep
<1>3. ASSUME NEW s \in Staters, StaterStep(s) PROVE LiveSubscriberListed'
  <2>1. CASE AddStater(s)
    <3>1. Listed(staters)' = Listed(staters) \cup {s} /\ Listed(loggers)' = Listed(loggers)
      BY <2>1, <1>s, AppendFacts DEF AddStater, Listed
    <3>2. ctxDone \subseteq ctxDone'
      BY <2>1 DEF AddStater, WithCancel
    <3>. QED  BY <2>1, <3>1, <3>2, <1>s DEF AddStater, LiveSubscriberListed
  <2>2. CASE StaterCount(s) \/ StatTick(s) \/ StaterEnd(s)
    BY <2>2, <1>q, <1>s DEF StaterCount, StatTick, StaterEnd
  <2>. QED  BY <1>3, <2>1, <2>2 DEF StaterStep
<1>4. ASSUME MgrStep PROVE LiveSubscriberListed'
  <2>1. CASE MgrUnlock
    <3>1. /\ InStaterLoop /\ staters' = kept /\ UNCHANGED <<pc, loggers, ctxDone>>
          /\ next > Len(staters)
      BY <2>1 DEF MgrUnlock, InStaterLoop
    <3>2. \A i \in 1..Len(staters) : Position(staters[i]) = taken \/ staters[i] \in ctxDone
      BY <3>1, TypeFacts DEF RoundInv, StatersInRound
    <3>3. \A s \in Listed(staters) : s \in ctxDone \/ s \in Listed(kept)
      BY <3>1, <3>2 DEF Listed, RoundInv, StatersInRound
    <3>. QED  BY <3>1, <3>3 DEF LiveSubscriberListed, Listed
  <2>2. CASE MgrDone \/ MgrRecv \/ MgrLock \/ MgrSendLogger \/ MgrLoggersDone
             \/ MgrCheckStater \/ MgrSendStater
    <3>1. UNCHANGED <<pc, loggers, staters>> /\ ctxDone \subseteq ctxDone'
      BY <2>2 DEF MgrDone, MgrRecv, MgrLock, MgrSendLogger, MgrLoggersDone, MgrCheckStater,
                  MgrSendStater
    <3>. QED  BY <3>1, <1>q
  <2>. QED  BY <1>4, <2>1, <2>2 DEF MgrStep
<1>5. ASSUME \/ FinishAdmin \/ ServerStop
             \/ \E s \in Subs : PropagateCancel(s)
             \/ \E s \in Breakable : Disconnect(s)
             \/ UNCHANGED vars
      PROVE LiveSubscriberListed'
  <2>1. UNCHANGED <<pc, loggers, staters>> /\ ctxDone \subseteq ctxDone'
    BY <1>5 DEF FinishAdmin, ServerStop, PropagateCancel, Disconnect, vars
  <2>. QED  BY <2>1, <1>q
<1>. QED  BY <1>1, <1>2, <1>3, <1>4, <1>5 DEF Next

LEMMA NextDoneInv ==
  TypeOK /\ DoneInv /\ NoPanicWhileUp /\ [Next]_vars => DoneInv' /\ NoPanicWhileUp'
<1>. SUFFICES ASSUME TypeOK, DoneInv, NoPanicWhileUp, [Next]_vars
              PROVE  DoneInv' /\ NoPanicWhileUp'
  OBVIOUS
<1>. USE DEF busVars, mgrVars, regVars, statVars, lifeVars
<1>s. /\ pc \in [Rpcs -> {"idle", "emit", "subscribe", "loop", "send", "ended",
                          "failed", "returned"}]
      /\ Loggers \subseteq Subs /\ Staters \subseteq Subs /\ Subs \subseteq Rpcs
      /\ \A s \in Subs : s \notin Calls
  BY DEF TypeOK, Rpcs, Subs
<1>d. AdminDone => AdminDone'
  BY DEF Next, Arrive, GenerateEvt, LoggerStep, AddLogger, LoggerRecv, LoggerSend, LoggerEnd,
         StaterStep, AddStater, StaterCount, StatTick, StaterEnd, MgrStep, MgrDone, MgrRecv,
         MgrLock, MgrSendLogger, MgrLoggersDone, MgrCheckStater, MgrSendStater, MgrUnlock,
         FinishAdmin, ServerStop, PropagateCancel, Disconnect, vars, AdminDone
\* A step that ends no handler, panics not, and lets a context be done only under a
\* done parent.
<1>q. ASSUME ctxDone' = ctxDone \/ AdminDone,
             \A s \in Subs : pc'[s] = "ended" => pc[s] = "ended" \/ AdminDone,
             mpc' = "panic" => mpc = "panic" \/ AdminDone
      PROVE  DoneInv' /\ NoPanicWhileUp'
  BY <1>q, <1>d DEF DoneInv, NoPanicWhileUp
<1>1. ASSUME NEW r \in Rpcs, Arrive(r) \/ GenerateEvt(r) PROVE DoneInv' /\ NoPanicWhileUp'
  BY <1>1, <1>q, <1>s DEF Arrive, GenerateEvt
<1>2. ASSUME NEW l \in Loggers, LoggerStep(l) PROVE DoneInv' /\ NoPanicWhileUp'
  <2>1. ctxDone' = ctxDone \/ AdminDone
    BY <1>2 DEF LoggerStep, AddLogger, WithCancel, LoggerRecv, LoggerSend, LoggerEnd
  <2>2. \A s \in Subs : pc'[s] = "ended" => pc[s] = "ended" \/ AdminDone
    BY <1>2, <1>s DEF LoggerStep, AddLogger, LoggerRecv, LoggerSend, LoggerEnd, DoneInv
  <2>3. mpc' = mpc
    BY <1>2 DEF LoggerStep, AddLogger, LoggerRecv, LoggerSend, LoggerEnd
  <2>. QED  BY <2>1, <2>2, <2>3, <1>q
<1>3. ASSUME NEW s \in Staters, StaterStep(s) PROVE DoneInv' /\ NoPanicWhileUp'
  <2>1. ctxDone' = ctxDone \/ AdminDone
    BY <1>3 DEF StaterStep, AddStater, WithCancel, StaterCount, StatTick, StaterEnd
  <2>2. \A t \in Subs : pc'[t] = "ended" => pc[t] = "ended" \/ AdminDone
    BY <1>3, <1>s DEF StaterStep, AddStater, StaterCount, StatTick, StaterEnd, DoneInv
  <2>3. mpc' = mpc
    BY <1>3 DEF StaterStep, AddStater, StaterCount, StatTick, StaterEnd
  <2>. QED  BY <2>1, <2>2, <2>3, <1>q
<1>4. ASSUME MgrStep PROVE DoneInv' /\ NoPanicWhileUp'
  <2>1. pc' = pc /\ (ctxDone' = ctxDone \/ AdminDone)
    BY <1>4 DEF MgrStep, MgrDone, MgrRecv, MgrLock, MgrSendLogger, MgrLoggersDone,
                MgrCheckStater, MgrSendStater, MgrUnlock
  <2>2. mpc' = "panic" => AdminDone
    <3>1. CASE MgrSendLogger
      <4>1. next \in 1..Len(loggers)
        BY <3>1, TypeFacts DEF MgrSendLogger
      <4>2. loggers[next] \in Subs
        BY <4>1, TypeFacts
      <4>. QED  BY <3>1, <4>2 DEF MgrSendLogger, DoneInv
    <3>2. CASE ~MgrSendLogger
      BY <1>4, <3>2 DEF MgrStep, MgrDone, MgrRecv, MgrLock, MgrLoggersDone, MgrCheckStater,
                        MgrSendStater, MgrUnlock
    <3>. QED  BY <3>1, <3>2
  <2>. QED  BY <2>1, <2>2, <1>q
<1>5. ASSUME \/ FinishAdmin \/ ServerStop
             \/ \E s \in Subs : PropagateCancel(s)
             \/ \E s \in Breakable : Disconnect(s)
             \/ UNCHANGED vars
      PROVE DoneInv' /\ NoPanicWhileUp'
  <2>1. UNCHANGED <<pc, mpc>> /\ (ctxDone' = ctxDone \/ AdminDone)
    BY <1>5 DEF FinishAdmin, ServerStop, PropagateCancel, Disconnect, vars
  <2>. QED  BY <2>1, <1>q
<1>. QED  BY <1>1, <1>2, <1>3, <1>4, <1>5 DEF Next

-----------------------------------------------------------------------------
(* The inductive invariant *)

LEMMA InitIInv == Init => IInv
<1>. SUFFICES ASSUME Init PROVE IInv
  OBVIOUS
<1>1. TypeOK
  BY InitTypeOK
<1>2. Len(<< >>) = 0 /\ Listed(<< >>) = {}
  BY EmptySeq DEF Listed
<1>3. \A s \in Subs : s \in Rpcs /\ base[s] = 0 /\ sub[s] = << >> /\ pc[s] = "idle" /\ Position(s) = 0
  BY <1>2 DEF Init, Rpcs, Position
<1>4. FreshUnlisted /\ OneToOne(loggers) /\ OneToOne(staters) /\ LoggersInRound
  BY <1>2, <1>3 DEF Init, FreshUnlisted, OneToOne, LoggersInRound
<1>5. StatersInRound
  BY <1>2 DEF Init, StatersInRound, InStaterLoop
<1>6. RoundInv
  BY <1>3, <1>4, <1>5 DEF Init, RoundInv
<1>7. StreamIsSegment
  BY <1>2, <1>3 DEF Init, StreamIsSegment
<1>8. LiveSubscriberListed /\ DoneInv /\ NoPanicWhileUp
  BY <1>3 DEF Init, LiveSubscriberListed, DoneInv, NoPanicWhileUp
<1>. QED  BY <1>1, <1>6, <1>7, <1>8 DEF IInv

LEMMA NextIInv == IInv /\ [Next]_vars => IInv'
  BY NextTypeOK, NextRoundInv, NextStreamIsSegment, NextLiveSubscriberListed, NextDoneInv DEF IInv

THEOREM Invariance == Spec => []IInv
<1>. QED  BY InitIInv, NextIInv, PTL DEF Spec

\* Every subscriber's channel carries a contiguous piece of the bus's one order.
THEOREM StreamsAreSegments == Spec => []StreamIsSegment
<1>1. IInv => StreamIsSegment
  BY DEF IInv
<1>. QED  BY <1>1, Invariance, PTL

\* Between two rounds everyone registered has been sent everything dispatched
\* since it registered.
THEOREM NobodyBehind == Spec => []NoSubscriberBehind
<1>1. IInv => NoSubscriberBehind
  <2>. SUFFICES ASSUME IInv, Alive, ~Locked,
                       NEW s \in Listed(loggers) \cup Listed(staters)
                PROVE  base[s] + Len(sub[s]) = Dispatched
    BY DEF NoSubscriberBehind
  <2>1. ~InStaterLoop /\ mpc \notin {"loggers", "panic"}
    BY DEF InStaterLoop, Locked, Alive
  <2>2. CASE s \in Listed(loggers)
    BY <2>1, <2>2 DEF IInv, RoundInv, LoggersInRound, Listed, Position
  <2>3. CASE s \in Listed(staters)
    BY <2>1, <2>3 DEF IInv, RoundInv, StatersInRound, Listed, Position
  <2>. QED  BY <2>2, <2>3
<1>. QED  BY <1>1, Invariance, PTL

\* No registration of a subscriber whose context is not done is ever lost.
THEOREM NoRegistrationLost == Spec => []LiveSubscriberListed
<1>1. IInv => LiveSubscriberListed
  BY DEF IInv
<1>. QED  BY <1>1, Invariance, PTL

\* The manager never sends on a closed channel while the server is up.
THEOREM PanicOnlyInShutdown == Spec => []NoPanicWhileUp
<1>1. IInv => NoPanicWhileUp
  BY DEF IInv
<1>. QED  BY <1>1, Invariance, PTL

-----------------------------------------------------------------------------
(* Action property and refinement *)

\* A statistics stream is dropped from the list only once its context is done.
THEOREM StaterDrops == Spec => StaterDroppedOnlyWhenDone
<1>. DEFINE A == \A s \in Listed(staters) \ Listed(staters)' : s \in ctxDone
<1>1. IInv /\ [Next]_vars => [A]_vars
  <2>. SUFFICES ASSUME IInv, Next PROVE A
    OBVIOUS
  <2>. USE DEF busVars, mgrVars, regVars, statVars, lifeVars
  <2>1. CASE MgrUnlock
    <3>1. InStaterLoop /\ staters' = kept /\ next > Len(staters)
      BY <2>1 DEF MgrUnlock, InStaterLoop
    <3>2. \A i \in 1..Len(staters) : Position(staters[i]) = taken \/ staters[i] \in ctxDone
      BY <3>1, TypeFacts DEF IInv, RoundInv, StatersInRound
    <3>3. \A s \in Listed(staters) : s \in ctxDone \/ s \in Listed(kept)
      BY <3>1, <3>2 DEF Listed, IInv, RoundInv, StatersInRound
    <3>. QED  BY <3>1, <3>3 DEF Listed
  <2>2. CASE \E s \in Staters : AddStater(s)
    <3>1. PICK s \in Staters : staters' = Append(staters, s)
      BY <2>2 DEF AddStater
    <3>2. staters \in Seq(Staters)
      BY DEF IInv, TypeOK
    <3>3. Listed(staters)' = Listed(staters) \cup {s}
      BY <3>1, <3>2, AppendFacts DEF Listed
    <3>. QED  BY <3>3
  <2>3. CASE staters' = staters
    BY <2>3 DEF Listed
  <2>. QED
    BY <2>1, <2>2, <2>3
    DEF Next, Arrive, GenerateEvt, LoggerStep, AddLogger, LoggerRecv, LoggerSend, LoggerEnd,
        StaterStep, StaterCount, StatTick, StaterEnd, MgrStep, MgrDone, MgrRecv, MgrLock,
        MgrSendLogger, MgrLoggersDone, MgrCheckStater, MgrSendStater, FinishAdmin, ServerStop,
        PropagateCancel, Disconnect
<1>. QED  BY <1>1, Invariance, PTL DEF Spec, StaterDroppedOnlyWhenDone

LEMMA InitRefines == Init => Fanout!Init
<1>1. Listed(<< >>) = {}
  BY EmptySeq DEF Listed
<1>. QED  BY <1>1 DEF Init, Fanout!Init, Dispatched

LEMMA StepRefines == IInv /\ [Next]_vars => [Fanout!Next]_(Fanout!vars)
<1>. SUFFICES ASSUME IInv, [Next]_vars PROVE [Fanout!Next]_(Fanout!vars)
  OBVIOUS
<1>. USE DEF busVars, mgrVars, regVars, statVars, lifeVars
<1>. DEFINE active == Listed(loggers) \cup Listed(staters)
<1>t. /\ TypeOK /\ RoundInv
      /\ loggers \in Seq(Loggers) /\ staters \in Seq(Staters)
      /\ Loggers \subseteq Subs /\ Staters \subseteq Subs
  BY DEF IInv, TypeOK, Subs
<1>p. \A s : Fanout!Position(s) = Position(s)
  BY DEF Fanout!Position, Position
<1>q. ASSUME UNCHANGED <<log, loggers, staters, base, sub>>, Dispatched' = Dispatched
      PROVE  [Fanout!Next]_(Fanout!vars)
  BY <1>q DEF Fanout!vars, Listed
\* Between two rounds everyone is at the boundary.
<1>b. ~InStaterLoop /\ mpc \notin {"loggers", "panic"} => \A t \in active : Position(t) = Dispatched
  BY <1>t DEF RoundInv, LoggersInRound, StatersInRound, Listed
<1>1. ASSUME NEW r \in Rpcs, Arrive(r) \/ GenerateEvt(r) PROVE [Fanout!Next]_(Fanout!vars)
  <2>1. CASE Arrive(r)
    BY <2>1, <1>q DEF Arrive, Dispatched
  <2>2. CASE GenerateEvt(r)
    <3>1. Fanout!Publish(r)
      BY <2>2 DEF GenerateEvt, Fanout!Publish, Dispatched, Listed
    <3>. QED  BY <3>1 DEF Fanout!Next
  <2>. QED  BY <1>1, <2>1, <2>2
<1>2. ASSUME NEW s \in Subs, Alive, ~Locked, pc[s] = "subscribe", UNCHANGED <<log, taken, mpc, sub>>,
             base' = [base EXCEPT ![s] = Dispatched], active' = active \cup {s}
      PROVE  [Fanout!Next]_(Fanout!vars)
  <2>1. s \notin active /\ sub[s] = << >>
    BY <1>2, <1>t DEF RoundInv, FreshUnlisted
  <2>2. \A t \in active : Position(t) = Dispatched
    BY <1>2, <1>b DEF InStaterLoop, Locked, Alive
  <2>3. Fanout!Join(s)
    BY <1>2, <1>p, <2>1, <2>2 DEF Fanout!Join, Dispatched
  <2>. QED  BY <2>3 DEF Fanout!Next
<1>3. ASSUME NEW s \in Subs, s \in active, mpc \in {"loggers", "statput"}, Position(s) = taken - 1,
             mpc' \in {"loggers", "staters"}, UNCHANGED <<log, taken, loggers, staters, base>>,
             sub' = [sub EXCEPT ![s] = Append(@, InHand)]
      PROVE  [Fanout!Next]_(Fanout!vars)
  <2>1. Dispatched = taken - 1 /\ Dispatched' = Dispatched
    BY <1>3 DEF Dispatched
  <2>2. taken \in Nat /\ taken >= 1 /\ taken <= Len(log) /\ Len(log) \in Nat
    BY <1>3, <1>t, TypeFacts
  <2>3. Dispatched + 1 = taken /\ Dispatched < Len(log)
    BY <2>1, <2>2
  <2>4. sub' = [sub EXCEPT ![s] = Append(@, log[Dispatched + 1])]
    BY <1>3, <2>3 DEF InHand
  <2>5. active' = active
    BY <1>3 DEF Listed
  <2>6. Fanout!Deliver(s)
    BY <1>3, <1>p, <2>1, <2>3, <2>4, <2>5 DEF Fanout!Deliver
  <2>. QED  BY <2>6 DEF Fanout!Next
<1>4. ASSUME NEW l \in Loggers, LoggerStep(l) PROVE [Fanout!Next]_(Fanout!vars)
  <2>1. CASE AddLogger(l)
    <3>1. active' = active \cup {l}
      BY <2>1, <1>t, AppendFacts DEF AddLogger, Listed
    <3>. QED  BY <2>1, <3>1, <1>2, <1>t DEF AddLogger
  <2>2. CASE LoggerRecv(l) \/ LoggerSend(l) \/ LoggerEnd(l)
    BY <2>2, <1>q DEF LoggerRecv, LoggerSend, LoggerEnd, Dispatched
  <2>. QED  BY <1>4, <2>1, <2>2 DEF LoggerStep
<1>5. ASSUME NEW s \in Staters, StaterStep(s) PROVE [Fanout!Next]_(Fanout!vars)
  <2>1. CASE AddStater(s)
    <3>1. active' = active \cup {s}
      BY <2>1, <1>t, AppendFacts DEF AddStater, Listed
    <3>. QED  BY <2>1, <3>1, <1>2, <1>t DEF AddStater
  <2>2. CASE StaterCount(s) \/ StatTick(s) \/ StaterEnd(s)
    BY <2>2, <1>q DEF StaterCount, StatTick, StaterEnd, Dispatched
  <2>. QED  BY <1>5, <2>1, <2>2 DEF StaterStep
<1>6. ASSUME MgrStep PROVE [Fanout!Next]_(Fanout!vars)
  <2>1. CASE MgrSendLogger
    <3>0. mpc = "loggers" /\ next \in 1..Len(loggers) /\ UNCHANGED <<log, taken, loggers, staters, base>>
      BY <2>1, <1>t, TypeFacts DEF MgrSendLogger
    <3>1. PICK l \in Subs : l = loggers[next] /\ l \in active
      BY <3>0, <1>t, TypeFacts
    <3>2. CASE mpc' = "panic" /\ UNCHANGED sub
      BY <3>0, <3>2, <1>q DEF Dispatched
    <3>3. CASE mpc' = mpc /\ sub' = [sub EXCEPT ![l] = Append(@, InHand)]
      <4>1. Position(l) = taken - 1
        BY <3>0, <3>1, <1>t, TypeFacts DEF RoundInv, LoggersInRound, InStaterLoop, Dispatched
      <4>. QED  BY <3>0, <3>1, <3>3, <4>1, <1>3
    <3>. QED  BY <2>1, <3>1, <3>2, <3>3 DEF MgrSendLogger
  <2>2. CASE MgrSendStater
    <3>0. mpc = "statput" /\ mpc' = "staters" /\ UNCHANGED <<log, taken, loggers, staters, base>>
      BY <2>2 DEF MgrSendStater
    <3>1. next \in 1..Len(staters)
      <4>1. next <= Len(staters)
        BY <3>0, <1>t DEF TypeOK
      <4>. QED  BY <4>1, <1>t, TypeFacts
    <3>2. PICK s \in Subs : s = staters[next] /\ s \in active
      BY <3>1, <1>t, TypeFacts
    <3>3. sub' = [sub EXCEPT ![s] = Append(@, InHand)]
      BY <2>2, <3>2 DEF MgrSendStater
    <3>4. Position(s) = taken - 1
      BY <3>0, <3>1, <3>2, <1>t, TypeFacts DEF RoundInv, StatersInRound, InStaterLoop
    <3>. QED  BY <3>0, <3>2, <3>3, <3>4, <1>3
  <2>3. CASE MgrUnlock
    <3>0. /\ mpc = "staters" /\ InStaterLoop /\ staters' = kept
          /\ UNCHANGED <<log, taken, loggers, base, sub>>
          /\ Dispatched = taken - 1 /\ Dispatched' = taken
      BY <2>3 DEF MgrUnlock, InStaterLoop, Dispatched
    <3>1. taken \in Nat /\ taken >= 1 /\ taken <= Len(log) /\ Len(log) \in Nat
      BY <3>0, <1>t, TypeFacts
    <3>2. Dispatched + 1 = taken /\ Dispatched < Len(log) /\ Dispatched' = Dispatched + 1
      BY <3>0, <3>1
    <3>3. \A s \in Listed(loggers) : Position(s) = taken
      BY <3>0, <1>t DEF RoundInv, LoggersInRound, Listed
    <3>4. Listed(kept) = {s \in Listed(staters) : Position(s) = taken}
      BY <3>0, <1>t DEF RoundInv, StatersInRound
    <3>5. active' = Listed(loggers) \cup Listed(kept)
      BY <3>0 DEF Listed
    <3>6. active' = {s \in active : Position(s) = taken}
      BY <3>3, <3>4, <3>5
    <3>7. active' = {s \in active : Fanout!Position(s) = Dispatched + 1}
      BY <3>2, <3>6, <1>p
    <3>8. Fanout!EndRound
      BY <3>0, <3>2, <3>7 DEF Fanout!EndRound
    <3>. QED  BY <3>8 DEF Fanout!Next
  <2>4. CASE MgrRecv
    <3>1. taken \in Nat /\ Dispatched' = Dispatched
      BY <2>4, <1>t, TypeFacts DEF MgrRecv, Dispatched
    <3>. QED  BY <2>4, <3>1, <1>q DEF MgrRecv
  <2>5. CASE MgrDone \/ MgrLock \/ MgrLoggersDone \/ MgrCheckStater
    BY <2>5, <1>q DEF MgrDone, MgrLock, MgrLoggersDone, MgrCheckStater, Dispatched
  <2>. QED  BY <1>6, <2>1, <2>2, <2>3, <2>4, <2>5 DEF MgrStep
<1>7. ASSUME \/ FinishAdmin \/ ServerStop
             \/ \E s \in Subs : PropagateCancel(s)
             \/ \E s \in Breakable : Disconnect(s)
             \/ UNCHANGED vars
      PROVE [Fanout!Next]_(Fanout!vars)
  BY <1>7, <1>q DEF FinishAdmin, ServerStop, PropagateCancel, Disconnect, vars, Dispatched
<1>. QED  BY <1>1, <1>4, <1>5, <1>6, <1>7 DEF Next

\* The bus of goroutines, channels and a mutex implements ordered fan-out in rounds.
THEOREM Refinement == Spec => ImplementsFanout
<1>. QED
  BY InitRefines, StepRefines, Invariance, PTL DEF Spec, ImplementsFanout, Fanout!Spec
-----------------------------------------------------------------------------
(* Whom the manager waits for *)

\* A handler fails only when its own client is gone, a subscriber does not
\* return early, and only Logging sends to its client from a state of its own.
HandlersInv ==
  /\ \A s \in Subs : pc[s] # "returned" /\ (pc[s] = "failed" => Gone(s))
  /\ \A s \in Staters : pc[s] # "send"

LEMMA NextHandlersInv == TypeOK /\ HandlersInv /\ [Next]_vars => HandlersInv'
<1>. SUFFICES ASSUME TypeOK, HandlersInv, [Next]_vars PROVE HandlersInv'
  OBVIOUS
<1>. USE DEF busVars, mgrVars, regVars, statVars, lifeVars
<1>s. Subs \subseteq Rpcs /\ Loggers \subseteq Subs /\ Staters \subseteq Subs
  BY DEF Rpcs, Subs
<1>t. pc \in [Rpcs -> {"idle", "emit", "subscribe", "loop", "send", "ended",
                       "failed", "returned"}]
  BY DEF TypeOK
<1>q. ASSUME pc' = pc, broken \subseteq broken', phase = "stopped" => phase' = "stopped"
      PROVE  HandlersInv'
  BY <1>q DEF HandlersInv, Gone
\* A handler that moves to x, while nothing else about the streams changes.
<1>m. ASSUME NEW r \in Rpcs, NEW x, pc' = [pc EXCEPT ![r] = x], UNCHANGED <<broken, phase>>,
             r \in Subs => x # "returned" /\ (x = "failed" => Gone(r)),
             r \in Staters => x # "send"
      PROVE  HandlersInv'
  BY <1>m, <1>s, <1>t DEF HandlersInv, Gone
<1>1. ASSUME NEW r \in Rpcs, Arrive(r) \/ GenerateEvt(r) PROVE HandlersInv'
  <2>1. CASE Arrive(r)
    BY <2>1, <1>m DEF Arrive
  <2>2. CASE GenerateEvt(r)
    <3>1. r \in Subs => r \notin Calls
      BY DisjointRpcs
    <3>. QED  BY <2>2, <3>1, <1>m DEF GenerateEvt
  <2>. QED  BY <1>1, <2>1, <2>2
<1>2. ASSUME NEW l \in Loggers, LoggerStep(l) PROVE HandlersInv'
  <2>1. l \in Rpcs /\ l \notin Staters
    BY <1>s, DisjointRpcs
  <2>. QED  BY <1>2, <2>1, <1>m DEF LoggerStep, AddLogger, LoggerRecv, LoggerSend, LoggerEnd
<1>3. ASSUME NEW s \in Staters, StaterStep(s) PROVE HandlersInv'
  <2>1. s \in Rpcs
    BY <1>s
  <2>2. CASE AddStater(s) \/ StaterEnd(s)
    BY <2>1, <2>2, <1>m DEF AddStater, StaterEnd
  <2>3. CASE StaterCount(s)
    BY <2>3, <1>q DEF StaterCount
  <2>4. CASE StatTick(s)
    BY <2>1, <2>4, <1>m, <1>q DEF StatTick
  <2>. QED  BY <1>3, <2>2, <2>3, <2>4 DEF StaterStep
<1>4. ASSUME MgrStep PROVE HandlersInv'
  BY <1>4, <1>q DEF MgrStep, MgrDone, MgrRecv, MgrLock, MgrSendLogger, MgrLoggersDone,
                    MgrCheckStater, MgrSendStater, MgrUnlock
<1>5. ASSUME \/ FinishAdmin \/ ServerStop
             \/ \E s \in Subs : PropagateCancel(s)
             \/ \E s \in Breakable : Disconnect(s)
             \/ UNCHANGED vars
      PROVE HandlersInv'
  BY <1>5, <1>q DEF FinishAdmin, ServerStop, PropagateCancel, Disconnect, vars
<1>. QED  BY <1>1, <1>2, <1>3, <1>4, <1>5 DEF Next

\* Whatever the loggers and staters, the manager waits for room only in the
\* channel of a subscriber that reads it, unless its client is gone or the
\* server is finishing.
THEOREM WaitsForReaders == Spec => []WaitsOnlyForReader
<1>1. Init => HandlersInv
  BY DEF Init, HandlersInv, Rpcs, Subs
<1>2. Spec => []HandlersInv
  BY <1>1, NextHandlersInv, TypeCorrect, PTL DEF Spec
<1>3. IInv /\ HandlersInv => WaitsOnlyForReader
  <2>. SUFFICES ASSUME IInv, HandlersInv PROVE WaitsOnlyForReader
    OBVIOUS
  <2>t. /\ TypeOK /\ FreshUnlisted
        /\ Loggers \subseteq Subs /\ Staters \subseteq Subs /\ Subs \subseteq Rpcs
    BY DEF IInv, RoundInv, Subs, Rpcs
  <2>1. ASSUME NEW s \in Subs, s \in Listed(loggers) \cup Listed(staters)
        PROVE  pc[s] \in {"loop", "send"} \/ s \in broken \/ AdminDone
    <3>1. pc[s] \in {"loop", "send", "ended", "failed"}
      BY <2>1, <2>t DEF TypeOK, FreshUnlisted, HandlersInv
    <3>2. pc[s] = "ended" => AdminDone
      BY DEF IInv, DoneInv
    <3>3. pc[s] = "failed" => s \in broken \/ AdminDone
      BY DEF HandlersInv, Gone, AdminDone
    <3>. QED  BY <3>1, <3>2, <3>3
  <2>2. ASSUME mpc = "loggers", next <= Len(loggers)
        PROVE  loggers[next] \in Subs /\ loggers[next] \in Listed(loggers)
    BY <2>2, <2>t, TypeFacts
  <2>3. ASSUME mpc = "statput"
        PROVE  /\ staters[next] \in Subs /\ staters[next] \in Listed(staters)
               /\ pc[staters[next]] # "send"
    <3>1. next <= Len(staters)
      BY <2>3, <2>t DEF TypeOK
    <3>2. next \in 1..Len(staters)
      BY <3>1, <2>t, TypeFacts
    <3>. QED  BY <3>2, <2>t, TypeFacts DEF HandlersInv
  <2>. QED  BY <2>1, <2>2, <2>3 DEF WaitsOnlyForReader
<1>. QED  BY <1>2, <1>3, Invariance, PTL

-----------------------------------------------------------------------------
(* What a Stat counts *)

\* The positions of q after a and up to b whose event f maps to v.
Matching(q, f, v, a, b) == {i \in a + 1 .. b : f[q[i]] = v}

LEMMA MatchingFinite ==
  ASSUME NEW q, NEW f, NEW v, NEW a \in Nat, NEW b \in Nat
  PROVE  /\ IsFiniteSet(Matching(q, f, v, a, b))
         /\ Cardinality(Matching(q, f, v, a, b)) \in Nat
<1>1. IsFiniteSet(a + 1 .. b)
  BY FS_Interval
<1>2. Matching(q, f, v, a, b) \subseteq a + 1 .. b
  BY DEF Matching
<1>. QED  BY <1>1, <1>2, FS_Subset, FS_CardinalityType

\* One event more is counted once, under the value f gives it.
LEMMA CountNext ==
  ASSUME NEW q, NEW f, NEW v, NEW a \in Nat, NEW b \in Nat, a <= b
  PROVE  Cardinality(Matching(q, f, v, a, b + 1)) =
           Cardinality(Matching(q, f, v, a, b)) + (IF f[q[b + 1]] = v THEN 1 ELSE 0)
<1>0. Cardinality(Matching(q, f, v, a, b)) \in Nat /\ IsFiniteSet(Matching(q, f, v, a, b))
  BY MatchingFinite
<1>1. \A i : i \in a + 1 .. b + 1 <=> i \in a + 1 .. b \/ i = b + 1
  OBVIOUS
<1>2. CASE f[q[b + 1]] = v
  <2>1. Matching(q, f, v, a, b + 1) = Matching(q, f, v, a, b) \cup {b + 1}
    BY <1>1, <1>2 DEF Matching
  <2>2. b + 1 \notin Matching(q, f, v, a, b)
    BY DEF Matching
  <2>3. Cardinality(Matching(q, f, v, a, b) \cup {b + 1}) = Cardinality(Matching(q, f, v, a, b)) + 1
    BY <1>0, <2>2, FS_AddElement
  <2>. QED  BY <1>2, <2>1, <2>3
<1>3. CASE f[q[b + 1]] # v
  <2>1. Matching(q, f, v, a, b + 1) = Matching(q, f, v, a, b)
    BY <1>1, <1>3 DEF Matching
  <2>. QED  BY <1>0, <1>3, <2>1
<1>. QED  BY <1>2, <1>3

\* The report does not run ahead of what was received, and the Stat counts the
\* rest.
StatInv ==
  /\ \A s \in Staters : reported[s] <= rd[s]
  /\ StatCountsUnreported

LEMMA CountOfMatching ==
  \A s, f, v : CountOf(s, f, v) = Cardinality(Matching(sub[s], f, v, reported[s], rd[s]))
  BY DEF CountOf, Matching

LEMMA StatInvQuiet ==
  ASSUME TypeOK, StatInv, UNCHANGED <<rd, stat, reported>>,
         \A s \in Staters : \A i \in 1..rd[s] : sub'[s][i] = sub[s][i]
  PROVE  StatInv'
<1>1. ASSUME NEW s \in Staters, NEW f, NEW v
      PROVE  CountOf(s, f, v)' = CountOf(s, f, v)
  <2>1. rd[s] \in Nat /\ reported[s] \in Nat
    BY DEF TypeOK, Subs
  <2>2. \A i \in reported[s] + 1 .. rd[s] : i \in 1..rd[s]
    BY <2>1
  <2>3. {i \in reported[s] + 1 .. rd[s] : f[sub'[s][i]] = v} =
        {i \in reported[s] + 1 .. rd[s] : f[sub[s][i]] = v}
    BY <2>2
  <2>. QED  BY <2>3 DEF CountOf
<1>2. ASSUME NEW s \in Staters, NEW m \in Methods
      PROVE  CountOf(s, MethodOf, m)' = CountOf(s, MethodOf, m)
  BY <1>1
<1>3. ASSUME NEW s \in Staters, NEW c \in Consumers
      PROVE  CountOf(s, ConsumerOf, c)' = CountOf(s, ConsumerOf, c)
  BY <1>1
<1>. QED  BY <1>2, <1>3 DEF StatInv, StatCountsUnreported

\* A receive puts the event in the Stat.
LEMMA StatInvCount ==
  ASSUME TypeOK, StatInv, NEW s \in Staters, StaterCount(s)
  PROVE  StatInv'
<1>. DEFINE evt == sub[s][rd[s] + 1]
<1>1. /\ rd' = [rd EXCEPT ![s] = rd[s] + 1] /\ sub' = sub /\ reported' = reported
      /\ stat' = [stat EXCEPT ![s] = Counted(stat[s], evt)]
      /\ ~SubEmpty(s)
  BY DEF StaterCount, statVars
<1>2. /\ rd \in [Subs -> Nat] /\ reported \in [Staters -> Nat] /\ Staters \subseteq Subs
      /\ stat \in [Staters -> [byMethod : [Methods -> Nat], byConsumer : [Consumers -> Nat]]]
      /\ sub[s] \in Seq(Rpcs) /\ rd[s] <= Len(sub[s])
  BY DEF TypeOK, Subs
<1>3. evt \in Rpcs
  <2>1. Len(sub[s]) \in Nat /\ rd[s] \in Nat /\ rd[s] # Len(sub[s])
    BY <1>1, <1>2, LenProperties DEF SubEmpty
  <2>2. rd[s] + 1 \in 1..Len(sub[s])
    BY <1>2, <2>1
  <2>. QED  BY <1>2, <2>2, ElementOfSeq
<1>4. MethodOf[evt] \in Methods /\ ConsumerOf[evt] \in Consumers
  BY <1>3 DEF Methods, Consumers
<1>5. ASSUME NEW f, NEW v
      PROVE  CountOf(s, f, v)' = CountOf(s, f, v) + (IF f[evt] = v THEN 1 ELSE 0)
  <2>1. /\ rd'[s] = rd[s] + 1 /\ rd[s] \in Nat /\ reported[s] \in Nat
        /\ reported[s] <= rd[s] /\ reported'[s] = reported[s] /\ sub'[s] = sub[s]
    BY <1>1, <1>2 DEF StatInv
  <2>2. CountOf(s, f, v)' = Cardinality(Matching(sub[s], f, v, reported[s], rd[s] + 1))
    BY <2>1 DEF CountOf, Matching
  <2>. QED  BY <2>1, <2>2, CountNext, CountOfMatching
<1>6. ASSUME NEW t \in Staters, t # s, NEW f, NEW v
      PROVE  CountOf(t, f, v)' = CountOf(t, f, v)
  <2>1. rd'[t] = rd[t] /\ reported'[t] = reported[t] /\ sub'[t] = sub[t]
    BY <1>1, <1>2, <1>6
  <2>. QED  BY <2>1 DEF CountOf
<1>7. ASSUME NEW t \in Staters PROVE reported'[t] <= rd'[t]
  <2>1. /\ reported[t] \in Nat /\ rd[t] \in Nat /\ reported[t] <= rd[t]
        /\ reported'[t] = reported[t] /\ (rd'[t] = rd[t] \/ rd'[t] = rd[t] + 1)
    BY <1>1, <1>2 DEF StatInv
  <2>. QED  BY <2>1
<1>8. ASSUME NEW t \in Staters, NEW m \in Methods
      PROVE  stat'[t].byMethod[m] = CountOf(t, MethodOf, m)'
  <2>1. stat[t].byMethod[m] = CountOf(t, MethodOf, m)
    BY DEF StatInv, StatCountsUnreported
  <2>2. CASE t = s
    <3>1. stat'[s].byMethod = [stat[s].byMethod EXCEPT ![MethodOf[evt]] = @ + 1]
      BY <1>1, <1>2 DEF Counted
    <3>2. stat[s].byMethod \in [Methods -> Nat]
      BY <1>2
    <3>3. stat'[s].byMethod[m] = stat[s].byMethod[m] + (IF MethodOf[evt] = m THEN 1 ELSE 0)
      BY <3>1, <3>2, <1>4
    <3>. QED  BY <2>1, <2>2, <3>3, <1>5
  <2>3. CASE t # s
    BY <1>1, <1>2, <1>6, <2>1, <2>3
  <2>. QED  BY <2>2, <2>3
<1>9. ASSUME NEW t \in Staters, NEW c \in Consumers
      PROVE  stat'[t].byConsumer[c] = CountOf(t, ConsumerOf, c)'
  <2>1. stat[t].byConsumer[c] = CountOf(t, ConsumerOf, c)
    BY DEF StatInv, StatCountsUnreported
  <2>2. CASE t = s
    <3>1. stat'[s].byConsumer = [stat[s].byConsumer EXCEPT ![ConsumerOf[evt]] = @ + 1]
      BY <1>1, <1>2 DEF Counted
    <3>2. stat[s].byConsumer \in [Consumers -> Nat]
      BY <1>2
    <3>3. stat'[s].byConsumer[c] = stat[s].byConsumer[c] + (IF ConsumerOf[evt] = c THEN 1 ELSE 0)
      BY <3>1, <3>2, <1>4
    <3>. QED  BY <2>1, <2>2, <3>3, <1>5
  <2>3. CASE t # s
    BY <1>1, <1>2, <1>6, <2>1, <2>3
  <2>. QED  BY <2>2, <2>3
<1>. QED  BY <1>7, <1>8, <1>9 DEF StatInv, StatCountsUnreported

\* A Stat just renewed, with everything received reported, counts nothing.
LEMMA NothingCounted ==
  ASSUME NEW s, NEW f, NEW v, rd[s] \in Nat, reported[s] = rd[s]
  PROVE  CountOf(s, f, v) = 0
<1>1. {i \in reported[s] + 1 .. rd[s] : f[sub[s][i]] = v} = {}
  OBVIOUS
<1>. QED  BY <1>1, FS_EmptySet DEF CountOf

\* A report empties the Stat.
LEMMA StatInvTick ==
  ASSUME TypeOK, StatInv, NEW s \in Staters, StatTick(s)
  PROVE  StatInv'
<1>1. CASE UNCHANGED <<stat, reported>>
  BY <1>1, StatInvQuiet DEF StatTick, statVars
<1>2. CASE stat' = [stat EXCEPT ![s] = NewStat] /\ reported' = [reported EXCEPT ![s] = rd[s]]
  <2>1. /\ rd \in [Subs -> Nat] /\ reported \in [Staters -> Nat] /\ s \in Subs
        /\ stat \in [Staters -> [byMethod : [Methods -> Nat], byConsumer : [Consumers -> Nat]]]
        /\ rd' = rd /\ sub' = sub
    BY DEF TypeOK, Subs, StatTick
  <2>2. rd'[s] \in Nat /\ reported'[s] = rd'[s] /\ stat'[s] = NewStat
    BY <1>2, <2>1
  <2>3. ASSUME NEW f, NEW v PROVE CountOf(s, f, v)' = 0
    <3>1. {i \in reported'[s] + 1 .. rd'[s] : f[sub'[s][i]] = v} = {}
      BY <2>2
    <3>. QED  BY <3>1, FS_EmptySet DEF CountOf
  <2>4. ASSUME NEW t \in Staters, t # s, NEW f, NEW v
        PROVE  CountOf(t, f, v)' = CountOf(t, f, v)
    <3>1. reported'[t] = reported[t]
      BY <1>2, <2>1, <2>4
    <3>. QED  BY <2>1, <3>1 DEF CountOf
  <2>5. ASSUME NEW t \in Staters PROVE reported'[t] <= rd'[t]
    <3>1. CASE t = s
      BY <3>1, <2>2
    <3>2. CASE t # s
      BY <3>2, <1>2, <2>1 DEF StatInv
    <3>. QED  BY <3>1, <3>2
  <2>6. ASSUME NEW t \in Staters, NEW m \in Methods
        PROVE  stat'[t].byMethod[m] = CountOf(t, MethodOf, m)'
    <3>1. CASE t = s
      BY <3>1, <2>2, <2>3 DEF NewStat
    <3>2. CASE t # s
      <4>1. stat'[t] = stat[t]
        BY <3>2, <1>2, <2>1
      <4>. QED  BY <3>2, <4>1, <2>4 DEF StatInv, StatCountsUnreported
    <3>. QED  BY <3>1, <3>2
  <2>7. ASSUME NEW t \in Staters, NEW c \in Consumers
        PROVE  stat'[t].byConsumer[c] = CountOf(t, ConsumerOf, c)'
    <3>1. CASE t = s
      BY <3>1, <2>2, <2>3 DEF NewStat
    <3>2. CASE t # s
      <4>1. stat'[t] = stat[t]
        BY <3>2, <1>2, <2>1
      <4>. QED  BY <3>2, <4>1, <2>4 DEF StatInv, StatCountsUnreported
    <3>. QED  BY <3>1, <3>2
  <2>. QED  BY <2>5, <2>6, <2>7 DEF StatInv, StatCountsUnreported
<1>. QED  BY <1>1, <1>2 DEF StatTick, statVars

LEMMA NextStatInv == TypeOK /\ StatInv /\ [Next]_vars => StatInv'
<1>. SUFFICES ASSUME TypeOK, StatInv, [Next]_vars PROVE StatInv'
  OBVIOUS
<1>. USE DEF busVars, mgrVars, regVars, statVars, lifeVars
<1>q. ASSUME UNCHANGED <<rd, stat, reported, sub>> PROVE StatInv'
  BY <1>q, StatInvQuiet
\* The manager's send goes behind what the handler has received.
<1>a. ASSUME NEW s \in Subs, InHand \in Rpcs, UNCHANGED <<rd, stat, reported>>,
             sub' = [sub EXCEPT ![s] = Append(@, InHand)]
      PROVE  StatInv'
  <2>1. ASSUME NEW t \in Staters, NEW i \in 1..rd[t] PROVE sub'[t][i] = sub[t][i]
    <3>1. /\ t \in Subs /\ sub[t] \in Seq(Rpcs) /\ rd[t] \in Nat /\ rd[t] <= Len(sub[t])
          /\ sub \in [Subs -> Seq(Rpcs)]
      BY DEF TypeOK, Subs
    <3>2. Len(sub[t]) \in Nat
      BY <3>1, LenProperties
    <3>3. i \in 1..Len(sub[t])
      BY <3>1, <3>2
    <3>4. Append(sub[t], InHand)[i] = sub[t][i]
      BY <1>a, <3>1, <3>3, AppendFacts
    <3>5. sub'[t] = sub[t] \/ sub'[t] = Append(sub[t], InHand)
      BY <1>a, <3>1
    <3>. QED  BY <3>4, <3>5
  <2>. QED  BY <1>a, <2>1, StatInvQuiet
<1>1. ASSUME NEW r \in Rpcs, Arrive(r) \/ GenerateEvt(r) PROVE StatInv'
  BY <1>1, <1>q DEF Arrive, GenerateEvt
<1>2. ASSUME NEW l \in Loggers, LoggerStep(l) PROVE StatInv'
  <2>1. CASE AddLogger(l) \/ LoggerSend(l) \/ LoggerEnd(l)
    BY <2>1, <1>q DEF AddLogger, LoggerSend, LoggerEnd
  <2>2. CASE LoggerRecv(l)
    <3>1. /\ rd \in [Subs -> Nat] /\ rd' = [rd EXCEPT ![l] = @ + 1]
          /\ UNCHANGED <<stat, reported, sub>>
      BY <2>2 DEF LoggerRecv, TypeOK
    <3>2. \A s \in Staters : s \in Subs /\ s # l /\ rd'[s] = rd[s]
      BY <3>1, DisjointRpcs DEF Subs
    <3>3. \A s \in Staters : \A f, v : CountOf(s, f, v)' = CountOf(s, f, v)
      BY <3>1, <3>2 DEF CountOf
    <3>. QED  BY <3>1, <3>2, <3>3 DEF StatInv, StatCountsUnreported
  <2>. QED  BY <1>2, <2>1, <2>2 DEF LoggerStep
<1>3. ASSUME NEW s \in Staters, StaterStep(s) PROVE StatInv'
  <2>1. CASE AddStater(s) \/ StaterEnd(s)
    BY <2>1, <1>q DEF AddStater, StaterEnd
  <2>. QED  BY <1>3, <2>1, StatInvCount, StatInvTick DEF StaterStep
<1>4. ASSUME MgrStep PROVE StatInv'
  <2>1. CASE MgrSendLogger
    <3>1. next \in 1..Len(loggers) /\ InHand \in Rpcs
      BY <2>1, TypeFacts DEF MgrSendLogger
    <3>2. loggers[next] \in Subs
      BY <3>1, TypeFacts
    <3>3. CASE UNCHANGED sub
      BY <2>1, <3>3, <1>q DEF MgrSendLogger
    <3>4. CASE sub' = [sub EXCEPT ![loggers[next]] = Append(@, InHand)]
      BY <2>1, <3>1, <3>2, <3>4, <1>a DEF MgrSendLogger
    <3>. QED  BY <2>1, <3>3, <3>4 DEF MgrSendLogger
  <2>2. CASE MgrSendStater
    <3>1. mpc = "statput" /\ next <= Len(staters)
      BY <2>2 DEF MgrSendStater, TypeOK
    <3>2. next \in 1..Len(staters) /\ InHand \in Rpcs
      BY <3>1, TypeFacts
    <3>3. staters[next] \in Subs
      BY <3>2, TypeFacts
    <3>. QED  BY <2>2, <3>2, <3>3, <1>a DEF MgrSendStater
  <2>3. CASE \/ MgrDone \/ MgrRecv \/ MgrLock \/ MgrLoggersDone
             \/ MgrCheckStater \/ MgrUnlock
    BY <2>3, <1>q DEF MgrDone, MgrRecv, MgrLock, MgrLoggersDone, MgrCheckStater, MgrUnlock
  <2>. QED  BY <1>4, <2>1, <2>2, <2>3 DEF MgrStep
<1>5. ASSUME \/ FinishAdmin \/ ServerStop
             \/ \E s \in Subs : PropagateCancel(s)
             \/ \E s \in Breakable : Disconnect(s)
             \/ UNCHANGED vars
      PROVE StatInv'
  BY <1>5, <1>q DEF FinishAdmin, ServerStop, PropagateCancel, Disconnect, vars
<1>. QED  BY <1>1, <1>2, <1>3, <1>4, <1>5 DEF Next

\* For any number of events, streams and reports, the Stat being accumulated
\* counts exactly the events received since the last report.
THEOREM StatsAreExact == Spec => []StatCountsUnreported
<1>1. Init => StatInv
  <2>. SUFFICES ASSUME Init PROVE StatInv
    OBVIOUS
  <2>1. \A s \in Staters : s \in Subs /\ rd[s] = 0 /\ reported[s] = 0 /\ stat[s] = NewStat
    BY DEF Init, Subs
  <2>2. \A s \in Staters : \A f, v : CountOf(s, f, v) = 0
    BY <2>1, NothingCounted
  <2>. QED  BY <2>1, <2>2 DEF StatInv, StatCountsUnreported, NewStat
<1>2. StatInv => StatCountsUnreported
  BY DEF StatInv
<1>. QED  BY <1>1, <1>2, NextStatInv, TypeCorrect, PTL DEF Spec
-----------------------------------------------------------------------------
(* The bus never deadlocks on its own *)

\* The manager waits for room in the channel of subscriber s.
WaitsFor(s) ==
  /\ SubFull(s)
  /\ \/ mpc = "loggers" /\ next <= Len(loggers) /\ s = loggers[next] /\ pc[s] # "ended"
     \/ mpc = "statput" /\ s = staters[next]

\* The manager has something to do: the guards of its eight steps.
MgrCanGo ==
  \/ mpc = "select" /\ (AdminDone \/ taken < Len(log))
  \/ mpc \in {"lock", "staters"}
  \/ mpc = "loggers" /\ next > Len(loggers)
  \/ mpc = "loggers" /\ next <= Len(loggers)
       /\ (pc[loggers[next]] = "ended" \/ ~SubFull(loggers[next]))
  \/ mpc = "statput" /\ ~SubFull(staters[next])

\* A handler has something to do that needs neither its timer nor its context.
HandlerCanGo(r) ==
  \/ pc[r] = "emit" /\ ~AdminFull
  \/ pc[r] = "subscribe" /\ ~Locked
  \/ r \in Subs /\ pc[r] = "loop" /\ ~SubEmpty(r)
  \/ r \in Loggers /\ pc[r] = "send"

\* The manager returns only once adminCtx is done.
LEMMA NextStopped ==
  (mpc = "stopped" => AdminDone) /\ [Next]_vars => (mpc = "stopped" => AdminDone)'
<1>. USE DEF busVars, mgrVars, regVars, statVars, lifeVars, AdminDone
<1>. SUFFICES ASSUME mpc = "stopped" => AdminDone, [Next]_vars, mpc' = "stopped"
              PROVE  AdminDone'
  OBVIOUS
<1>1. ASSUME NEW r \in Rpcs, Arrive(r) \/ GenerateEvt(r) PROVE AdminDone'
  BY <1>1 DEF Arrive, GenerateEvt
<1>2. ASSUME NEW l \in Loggers, LoggerStep(l) PROVE AdminDone'
  BY <1>2 DEF LoggerStep, AddLogger, LoggerRecv, LoggerSend, LoggerEnd
<1>3. ASSUME NEW s \in Staters, StaterStep(s) PROVE AdminDone'
  BY <1>3 DEF StaterStep, AddStater, StaterCount, StatTick, StaterEnd
<1>4. ASSUME MgrStep PROVE AdminDone'
  BY <1>4 DEF MgrStep, MgrDone, MgrRecv, MgrLock, MgrSendLogger, MgrLoggersDone,
              MgrCheckStater, MgrSendStater, MgrUnlock
<1>5. ASSUME \/ FinishAdmin \/ ServerStop
             \/ \E s \in Subs : PropagateCancel(s)
             \/ \E s \in Breakable : Disconnect(s)
             \/ UNCHANGED vars
      PROVE  AdminDone'
  BY <1>5 DEF FinishAdmin, ServerStop, PropagateCancel, Disconnect, vars
<1>. QED  BY <1>1, <1>2, <1>3, <1>4, <1>5 DEF Next

\* A manager that waits is not waiting for good: the handler it waits for can
\* take an event off the channel, unless its own client is gone or the server
\* is finishing.
LEMMA WaitedForCanGo ==
  TypeOK /\ WaitsOnlyForReader =>
    \A s \in Subs : WaitsFor(s) => HandlerCanGo(s) \/ s \in broken \/ AdminDone
<1>. SUFFICES ASSUME TypeOK, WaitsOnlyForReader, NEW s \in Subs, WaitsFor(s),
                     s \notin broken, ~AdminDone
              PROVE  HandlerCanGo(s)
  OBVIOUS
<1>1. /\ pc[s] \in {"loop", "send"}
      /\ pc[s] = "send" => s \in Loggers
  <2>1. CASE mpc = "loggers" /\ next <= Len(loggers) /\ s = loggers[next]
    BY <2>1, TypeFacts DEF WaitsOnlyForReader
  <2>2. CASE mpc = "statput" /\ s = staters[next]
    BY <2>2 DEF WaitsOnlyForReader
  <2>. QED  BY <2>1, <2>2 DEF WaitsFor
<1>2. ~SubEmpty(s)
  BY CapAssumption DEF WaitsFor, SubFull, SubEmpty, TypeOK
<1>. QED  BY <1>1, <1>2 DEF HandlerCanGo

\* As long as the server is up, a call that waits to put its event on the bus or
\* to subscribe is never part of a deadlock: the manager can go on, or the
\* handler can itself, or the handler the manager waits for can, or that
\* handler's client is gone (the one way to get stuck, which bus_starve shows).
\* AdminManager.Chan, the mutex and the subscribers' channels form no cycle.
THEOREM NoDeadlock ==
  Spec => [](\A r \in Rpcs :
               pc[r] \in {"emit", "subscribe"} /\ ~AdminDone =>
                 \/ MgrCanGo
                 \/ HandlerCanGo(r)
                 \/ \E s \in Subs : WaitsFor(s) /\ (HandlerCanGo(s) \/ s \in broken))
<1>1. Init => (mpc = "stopped" => AdminDone)
  BY DEF Init
<1>2. Spec => [](mpc = "stopped" => AdminDone)
  BY <1>1, NextStopped, PTL DEF Spec
<1>3. IInv /\ WaitsOnlyForReader /\ (mpc = "stopped" => AdminDone) =>
        \A r \in Rpcs :
          pc[r] \in {"emit", "subscribe"} /\ ~AdminDone =>
            \/ MgrCanGo
            \/ HandlerCanGo(r)
            \/ \E s \in Subs : WaitsFor(s) /\ (HandlerCanGo(s) \/ s \in broken)
  <2>. SUFFICES ASSUME IInv, WaitsOnlyForReader, mpc = "stopped" => AdminDone,
                       NEW r \in Rpcs, pc[r] \in {"emit", "subscribe"}, ~AdminDone,
                       ~MgrCanGo, ~HandlerCanGo(r)
                PROVE  \E s \in Subs : WaitsFor(s) /\ (HandlerCanGo(s) \/ s \in broken)
    OBVIOUS
  <2>t. TypeOK /\ NoPanicWhileUp
    BY DEF IInv
  <2>1. mpc \in {"loggers", "statput"}
    <3>1. mpc \in {"select", "lock", "loggers", "staters", "statput"}
      BY <2>t DEF TypeOK, NoPanicWhileUp
    <3>2. mpc # "select"
      <4>. SUFFICES ASSUME mpc = "select" PROVE FALSE
        OBVIOUS
      <4>1. ~(taken < Len(log))
        BY DEF MgrCanGo
      <4>2. ~AdminFull
        BY <4>1, <2>t, CapAssumption DEF AdminFull, TypeOK
      <4>3. ~Locked
        BY DEF Locked
      <4>. QED  BY <4>2, <4>3 DEF HandlerCanGo
    <3>. QED  BY <3>1, <3>2 DEF MgrCanGo
  <2>2. PICK s \in Subs : WaitsFor(s)
    <3>1. CASE mpc = "loggers"
      <4>1. next <= Len(loggers) /\ pc[loggers[next]] # "ended" /\ SubFull(loggers[next])
        BY <3>1, <2>t DEF MgrCanGo, TypeOK
      <4>2. loggers[next] \in Subs
        BY <4>1, <2>t, TypeFacts DEF Subs
      <4>. QED  BY <3>1, <4>1, <4>2 DEF WaitsFor
    <3>2. CASE mpc = "statput"
      <4>1. SubFull(staters[next])
        BY <3>2 DEF MgrCanGo
      <4>2. staters[next] \in Subs
        BY <3>2, <2>t, TypeFacts DEF Subs, TypeOK
      <4>. QED  BY <3>2, <4>1, <4>2 DEF WaitsFor
    <3>. QED  BY <2>1, <3>1, <3>2
  <2>. QED  BY <2>2, <2>t, WaitedForCanGo
<1>. QED  BY <1>2, <1>3, Invariance, WaitsForReaders, PTL

-----------------------------------------------------------------------------
(* The bus's work is finite *)

Age == [idle |-> 0, emit |-> 1, subscribe |-> 2, send |-> 2, loop |-> 3,
        ended |-> 4, failed |-> 4, returned |-> 4]

\* How far a handler has come: an event received and sent on counts for two.
HandlerAge(r) == Age[pc[r]] + (IF r \in Subs THEN 2 * rd[r] ELSE 0)

Round == [lock |-> 1, loggers |-> 2, staters |-> 3, statput |-> 3, select |-> 4,
          stopped |-> 5, panic |-> 5]
Turn == 2 * next + (IF mpc = "statput" THEN 1 ELSE 0)

\* The manager gets on: to the next event, to the next part of its round, or to
\* the next subscriber.
ManagerAges ==
  \/ taken' > taken
  \/ taken' = taken /\ Round[mpc'] > Round[mpc]
  \/ taken' = taken /\ Round[mpc'] = Round[mpc] /\ Turn' > Turn

PhaseAge == [up |-> 0, cancelled |-> 1, stopped |-> 2]

\* The server and the clients go, and do not come back.
LifeKept ==
  ctxDone \subseteq ctxDone' /\ broken \subseteq broken' /\ PhaseAge[phase'] >= PhaseAge[phase]
LifeAges == ctxDone' # ctxDone \/ broken' # broken \/ phase' # phase

\* Nothing of the bus gets younger, and something gets older.
Ages ==
  /\ \A r \in Rpcs : HandlerAge(r)' >= HandlerAge(r)
  /\ UNCHANGED <<taken, mpc, next>> \/ ManagerAges
  /\ LifeKept
  /\ (\E r \in Rpcs : HandlerAge(r)' > HandlerAge(r)) \/ ManagerAges \/ LifeAges

Bounded(n) ==
  /\ \A r \in Rpcs : HandlerAge(r) <= 4 + 2 * n
  /\ taken <= n /\ next <= n + 1

\* Every step ages the bus, but for the report of a statistics stream, which only
\* waits for its timer.
LEMMA StepAges ==
  TypeOK /\ Next => Ages \/ \E s \in Staters : StatTick(s) /\ UNCHANGED pc
<1>. SUFFICES ASSUME TypeOK, Next
              PROVE  Ages \/ \E s \in Staters : StatTick(s) /\ UNCHANGED pc
  OBVIOUS
<1>. USE DEF busVars, mgrVars, regVars, statVars, lifeVars
<1>t. /\ pc \in [Rpcs -> {"idle", "emit", "subscribe", "loop", "send", "ended",
                          "failed", "returned"}]
      /\ rd \in [Subs -> Nat] /\ taken \in Nat /\ next \in Nat
      /\ phase \in {"up", "cancelled", "stopped"}
      /\ \A s \in Subs : s \notin Calls
      /\ Subs \subseteq Rpcs /\ Loggers \subseteq Subs /\ Staters \subseteq Subs
  BY TypeFacts DEF TypeOK, Subs
<1>n. \A r \in Rpcs : HandlerAge(r) \in Nat
  BY <1>t DEF HandlerAge, Age
<1>k. ASSUME ctxDone \subseteq ctxDone', broken \subseteq broken', phase' = phase PROVE LifeKept
  BY <1>k, <1>t DEF LifeKept, PhaseAge
<1>q. ASSUME UNCHANGED <<pc, rd>>, UNCHANGED <<taken, mpc, next>> \/ ManagerAges, LifeKept,
             ManagerAges \/ LifeAges
      PROVE  Ages
  <2>1. \A r \in Rpcs : HandlerAge(r)' = HandlerAge(r)
    BY <1>q DEF HandlerAge
  <2>. QED  BY <2>1, <1>q, <1>n DEF Ages
\* A handler that moves on, with an event more or none.
<1>h. ASSUME NEW r \in Rpcs, NEW x, pc' = [pc EXCEPT ![r] = x],
             \/ rd' = rd /\ Age[x] \in Nat /\ Age[x] > Age[pc[r]]
             \/ r \in Subs /\ rd' = [rd EXCEPT ![r] = @ + 1] /\ Age[x] \in Nat /\ Age[x] + 1 >= Age[pc[r]],
             UNCHANGED <<taken, mpc, next>>, LifeKept
      PROVE  Ages
  <2>1. \A d \in Rpcs \ {r} : pc'[d] = pc[d] /\ (d \in Subs => rd'[d] = rd[d])
    BY <1>h, <1>t
  <2>2. \A d \in Rpcs \ {r} : HandlerAge(d)' = HandlerAge(d)
    BY <2>1 DEF HandlerAge
  <2>3. pc'[r] = x /\ Age[pc[r]] \in Nat
    BY <1>h, <1>t DEF Age
  <2>4. HandlerAge(r)' > HandlerAge(r) /\ HandlerAge(r)' \in Nat
    <3>1. CASE r \in Subs
      <4>1. rd[r] \in Nat /\ rd'[r] \in Nat
        BY <1>h, <1>t, <3>1
      <4>2. HandlerAge(r)' = Age[x] + 2 * rd'[r] /\ HandlerAge(r) = Age[pc[r]] + 2 * rd[r]
        BY <2>3, <3>1 DEF HandlerAge
      <4>3. \/ rd'[r] = rd[r] /\ Age[x] \in Nat /\ Age[x] > Age[pc[r]]
            \/ rd'[r] = rd[r] + 1 /\ Age[x] \in Nat /\ Age[x] + 1 >= Age[pc[r]]
        BY <1>h, <1>t, <3>1
      <4>. QED  BY <4>1, <4>2, <4>3, <2>3
    <3>2. CASE r \notin Subs
      BY <1>h, <2>3, <3>2 DEF HandlerAge
    <3>. QED  BY <3>1, <3>2
  <2>5. \A d \in Rpcs : HandlerAge(d)' >= HandlerAge(d)
    <3>. SUFFICES ASSUME NEW d \in Rpcs PROVE HandlerAge(d)' >= HandlerAge(d)
      OBVIOUS
    <3>1. CASE d = r
      <4>1. HandlerAge(r) \in Nat
        BY <1>n
      <4>2. HandlerAge(r)' >= HandlerAge(r)
        BY <4>1, <2>4
      <4>. QED  BY <3>1, <4>2
    <3>2. CASE d # r
      <4>1. HandlerAge(d) \in Nat
        BY <1>n
      <4>2. HandlerAge(d)' = HandlerAge(d)
        BY <2>2, <3>2
      <4>. QED  BY <4>1, <4>2
    <3>. QED  BY <3>1, <3>2
  <2>. QED  BY <2>4, <2>5, <1>h, Zenon DEF Ages
<1>1. ASSUME NEW r \in Rpcs, Arrive(r) \/ GenerateEvt(r) PROVE Ages
  <2>1. PICK x \in {"emit", "returned", "subscribe"} :
          pc' = [pc EXCEPT ![r] = x] /\ Age[x] \in Nat /\ Age[x] > Age[pc[r]]
    BY <1>1 DEF Arrive, GenerateEvt, Age
  <2>2. rd' = rd /\ UNCHANGED <<taken, mpc, next>> /\ LifeKept
    BY <1>1, <1>k DEF Arrive, GenerateEvt
  <2>. QED  BY <2>1, <2>2, <1>h
<1>2. ASSUME NEW l \in Loggers, LoggerStep(l) PROVE Ages
  <2>1. l \in Rpcs /\ l \in Subs
    BY <1>t
  <2>2. UNCHANGED <<taken, mpc, next>> /\ LifeKept
    BY <1>2, <1>k DEF LoggerStep, AddLogger, WithCancel, LoggerRecv, LoggerSend, LoggerEnd
  <2>3. CASE LoggerRecv(l)
    <3>1. pc' = [pc EXCEPT ![l] = "send"] /\ rd' = [rd EXCEPT ![l] = @ + 1]
          /\ Age["send"] \in Nat /\ Age["send"] + 1 >= Age[pc[l]]
      BY <2>3 DEF LoggerRecv, Age
    <3>. QED  BY <3>1, <2>1, <2>2, <1>h
  <2>4. CASE AddLogger(l) \/ LoggerSend(l) \/ LoggerEnd(l)
    <3>1. PICK x \in {"loop", "failed", "ended"} :
            pc' = [pc EXCEPT ![l] = x] /\ rd' = rd /\ Age[x] \in Nat /\ Age[x] > Age[pc[l]]
      BY <2>4 DEF AddLogger, LoggerSend, LoggerEnd, Age
    <3>. QED  BY <3>1, <2>1, <2>2, <1>h
  <2>. QED  BY <1>2, <2>3, <2>4 DEF LoggerStep
<1>3. ASSUME NEW s \in Staters, StaterStep(s), ~(StatTick(s) /\ UNCHANGED pc) PROVE Ages
  <2>1. s \in Rpcs /\ s \in Subs
    BY <1>t
  <2>2. UNCHANGED <<taken, mpc, next>> /\ LifeKept
    BY <1>3, <1>k DEF StaterStep, AddStater, WithCancel, StaterCount, StatTick, StaterEnd
  <2>3. CASE StaterCount(s)
    <3>1. pc' = [pc EXCEPT ![s] = pc[s]] /\ rd' = [rd EXCEPT ![s] = @ + 1]
          /\ Age[pc[s]] \in Nat /\ Age[pc[s]] + 1 >= Age[pc[s]]
      BY <2>3, <1>t DEF StaterCount, Age
    <3>. QED  BY <3>1, <2>1, <2>2, <1>h
  <2>4. CASE AddStater(s) \/ StaterEnd(s) \/ StatTick(s)
    <3>1. PICK x \in {"loop", "failed", "ended"} :
            pc' = [pc EXCEPT ![s] = x] /\ rd' = rd /\ Age[x] \in Nat /\ Age[x] > Age[pc[s]]
      BY <2>4, <1>3 DEF AddStater, StatTick, StaterEnd, Age
    <3>. QED  BY <3>1, <2>1, <2>2, <1>h
  <2>. QED  BY <1>3, <2>3, <2>4 DEF StaterStep
<1>4. ASSUME MgrStep PROVE Ages
  <2>1. UNCHANGED <<pc, rd>> /\ LifeKept
    BY <1>4, <1>k DEF MgrStep, MgrDone, MgrRecv, MgrLock, MgrSendLogger, MgrLoggersDone,
                      MgrCheckStater, MgrSendStater, MgrUnlock
  <2>r. /\ Round["lock"] = 1 /\ Round["loggers"] = 2 /\ Round["staters"] = 3
        /\ Round["statput"] = 3 /\ Round["select"] = 4 /\ Round["stopped"] = 5 /\ Round["panic"] = 5
    BY DEF Round
  <2>2. ASSUME MgrDone \/ MgrRecv \/ MgrLock PROVE ManagerAges
    BY <2>2, <2>r, <1>t DEF MgrDone, MgrRecv, MgrLock, ManagerAges
  <2>3. ASSUME MgrSendLogger PROVE ManagerAges
    <3>1. taken' = taken /\ mpc = "loggers" /\ (mpc' = "panic" \/ (mpc' = mpc /\ next' = next + 1))
      BY <2>3 DEF MgrSendLogger
    <3>2. mpc' = mpc => Turn' > Turn
      BY <3>1, <1>t DEF Turn
    <3>. QED  BY <3>1, <3>2, <2>r DEF ManagerAges
  <2>4. ASSUME MgrLoggersDone \/ MgrUnlock PROVE ManagerAges
    BY <2>4, <2>r, <1>t DEF MgrLoggersDone, MgrUnlock, ManagerAges
  <2>5. ASSUME MgrCheckStater \/ MgrSendStater PROVE ManagerAges
    <3>1. /\ taken' = taken /\ Round[mpc'] = Round[mpc]
          /\ \/ mpc = "staters" /\ mpc' = "staters" /\ next' = next + 1
             \/ mpc = "staters" /\ mpc' = "statput" /\ next' = next
             \/ mpc = "statput" /\ mpc' = "staters" /\ next' = next + 1
      BY <2>5, <2>r DEF MgrCheckStater, MgrSendStater
    <3>2. Turn' > Turn
      BY <3>1, <1>t DEF Turn
    <3>. QED  BY <3>1, <3>2 DEF ManagerAges
  <2>6. ManagerAges
    BY <1>4, <2>2, <2>3, <2>4, <2>5 DEF MgrStep
  <2>. QED  BY <2>1, <2>6, <1>q
<1>5. CASE FinishAdmin \/ ServerStop
  BY <1>5, <1>q DEF FinishAdmin, ServerStop, LifeKept, LifeAges, PhaseAge
<1>6. CASE (\E s \in Subs : PropagateCancel(s)) \/ \E s \in Breakable : Disconnect(s)
  <2>1. UNCHANGED <<pc, rd, taken, mpc, next>> /\ LifeAges
    BY <1>6 DEF PropagateCancel, Disconnect, LifeAges
  <2>2. LifeKept
    BY <1>6, <1>k DEF PropagateCancel, Disconnect
  <2>. QED  BY <2>1, <2>2, <1>q
<1>. QED  BY <1>1, <1>2, <1>3, <1>4, <1>5, <1>6 DEF Next

\* A list with no element twice is no longer than a set its elements are from.
LEMMA OneToOneBound ==
  ASSUME NEW S, IsFiniteSet(S), NEW q \in Seq(S), OneToOne(q)
  PROVE  Len(q) <= Cardinality(S)
<1>1. Len(q) \in Nat /\ \A i \in 1..Len(q) : q[i] \in S
  BY ListedFacts
<1>. DEFINE f == [i \in 1..Len(q) |-> q[i]]
<1>2. f \in Injection(1..Len(q), S)
  <2>1. f \in [1..Len(q) -> S]
    BY <1>1
  <2>2. \A i, j \in 1..Len(q) : f[i] = f[j] => i = j
    BY DEF OneToOne
  <2>. QED  BY <2>1, <2>2, Fun_IsInj
<1>3. Cardinality(1..Len(q)) <= Cardinality(S)
  BY <1>2, FS_Injection
<1>4. Cardinality(1..Len(q)) = Len(q)
  <2>1. 1 \in Int /\ Len(q) \in Int
    BY <1>1
  <2>2. Cardinality(1..Len(q)) = IF 1 > Len(q) THEN 0 ELSE Len(q) - 1 + 1
    BY <2>1, FS_Interval, Zenon
  <2>. QED  BY <1>1, <2>2
<1>5. Cardinality(S) \in Nat
  BY FS_CardinalityType
<1>. QED  BY <1>1, <1>3, <1>4, <1>5

\* A RPC puts its event on the bus once, and the manager's index goes no further
\* than one past a list of subscribers.
OnceInv ==
  /\ OneToOne(log)
  /\ \A r \in Rpcs : pc[r] \in {"idle", "emit"} => r \notin Listed(log)

LEMMA NextOnce == TypeOK /\ OnceInv /\ [Next]_vars => OnceInv'
<1>. SUFFICES ASSUME TypeOK, OnceInv, [Next]_vars PROVE OnceInv'
  OBVIOUS
<1>. USE DEF busVars, mgrVars, regVars, statVars, lifeVars
<1>t. /\ pc \in [Rpcs -> {"idle", "emit", "subscribe", "loop", "send", "ended",
                          "failed", "returned"}]
      /\ log \in Seq(Rpcs) /\ Subs \subseteq Rpcs
      /\ Loggers \subseteq Subs /\ Staters \subseteq Subs
  BY TypeFacts DEF TypeOK
<1>q. ASSUME log' = log, \A r \in Rpcs : pc'[r] \in {"idle", "emit"} => pc[r] \in {"idle", "emit"}
      PROVE  OnceInv'
  BY <1>q DEF OnceInv, OneToOne, Listed
<1>1. ASSUME NEW r \in Rpcs, Arrive(r) PROVE OnceInv'
  BY <1>1, <1>q, <1>t DEF Arrive
<1>2. ASSUME NEW r \in Rpcs, GenerateEvt(r) PROVE OnceInv'
  <2>1. log' = Append(log, r) /\ r \notin Listed(log)
    BY <1>2 DEF GenerateEvt, OnceInv
  <2>2. OneToOne(Append(log, r)) /\ Listed(Append(log, r)) = Listed(log) \cup {r}
    BY <2>1, <1>t, AppendOneToOne, AppendFacts DEF OnceInv
  <2>3. \A d \in Rpcs : pc'[d] \in {"idle", "emit"} => d # r /\ pc[d] \in {"idle", "emit"}
    BY <1>2, <1>t DEF GenerateEvt
  <2>. QED  BY <2>1, <2>2, <2>3 DEF OnceInv
<1>3. ASSUME NEW l \in Loggers, LoggerStep(l) PROVE OnceInv'
  BY <1>3, <1>q, <1>t DEF LoggerStep, AddLogger, LoggerRecv, LoggerSend, LoggerEnd
<1>4. ASSUME NEW s \in Staters, StaterStep(s) PROVE OnceInv'
  BY <1>4, <1>q, <1>t DEF StaterStep, AddStater, StaterCount, StatTick, StaterEnd
<1>5. ASSUME MgrStep PROVE OnceInv'
  BY <1>5, <1>q DEF MgrStep, MgrDone, MgrRecv, MgrLock, MgrSendLogger, MgrLoggersDone,
                    MgrCheckStater, MgrSendStater, MgrUnlock
<1>6. ASSUME \/ FinishAdmin \/ ServerStop
             \/ \E s \in Subs : PropagateCancel(s)
             \/ \E s \in Breakable : Disconnect(s)
             \/ UNCHANGED vars
      PROVE  OnceInv'
  BY <1>6, <1>q DEF FinishAdmin, ServerStop, PropagateCancel, Disconnect, vars
<1>. QED  BY <1>1, <1>2, <1>3, <1>4, <1>5, <1>6 DEF Next

\* The manager's index goes no further than one past a list of subscribers.
LEMMA NextIndex ==
  ASSUME IsFiniteSet(Rpcs), TypeOK, RoundInv, next <= Cardinality(Rpcs) + 1, [Next]_vars
  PROVE  next' <= Cardinality(Rpcs) + 1
<1>. USE DEF busVars, mgrVars, regVars, statVars, lifeVars
<1>1. Cardinality(Rpcs) \in Nat /\ next \in Nat
  BY FS_CardinalityType, TypeFacts
<1>2. Len(loggers) <= Cardinality(Rpcs) /\ Len(staters) <= Cardinality(Rpcs)
  <2>1. loggers \in Seq(Rpcs) /\ staters \in Seq(Rpcs)
    <3>1. loggers \in Seq(Loggers) /\ staters \in Seq(Staters) /\ Loggers \subseteq Rpcs /\ Staters \subseteq Rpcs
      BY DEF TypeOK, Subs, Rpcs
    <3>. QED  BY <3>1
  <2>. QED  BY <2>1, OneToOneBound DEF RoundInv
<1>3. Len(loggers) \in Nat /\ Len(staters) \in Nat
  BY TypeFacts
<1>4. next' = next \/ next' = 1
      \/ (next' = next + 1 /\ (next <= Len(loggers) \/ next <= Len(staters)))
  <2>1. ASSUME NEW r \in Rpcs, Arrive(r) \/ GenerateEvt(r) PROVE next' = next
    BY <2>1 DEF Arrive, GenerateEvt
  <2>2. ASSUME NEW l \in Loggers, LoggerStep(l) PROVE next' = next
    BY <2>2 DEF LoggerStep, AddLogger, LoggerRecv, LoggerSend, LoggerEnd
  <2>3. ASSUME NEW s \in Staters, StaterStep(s) PROVE next' = next
    BY <2>3 DEF StaterStep, AddStater, StaterCount, StatTick, StaterEnd
  <2>4. CASE MgrStep
    BY <2>4 DEF MgrStep, MgrDone, MgrRecv, MgrLock, MgrSendLogger, MgrLoggersDone,
                MgrCheckStater, MgrSendStater, MgrUnlock, TypeOK
  <2>5. ASSUME \/ FinishAdmin \/ ServerStop
               \/ \E s \in Subs : PropagateCancel(s)
               \/ \E s \in Breakable : Disconnect(s)
               \/ UNCHANGED vars
        PROVE  next' = next
    BY <2>5 DEF FinishAdmin, ServerStop, PropagateCancel, Disconnect, vars
  <2>. QED  BY <2>1, <2>2, <2>3, <2>4, <2>5 DEF Next
<1>. QED  BY <1>1, <1>2, <1>3, <1>4

\* The bus's work is finite: of finitely many RPCs no handler and no round of the
\* manager takes more than a bounded number of steps, each step ages the bus, and
\* nothing ever gets younger.  Only the timers of the statistics streams go on for
\* ever.  With NoDeadlock, a call that waits is answered (service.go:143-326).
THEOREM WorkRunsOut ==
  ASSUME IsFiniteSet(Rpcs)
  PROVE  /\ Spec => [](Bounded(Cardinality(Rpcs)))
         /\ Spec => [][Ages \/ \E s \in Staters : StatTick(s) /\ UNCHANGED pc]_vars
<1>. DEFINE n == Cardinality(Rpcs)
<1>1. Init => OnceInv /\ next <= Cardinality(Rpcs) + 1
  <2>. SUFFICES ASSUME Init PROVE OnceInv /\ next <= Cardinality(Rpcs) + 1
    OBVIOUS
  <2>1. Cardinality(Rpcs) \in Nat
    BY FS_CardinalityType
  <2>. QED  BY <2>1 DEF Init, OnceInv, OneToOne, Listed
<1>2. TypeOK /\ RoundInv /\ next <= Cardinality(Rpcs) + 1 /\ [Next]_vars
        => (next <= Cardinality(Rpcs) + 1)'
  BY NextIndex
<1>3. IInv /\ OnceInv /\ next <= Cardinality(Rpcs) + 1 => Bounded(Cardinality(Rpcs))
  <2>. SUFFICES ASSUME IInv, OnceInv, next <= n + 1 PROVE Bounded(n)
    OBVIOUS
  <2>t. TypeOK /\ StreamIsSegment /\ n \in Nat
    BY FS_CardinalityType DEF IInv
  <2>1. Len(log) <= n /\ Len(log) \in Nat
    BY <2>t, OneToOneBound, TypeFacts DEF OnceInv, TypeOK
  <2>2. taken <= n
    BY <2>1, <2>t, TypeFacts
  <2>3. ASSUME NEW r \in Rpcs PROVE HandlerAge(r) <= 4 + 2 * n
    <3>1. Age[pc[r]] \in 0..4
      BY <2>t DEF TypeOK, Age
    <3>2. CASE r \in Subs
      <4>1. rd[r] \in Nat /\ rd[r] <= n
        <5>1. rd[r] \in Nat /\ rd[r] <= Len(sub[r])
          BY <2>t, <3>2 DEF TypeOK
        <5>2. base[r] + Len(sub[r]) <= Len(log)
          BY <2>t, <3>2 DEF StreamIsSegment
        <5>3. base[r] \in Nat /\ Len(sub[r]) \in Nat
          BY <2>t, <3>2, TypeFacts
        <5>. QED  BY <5>1, <5>2, <5>3, <2>1, <2>t
      <4>. QED  BY <3>1, <3>2, <4>1, <2>t DEF HandlerAge
    <3>3. CASE r \notin Subs
      BY <3>1, <3>3, <2>t DEF HandlerAge
    <3>. QED  BY <3>2, <3>3
  <2>. QED  BY <2>2, <2>3 DEF Bounded
<1>4. IInv => TypeOK /\ RoundInv
  BY DEF IInv
<1>5. Spec => [](Bounded(Cardinality(Rpcs)))
  BY <1>1, <1>2, <1>3, <1>4, NextOnce, Invariance, PTL DEF Spec
<1>6. Spec => [][Ages \/ \E s \in Staters : StatTick(s) /\ UNCHANGED pc]_vars
  <2>1. TypeOK /\ [Next]_vars => [Ages \/ \E s \in Staters : StatTick(s) /\ UNCHANGED pc]_vars
    BY StepAges
  <2>. QED  BY <2>1, TypeCorrect, PTL DEF Spec
<1>. QED  BY <1>5, <1>6

=============================================================================
