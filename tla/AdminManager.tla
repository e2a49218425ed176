---------------------------- MODULE AdminManager ----------------------------
(***************************************************************************)
(* The event bus of hw7_microservice/service.go.  Every RPC puts one event *)
(* on AdminManager.Chan (GenerateEvt); one goroutine takes the events off  *)
(* and, holding the mutex, copies each into the channel of every logger    *)
(* and of every statistics stream.  The stream handlers register a channel *)
(* of their own and forward what arrives to their client.                  *)
(*                                                                         *)
(* A RPC is named by a constant and generates one event, so the RPC stands *)
(* for its event.  A Go channel is the pair of the sequence of everything  *)
(* ever sent on it and the number of elements received from it.            *)
(***************************************************************************)
EXTENDS Naturals, Sequences, FiniteSets

CONSTANTS Loggers,      \* RPCs that run Logging
          Staters,      \* RPCs that run Statistics
          Calls,        \* RPCs that run a method of BizManager
          MethodOf,     \* the method an RPC calls
          ConsumerOf,   \* the consumer an RPC is made by
          AdminCap,     \* capacity of AdminManager.Chan (10 in the code)
          StreamCap,    \* capacity of a subscriber's channel (10 in the code)
          Breakable,    \* the streams whose client may go away
          MayFinish     \* whether the server may be told to finish

Subs == Loggers \cup Staters
Rpcs == Subs \cup Calls

ASSUME DisjointRpcs ==
  /\ Loggers \cap Staters = {}
  /\ Subs \cap Calls = {}
ASSUME CapAssumption == AdminCap \in Nat \ {0} /\ StreamCap \in Nat \ {0}
ASSUME EventAssumption == DOMAIN MethodOf = Rpcs /\ DOMAIN ConsumerOf = Rpcs
ASSUME EnvAssumption == Breakable \subseteq Subs /\ MayFinish \in BOOLEAN

Methods   == {MethodOf[r] : r \in Rpcs}
Consumers == {ConsumerOf[r] : r \in Rpcs}

VARIABLES
  pc,        \* control state of the handler of each RPC
  log,       \* every event ever sent on AdminManager.Chan, in order
  taken,     \* how many of them the manager goroutine has received
  mpc,       \* control state of the manager goroutine
  next,      \* its index in the list it iterates over
  kept,      \* its local newStaters
  loggers,   \* AdminManager.Loggers
  staters,   \* AdminManager.Staters
  base,      \* history: events dispatched before a subscriber registered
  sub,       \* every event ever sent on a subscriber's channel
  rd,        \* how many of them its handler has received
  stat,      \* the Stat a Statistics handler accumulates
  reported,  \* history: received events covered by the reports sent so far
  ctxDone,   \* subscribers whose own context is done
  phase,     \* "up", "cancelled" (adminCtx is done), "stopped" (server.Stop)
  broken     \* streams whose client is gone

busVars  == <<log, taken>>
mgrVars  == <<mpc, next, kept>>
regVars  == <<loggers, staters, base>>
statVars == <<stat, reported>>
lifeVars == <<ctxDone, phase, broken>>
vars == <<pc, busVars, mgrVars, regVars, sub, rd, statVars, lifeVars>>

NewStat == [byMethod   |-> [m \in Methods |-> 0],
            byConsumer |-> [c \in Consumers |-> 0]]

Listed(list) == {list[i] : i \in 1..Len(list)}

\* The process runs until a goroutine panics.
Alive == mpc # "panic"
AdminDone == phase # "up"

\* Faulty: AddLogger and AddStater do not take the mutex.
LockedNever == FALSE

\* The manager holds the mutex between its Lock and its Unlock.
Locked == mpc \in {"loggers", "staters", "statput"}

\* Faulty: every subscriber is sent the newest event, not the one received.
InHandNewest == log[Len(log)]

InHand == log[taken]

\* Faulty: room for one event more than the channel has.
AdminFullLate == Len(log) - taken > AdminCap

AdminFull == Len(log) - taken = AdminCap
SubFull(s) == Len(sub[s]) - rd[s] = StreamCap
SubEmpty(s) == Len(sub[s]) = rd[s]

\* Events whose round of deliveries is over.
Dispatched == IF mpc \in {"select", "stopped"} THEN taken ELSE taken - 1

Gone(s) == s \in broken \/ phase = "stopped"

Init ==
  /\ pc = [r \in Rpcs |-> "idle"]
  /\ log = << >> /\ taken = 0
  /\ mpc = "select" /\ next = 1 /\ kept = << >>
  /\ loggers = << >> /\ staters = << >>
  /\ base = [s \in Subs |-> 0]
  /\ sub = [s \in Subs |-> << >>]
  /\ rd = [s \in Subs |-> 0]
  /\ stat = [s \in Staters |-> NewStat]
  /\ reported = [s \in Staters |-> 0]
  /\ ctxDone = {} /\ phase = "up" /\ broken = {}

-----------------------------------------------------------------------------
(* Handlers *)

\* The server starts the handler of an RPC.
Arrive(r) ==
  /\ Alive
  /\ pc[r] = "idle"
  /\ phase # "stopped"
  /\ pc' = [pc EXCEPT ![r] = "emit"]
  /\ UNCHANGED <<busVars, mgrVars, regVars, sub, rd, statVars, lifeVars>>

\* GenerateEvt: the send on AdminManager.Chan, after which a BizManager method
\* returns and a stream handler goes on to subscribe.
GenerateEvt(r) ==
  /\ Alive
  /\ pc[r] = "emit"
  /\ ~AdminFull
  /\ log' = Append(log, r)
  /\ pc' = [pc EXCEPT ![r] = IF r \in Calls THEN "returned" ELSE "subscribe"]
  /\ UNCHANGED <<taken, mgrVars, regVars, sub, rd, statVars, lifeVars>>

\* context.WithCancel(a.Done): done at once under a parent that is done.
WithCancel(s) == IF AdminDone THEN ctxDone \cup {s} ELSE ctxDone

AddLogger(l) ==
  /\ Alive
  /\ pc[l] = "subscribe"
  /\ ~Locked
  /\ loggers' = Append(loggers, l)
  /\ base' = [base EXCEPT ![l] = Dispatched]
  /\ ctxDone' = WithCancel(l)
  /\ pc' = [pc EXCEPT ![l] = "loop"]
  /\ UNCHANGED <<busVars, mgrVars, staters, sub, rd, statVars, phase, broken>>

AddStater(s) ==
  /\ Alive
  /\ pc[s] = "subscribe"
  /\ ~Locked
  /\ staters' = Append(staters, s)
  /\ base' = [base EXCEPT ![s] = Dispatched]
  /\ ctxDone' = WithCancel(s)
  /\ pc' = [pc EXCEPT ![s] = "loop"]
  /\ UNCHANGED <<busVars, mgrVars, loggers, sub, rd, statVars, phase, broken>>

\* Logging: case evt := <-c
LoggerRecv(l) ==
  /\ Alive
  /\ pc[l] = "loop"
  /\ ~SubEmpty(l)
  /\ rd' = [rd EXCEPT ![l] = @ + 1]
  /\ pc' = [pc EXCEPT ![l] = "send"]
  /\ UNCHANGED <<busVars, mgrVars, regVars, sub, statVars, lifeVars>>

\* Faulty: the channel is closed on every return (defer close(c)).
LoggerSendClosing(l) ==
  /\ Alive
  /\ pc[l] = "send"
  /\ pc' = [pc EXCEPT ![l] = IF Gone(l) THEN "ended" ELSE "loop"]
  /\ UNCHANGED <<busVars, mgrVars, regVars, sub, rd, statVars, lifeVars>>

\* Faulty: the test of err is the wrong way round.
LoggerSendInverted(l) ==
  /\ Alive
  /\ pc[l] = "send"
  /\ pc' = [pc EXCEPT ![l] = IF Gone(l) THEN "loop" ELSE "failed"]
  /\ UNCHANGED <<busVars, mgrVars, regVars, sub, rd, statVars, lifeVars>>

\* Logging: server.Send(evt), which fails when the client is gone; the handler
\* then returns and leaves its LoggerView in the list and its channel open.
LoggerSend(l) ==
  /\ Alive
  /\ pc[l] = "send"
  /\ pc' = [pc EXCEPT ![l] = IF Gone(l) THEN "failed" ELSE "loop"]
  /\ UNCHANGED <<busVars, mgrVars, regVars, sub, rd, statVars, lifeVars>>

\* Logging: case <-ctx.Done(), which closes the channel.
LoggerEnd(l) ==
  /\ Alive
  /\ pc[l] = "loop"
  /\ l \in ctxDone
  /\ pc' = [pc EXCEPT ![l] = "ended"]
  /\ UNCHANGED <<busVars, mgrVars, regVars, sub, rd, statVars, lifeVars>>

\* The Stat with one event more; an absent map entry is a count of zero.
Counted(st, evt) ==
  [byMethod   |-> [st.byMethod EXCEPT ![MethodOf[evt]] = @ + 1],
   byConsumer |-> [st.byConsumer EXCEPT ![ConsumerOf[evt]] = @ + 1]]

\* Statistics: case evt := <-c
StaterCount(s) ==
  /\ Alive
  /\ pc[s] = "loop"
  /\ ~SubEmpty(s)
  /\ rd' = [rd EXCEPT ![s] = @ + 1]
  /\ stat' = [stat EXCEPT ![s] = Counted(@, sub[s][rd[s] + 1])]
  /\ UNCHANGED <<pc, busVars, mgrVars, regVars, sub, reported, lifeVars>>

\* Faulty: the Stat is not renewed after a report.
StatTickKeeping(s) ==
  /\ Alive
  /\ pc[s] = "loop"
  /\ ~Gone(s)
  /\ reported' = [reported EXCEPT ![s] = rd[s]]
  /\ UNCHANGED <<pc, busVars, mgrVars, regVars, sub, rd, stat, lifeVars>>

\* Statistics: case <-t.C, the report and the fresh Stat after it.
StatTick(s) ==
  /\ Alive
  /\ pc[s] = "loop"
  /\ \/ /\ ~Gone(s)
        /\ stat' = [stat EXCEPT ![s] = NewStat]
        /\ reported' = [reported EXCEPT ![s] = rd[s]]
        /\ UNCHANGED pc
     \/ /\ Gone(s)
        /\ pc' = [pc EXCEPT ![s] = "failed"]
        /\ UNCHANGED statVars
  /\ UNCHANGED <<busVars, mgrVars, regVars, sub, rd, lifeVars>>

\* Statistics: case <-ctx.Done()
StaterEnd(s) ==
  /\ Alive
  /\ pc[s] = "loop"
  /\ s \in ctxDone
  /\ pc' = [pc EXCEPT ![s] = "ended"]
  /\ UNCHANGED <<busVars, mgrVars, regVars, sub, rd, statVars, lifeVars>>

-----------------------------------------------------------------------------
(* The manager goroutine started by NewAdminManager *)

\* case <-done.Done(): cancel every subscriber and return.
MgrDone ==
  /\ mpc = "select"
  /\ AdminDone
  /\ ctxDone' = ctxDone \cup Listed(loggers) \cup Listed(staters)
  /\ mpc' = "stopped"
  /\ UNCHANGED <<pc, busVars, next, kept, regVars, sub, rd, statVars, phase, broken>>

\* case evt := <-a.Chan
MgrRecv ==
  /\ mpc = "select"
  /\ taken < Len(log)
  /\ taken' = taken + 1
  /\ mpc' = "lock"
  /\ UNCHANGED <<pc, log, next, kept, regVars, sub, rd, statVars, lifeVars>>

MgrLock ==
  /\ mpc = "lock"
  /\ mpc' = "loggers"
  /\ next' = 1
  /\ UNCHANGED <<pc, busVars, kept, regVars, sub, rd, statVars, lifeVars>>

\* Faulty: the send does not wait, an event is dropped for a full channel.
MgrSendLoggerDropping ==
  /\ mpc = "loggers"
  /\ next <= Len(loggers)
  /\ sub' = IF SubFull(loggers[next]) THEN sub
            ELSE [sub EXCEPT ![loggers[next]] = Append(@, InHand)]
  /\ next' = next + 1
  /\ UNCHANGED <<pc, busVars, mpc, kept, regVars, rd, statVars, lifeVars>>

\* logger.Chan <- evt panics when Logging has closed the channel.
MgrSendLogger ==
  /\ mpc = "loggers"
  /\ next <= Len(loggers)
  /\ LET l == loggers[next]
     IN  \/ /\ pc[l] = "ended"
            /\ mpc' = "panic"
            /\ UNCHANGED <<next, sub>>
         \/ /\ pc[l] # "ended"
            /\ ~SubFull(l)
            /\ sub' = [sub EXCEPT ![l] = Append(@, InHand)]
            /\ next' = next + 1
            /\ UNCHANGED mpc
  /\ UNCHANGED <<pc, busVars, kept, regVars, rd, statVars, lifeVars>>

MgrLoggersDone ==
  /\ mpc = "loggers"
  /\ next > Len(loggers)
  /\ mpc' = "staters"
  /\ next' = 1
  /\ kept' = << >>
  /\ UNCHANGED <<pc, busVars, regVars, sub, rd, statVars, lifeVars>>

\* Faulty: the select has no default.
MgrCheckStaterBlocking ==
  /\ mpc = "staters"
  /\ next <= Len(staters)
  /\ staters[next] \in ctxDone
  /\ next' = next + 1
  /\ UNCHANGED <<pc, busVars, mpc, kept, regVars, sub, rd, statVars, lifeVars>>

\* select on stater.Done: drop a stater that is done, else go on to the send.
MgrCheckStater ==
  /\ mpc = "staters"
  /\ next <= Len(staters)
  /\ \/ /\ staters[next] \in ctxDone
        /\ next' = next + 1
        /\ UNCHANGED mpc
     \/ /\ staters[next] \notin ctxDone
        /\ mpc' = "statput"
        /\ UNCHANGED next
  /\ UNCHANGED <<pc, busVars, kept, regVars, sub, rd, statVars, lifeVars>>

\* Faulty: the stater is not put on newStaters.
MgrSendStaterForgetting ==
  /\ mpc = "statput"
  /\ ~SubFull(staters[next])
  /\ sub' = [sub EXCEPT ![staters[next]] = Append(@, InHand)]
  /\ next' = next + 1
  /\ mpc' = "staters"
  /\ UNCHANGED <<pc, busVars, kept, regVars, rd, statVars, lifeVars>>

\* stater.Chan <- evt, and the stater stays in newStaters.
MgrSendStater ==
  /\ mpc = "statput"
  /\ LET s == staters[next]
     IN  /\ ~SubFull(s)
         /\ sub' = [sub EXCEPT ![s] = Append(@, InHand)]
         /\ kept' = Append(kept, s)
  /\ next' = next + 1
  /\ mpc' = "staters"
  /\ UNCHANGED <<pc, busVars, regVars, rd, statVars, lifeVars>>

\* a.Staters = newStaters; a.Unlock()
MgrUnlock ==
  /\ mpc = "staters"
  /\ next > Len(staters)
  /\ staters' = kept
  /\ mpc' = "select"
  /\ UNCHANGED <<pc, busVars, next, kept, loggers, base, sub, rd, statVars, lifeVars>>

-----------------------------------------------------------------------------
(* The server's life and the clients *)

\* The context of StartMyMicroservice is cancelled, or its stopper goroutine
\* calls finishAdmin after Serve failed: adminCtx is done.
FinishAdmin ==
  /\ Alive
  /\ MayFinish
  /\ phase = "up"
  /\ phase' = "cancelled"
  /\ UNCHANGED <<pc, busVars, mgrVars, regVars, sub, rd, statVars, ctxDone, broken>>

\* Faulty: a subscriber's context is not a child of adminCtx.
PropagateCancelNever(s) == FALSE

\* The cancellation of adminCtx reaches the context of one subscriber.
PropagateCancel(s) ==
  /\ Alive
  /\ AdminDone
  /\ s \in (Listed(loggers) \cup Listed(staters)) \ ctxDone
  /\ ctxDone' = ctxDone \cup {s}
  /\ UNCHANGED <<pc, busVars, mgrVars, regVars, sub, rd, statVars, phase, broken>>

\* server.Stop() closes every connection.
ServerStop ==
  /\ Alive
  /\ phase = "cancelled"
  /\ phase' = "stopped"
  /\ UNCHANGED <<pc, busVars, mgrVars, regVars, sub, rd, statVars, ctxDone, broken>>

\* The client of a stream goes away.
Disconnect(s) ==
  /\ Alive
  /\ s \notin broken
  /\ pc[s] # "idle"
  /\ broken' = broken \cup {s}
  /\ UNCHANGED <<pc, busVars, mgrVars, regVars, sub, rd, statVars, ctxDone, phase>>

-----------------------------------------------------------------------------
LoggerStep(l) == AddLogger(l) \/ LoggerRecv(l) \/ LoggerSend(l) \/ LoggerEnd(l)
StaterStep(s) == AddStater(s) \/ StaterCount(s) \/ StatTick(s) \/ StaterEnd(s)

MgrStep == \/ MgrDone \/ MgrRecv \/ MgrLock \/ MgrSendLogger \/ MgrLoggersDone
           \/ MgrCheckStater \/ MgrSendStater \/ MgrUnlock

Next ==
  \/ \E r \in Rpcs : Arrive(r) \/ GenerateEvt(r)
  \/ \E l \in Loggers : LoggerStep(l)
  \/ \E s \in Staters : StaterStep(s)
  \/ MgrStep
  \/ FinishAdmin \/ ServerStop
  \/ \E s \in Subs : PropagateCancel(s)
  \/ \E s \in Breakable : Disconnect(s)

Spec == Init /\ [][Next]_vars

\* Every goroutine that can go on does; nothing forces a client to call or to
\* leave, the caller to finish the server, or the timer to fire.
Fairness ==
  /\ WF_vars(MgrStep)
  /\ \A r \in Rpcs : WF_vars(GenerateEvt(r))
  /\ \A l \in Loggers : /\ WF_vars(AddLogger(l) \/ LoggerRecv(l) \/ LoggerSend(l))
                        /\ WF_vars(LoggerEnd(l))
  /\ \A s \in Staters : /\ WF_vars(AddStater(s) \/ StaterCount(s))
                        /\ WF_vars(StaterEnd(s))
  /\ \A s \in Subs : WF_vars(PropagateCancel(s))
  /\ WF_vars(ServerStop)

LiveSpec == Spec /\ Fairness

-----------------------------------------------------------------------------
(* Properties *)

\* Every variable has the values the code's types and channel capacities allow.
TypeOK ==
  /\ pc \in [Rpcs -> {"idle", "emit", "subscribe", "loop", "send", "ended",
                      "failed", "returned"}]
  /\ log \in Seq(Rpcs) /\ taken \in 0..Len(log) /\ Len(log) - taken <= AdminCap
  /\ mpc \in {"select", "lock", "loggers", "staters", "statput", "stopped", "panic"}
  /\ mpc \notin {"select", "stopped"} => taken >= 1
  /\ mpc = "statput" => next <= Len(staters)
  /\ next \in Nat \ {0} /\ kept \in Seq(Staters)
  /\ loggers \in Seq(Loggers) /\ staters \in Seq(Staters)
  /\ base \in [Subs -> Nat]
  /\ sub \in [Subs -> Seq(Rpcs)]
  /\ rd \in [Subs -> Nat]
  /\ \A s \in Subs : rd[s] <= Len(sub[s]) /\ Len(sub[s]) <= rd[s] + StreamCap
  /\ stat \in [Staters -> [byMethod : [Methods -> Nat], byConsumer : [Consumers -> Nat]]]
  /\ reported \in [Staters -> Nat]
  /\ ctxDone \subseteq Subs
  /\ phase \in {"up", "cancelled", "stopped"}
  /\ broken \subseteq Subs

\* A subscriber's channel has carried a contiguous piece of the bus's order:
\* whatever the interleaving of registrations, slow clients and shutdown, the
\* manager never skips, repeats or reorders an event for a subscriber.
StreamIsSegment ==
  \A s \in Subs :
    /\ base[s] + Len(sub[s]) <= Len(log)
    /\ \A i \in 1..Len(sub[s]) : sub[s][i] = log[base[s] + i]

\* Between two rounds every registered subscriber has been sent everything that
\* was dispatched since it registered: a registration that races a dispatch is
\* neither lost nor given half of a round.
NoSubscriberBehind ==
  Alive /\ ~Locked =>
    \A s \in Listed(loggers) \cup Listed(staters) :
      base[s] + Len(sub[s]) = Dispatched

\* A subscriber in its loop whose context is not done is on the manager's list:
\* replacing a.Staters by newStaters loses no registration.
LiveSubscriberListed ==
  \A s \in Subs :
    pc[s] \in {"loop", "send"} /\ s \notin ctxDone =>
      s \in Listed(loggers) \cup Listed(staters)

CountOf(s, f, v) ==
  Cardinality({i \in reported[s] + 1 .. rd[s] : f[sub[s][i]] = v})

\* The Stat being accumulated counts, by method and by consumer, exactly the
\* events received since the last report: none is reported twice, none is lost
\* between a report and the fresh Stat.
StatCountsUnreported ==
  \A s \in Staters :
    /\ \A m \in Methods : stat[s].byMethod[m] = CountOf(s, MethodOf, m)
    /\ \A c \in Consumers : stat[s].byConsumer[c] = CountOf(s, ConsumerOf, c)

\* While the server is up no client that leaves makes the manager send on a
\* closed channel, which would bring the whole process down.
NoPanicWhileUp == mpc = "panic" => AdminDone

\* The manager waits for room only in the channel of a subscriber that still
\* reads it, unless that subscriber's own client has gone away or the server is
\* finishing: one broken client never makes another the obstacle.
WaitsOnlyForReader ==
  /\ mpc = "loggers" /\ next <= Len(loggers) =>
       LET l == loggers[next] IN pc[l] \in {"loop", "send"} \/ l \in broken \/ AdminDone
  /\ mpc = "statput" =>
       LET s == staters[next] IN pc[s] = "loop" \/ s \in broken \/ AdminDone

\* A statistics stream leaves the manager's list only once its context is done.
StaterDroppedOnlyWhenDone ==
  [][\A s \in Listed(staters) \ Listed(staters)' : s \in ctxDone]_vars

\* The subscribers of the current round, and the abstract bus they implement.
Fanout == INSTANCE EventFanout WITH
  Events <- Rpcs, Subscribers <- Subs,
  history <- log, front <- Dispatched,
  active <- Listed(loggers) \cup Listed(staters),
  from <- base, view <- sub

\* The bus implements ordered fan-out in rounds.
ImplementsFanout == Fanout!Spec

CaughtUp(s) == base[s] + rd[s] = Len(log)

\* While no client leaves, every call gets its answer unless the server is told
\* to finish: the bounded channel between a call and the manager drains.
CallsReturn == \A r \in Calls : pc[r] = "emit" ~> (pc[r] = "returned" \/ AdminDone)

\* While no client leaves, a subscriber comes, again and again, to have received
\* every event sent on the bus since it registered, unless the server is told
\* to finish.
SubscribersCatchUp ==
  \A s \in Subs : pc[s] \in {"loop", "send"} ~> (CaughtUp(s) \/ AdminDone)

\* Once adminCtx is done every subscribed handler returns, unless the process
\* dies first.
SubscribersEnd ==
  \A s \in Subs : (AdminDone /\ pc[s] \in {"loop", "send"})
                     ~> (pc[s] \in {"ended", "failed"} \/ ~Alive)

-----------------------------------------------------------------------------
(* The inductive invariant behind the safety properties *)

Position(s) == base[s] + Len(sub[s])

\* A handler that has not subscribed is on no list and has been sent nothing.
FreshUnlisted ==
  \A s \in Subs :
    pc[s] \in {"idle", "emit", "subscribe"} =>
      /\ s \notin Listed(loggers) \cup Listed(staters)
      /\ sub[s] = << >> /\ base[s] = 0

OneToOne(list) == \A i, j \in 1..Len(list) : list[i] = list[j] => i = j

InStaterLoop == mpc \in {"staters", "statput"}

\* In a round the loggers before next have its event, later ones do not.
LoggersInRound ==
  \A i \in 1..Len(loggers) :
    Position(loggers[i]) =
      IF InStaterLoop \/ (mpc \in {"loggers", "panic"} /\ i < next) THEN taken ELSE Dispatched

\* So for the staters, where one before next without the event has a done
\* context; kept holds those with the event.
StatersInRound ==
  IF InStaterLoop
  THEN /\ \A i \in 1..Len(staters) :
            IF i < next
            THEN \/ Position(staters[i]) = taken
                 \/ Position(staters[i]) = taken - 1 /\ staters[i] \in ctxDone
            ELSE Position(staters[i]) = taken - 1
       /\ Listed(kept) = {s \in Listed(staters) : Position(s) = taken}
       /\ OneToOne(kept)
  ELSE \A i \in 1..Len(staters) : Position(staters[i]) = Dispatched

RoundInv ==
  /\ FreshUnlisted
  /\ OneToOne(loggers) /\ OneToOne(staters)
  /\ \A s \in Subs : Position(s) <= taken
  /\ LoggersInRound
  /\ StatersInRound

DoneInv ==
  /\ ctxDone # {} => AdminDone
  /\ \A s \in Subs : pc[s] = "ended" => AdminDone

IInv ==
  /\ TypeOK
  /\ RoundInv
  /\ StreamIsSegment
  /\ LiveSubscriberListed
  /\ DoneInv
  /\ NoPanicWhileUp

-----------------------------------------------------------------------------
(* What the tests and the task's text say of the bus, and the code does not do *)

\* service_test.go:68, stopping the service stops the server: it never panics.
NeverPanics == Alive

\* service_test.go:82, a finished service leaves no goroutine behind: once
\* adminCtx is done the manager goroutine returns.
ManagerReturns == AdminDone ~> mpc = "stopped"

\* hw7.md, every logging client gets the stream of events, whoever else leaves.
OthersKeepReceiving ==
  \A s \in Subs : pc[s] \in {"loop", "send"} ~> (CaughtUp(s) \/ s \in broken)
=============================================================================
