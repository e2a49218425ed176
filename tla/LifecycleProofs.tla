-------------------------- MODULE LifecycleProofs --------------------------
(* Proofs about StartMyMicroservice, for any number of services on one address. *)
EXTENDS Lifecycle, TLAPS

USE ServiceAssumption, NoneAssumption

\* Exactly the services that have a listener not yet closed hold the port, and
\* only a service whose call got as far as net.Listen has goroutines.
PortInv ==
  /\ \A i \in Services :
       port = i <=> server[i] = "start" \/ (server[i] = "accepting" /\ i \notin quit)
  /\ \A i \in Services : main[i] # "started" => server[i] = "none" /\ stopper[i] = "none"
  /\ \A i \in Services : i \in quit <=> stopper[i] \in {"drain", "returned"}

LEMMA InitPort == Init => TypeOK /\ PortInv
  BY DEF Init, TypeOK, PortInv

LEMMA NextPort == TypeOK /\ PortInv /\ [Next]_vars => TypeOK' /\ PortInv'
<1>. SUFFICES ASSUME TypeOK, PortInv, [Next]_vars
              PROVE  TypeOK' /\ PortInv'
  OBVIOUS
<1>. USE DEF TypeOK, PortInv, Released
<1>1. ASSUME NEW i \in Services, AclError(i) PROVE TypeOK' /\ PortInv'
  BY <1>1 DEF AclError
<1>2. ASSUME NEW i \in Services, StartManager(i) PROVE TypeOK' /\ PortInv'
  BY <1>2 DEF StartManager
<1>3. ASSUME NEW i \in Services, Listen(i) PROVE TypeOK' /\ PortInv'
  BY <1>3 DEF Listen
<1>4. ASSUME NEW i \in Services, ListenError(i) PROVE TypeOK' /\ PortInv'
  BY <1>4 DEF ListenError
<1>5. ASSUME NEW i \in Services, Finish(i) PROVE TypeOK' /\ PortInv'
  BY <1>5 DEF Finish
<1>6. ASSUME NEW i \in Services, ManagerStep(i) PROVE TypeOK' /\ PortInv'
  BY <1>6 DEF ManagerStep, ClientConnects, ManagerStuck, ManagerReturns
<1>7. ASSUME NEW i \in Services, ServeBegins(i) PROVE TypeOK' /\ PortInv'
  BY <1>7 DEF ServeBegins
<1>8. ASSUME NEW i \in Services, AcceptFails(i) PROVE TypeOK' /\ PortInv'
  BY <1>8 DEF AcceptFails
<1>9. ASSUME NEW i \in Services, ServeDrained(i) PROVE TypeOK' /\ PortInv'
  BY <1>9 DEF ServeDrained
<1>10. ASSUME NEW i \in Services, PutResult(i) PROVE TypeOK' /\ PortInv'
  BY <1>10 DEF PutResult, ErrChanCap
<1>11. ASSUME NEW i \in Services, StopperWakes(i) PROVE TypeOK' /\ PortInv'
  BY <1>11 DEF StopperWakes
<1>12. ASSUME NEW i \in Services, FinishAdmin(i) PROVE TypeOK' /\ PortInv'
  BY <1>12 DEF FinishAdmin
<1>13. ASSUME NEW i \in Services, StopServer(i) PROVE TypeOK' /\ PortInv'
  BY <1>13 DEF StopServer
<1>14. ASSUME NEW i \in Services, StopDone(i) PROVE TypeOK' /\ PortInv'
  BY <1>14 DEF StopDone
<1>15. CASE UNCHANGED vars
  BY <1>15 DEF vars
<1>. QED
  BY <1>1, <1>2, <1>3, <1>4, <1>5, <1>6, <1>7, <1>8, <1>9, <1>10, <1>11, <1>12, <1>13,
     <1>14, <1>15
  DEF Next, MainStep, ServerStep, StopperStep

LEMMA Invariance == Spec => [](TypeOK /\ PortInv)
  BY InitPort, NextPort, PTL DEF Spec

\* Two services never accept on the address at once: the accept loop of one ends
\* with its Serve, which owns the listener until Stop closes it (server.go:581-654).
THEOREM PortIsExclusive == Spec => []AcceptingHoldsPort
<1>1. TypeOK /\ PortInv => AcceptingHoldsPort
  BY DEF TypeOK, PortInv, AcceptingHoldsPort
<1>. QED  BY <1>1, Invariance, PTL

\* A service whose Stop has returned has let the address go once its Serve
\* goroutine has run: either Stop closed the listener or Serve did, whichever
\* came second (service.go:396, server.go:609-616).
THEOREM PortIsFreed == Spec => []StoppedFreesPort
<1>1. TypeOK /\ PortInv => StoppedFreesPort
  BY DEF TypeOK, PortInv, StoppedFreesPort
<1>. QED  BY <1>1, Invariance, PTL

\* The manager is not there before its call, and the other two goroutines are once
\* the service has the listener; adminCtx ends with the caller's or by the stopper,
\* and nothing Serve returned is lost while the stopper waits for it.  A client can
\* only have come to a service that was up.
WakeInv ==
  /\ ctxDone \subseteq adminDone
  /\ \A i \in Services :
       /\ main[i] = "call" => manager[i] = "none"
       /\ main[i] = "started" <=> stopper[i] # "none"
       /\ main[i] = "started" <=> server[i] # "none"
       /\ server[i] = "drain" => i \in quit
       /\ server[i] = "returned" /\ stopper[i] = "wait" => i \in errChan
       /\ stopper[i] \in {"stop", "drain", "returned"} => i \in adminDone
       /\ main[i] # "started" /\ i \in adminDone => i \in ctxDone
       /\ main[i] \in {"listen", "listenError"} => manager[i] = "running" \/ i \in adminDone
       /\ manager[i] \in {"busy", "stuck"} => main[i] = "started"

LEMMA InitWake == Init => WakeInv
  BY DEF Init, WakeInv

LEMMA NextWake == TypeOK /\ PortInv /\ WakeInv /\ [Next]_vars => WakeInv'
<1>. SUFFICES ASSUME TypeOK, PortInv, WakeInv, [Next]_vars PROVE WakeInv'
  OBVIOUS
<1>. USE DEF TypeOK, WakeInv
<1>1. ASSUME NEW i \in Services, MainStep(i) PROVE WakeInv'
  <2>1. CASE AclError(i) \/ ListenError(i)
    BY <2>1 DEF AclError, ListenError
  <2>2. CASE StartManager(i)
    BY <2>2 DEF StartManager
  <2>3. CASE Listen(i)
    BY <2>3 DEF Listen
  <2>. QED  BY <1>1, <2>1, <2>2, <2>3 DEF MainStep
<1>2. ASSUME NEW i \in Services, Finish(i) \/ ManagerStep(i) PROVE WakeInv'
  BY <1>2 DEF Finish, ManagerStep, ClientConnects, ManagerStuck, ManagerReturns
<1>3. ASSUME NEW i \in Services, ServerStep(i) PROVE WakeInv'
  <2>1. CASE ServeBegins(i) \/ ServeDrained(i)
    BY <2>1 DEF ServeBegins, ServeDrained
  <2>2. CASE AcceptFails(i)
    BY <2>2 DEF AcceptFails
  <2>3. CASE PutResult(i)
    BY <2>3 DEF PutResult, ErrChanCap
  <2>. QED  BY <1>3, <2>1, <2>2, <2>3 DEF ServerStep
<1>4. ASSUME NEW i \in Services, StopperStep(i) PROVE WakeInv'
  <2>1. CASE StopperWakes(i)
    BY <2>1 DEF StopperWakes
  <2>2. CASE FinishAdmin(i)
    BY <2>2 DEF FinishAdmin
  <2>3. CASE StopServer(i) \/ StopDone(i)
    BY <2>3 DEF StopServer, StopDone
  <2>. QED  BY <1>4, <2>1, <2>2, <2>3 DEF StopperStep
<1>5. CASE UNCHANGED vars
  BY <1>5 DEF vars
<1>. QED  BY <1>1, <1>2, <1>3, <1>4, <1>5 DEF Next

LEMMA WakeInvariance == Spec => [](TypeOK /\ PortInv /\ WakeInv)
  BY InitPort, NextPort, InitWake, NextWake, PTL DEF Spec

\* A service that is to come to its end: the caller has cancelled its context, or
\* its Serve has returned.
Ending(i) ==
  \/ main[i] \in {"started", "listenError"} /\ i \in ctxDone
  \/ server[i] \in {"put", "returned"}

\* The guards of the steps its server and its stopper take then.  That a listener
\* fails is not one of them: it need not.  The manager is not asked for anything.
CanEnd(i) ==
  \/ server[i] \in {"start", "put"}
  \/ server[i] = "accepting" /\ i \in quit
  \/ server[i] = "drain" /\ stopper[i] = "returned"
  \/ stopper[i] = "wait" /\ (i \in ctxDone \/ i \in errChan)
  \/ stopper[i] \in {"finish", "stop"}
  \/ stopper[i] = "drain" /\ server[i] # "accepting"

\* The manager was told to end, or is not there to be told.
ManagerTold(i) == manager[i] \in {"running", "busy", "stuck"} => i \in adminDone

\* A service that is to come to its end never waits for its manager, which may be
\* stuck: until the port is free and the server and stopper goroutines have
\* returned, one of these two can go on, and once they have, the manager has been
\* told to end.  The stopper does not wait for a Serve that waits for the stopper, and
\* nobody waits for a result nobody takes (service.go:382-397, server.go:593-599,
\* 1484-1487).
THEOREM CleanUpNeverStuck ==
  Spec => [](\A i \in Services : Ending(i) => CanEnd(i) \/ (Gone(i) /\ ManagerTold(i)))
<1>1. ASSUME TypeOK, PortInv, WakeInv, NEW i \in Services, Ending(i), ~CanEnd(i)
      PROVE  Gone(i) /\ ManagerTold(i)
  <2>1. stopper[i] \in {"none", "returned"}
    BY <1>1 DEF TypeOK, PortInv, WakeInv, Ending, CanEnd
  <2>2. server[i] \in {"none", "returned"}
    BY <1>1, <2>1 DEF TypeOK, PortInv, WakeInv, CanEnd
  <2>3. port # i
    BY <1>1, <2>1, <2>2 DEF TypeOK, PortInv
  <2>4. ManagerTold(i)
    BY <1>1, <2>1, <2>2 DEF TypeOK, PortInv, WakeInv, Ending, ManagerTold
  <2>. QED  BY <2>1, <2>2, <2>3, <2>4 DEF Gone
<1>2. TypeOK /\ PortInv /\ WakeInv =>
        \A i \in Services : Ending(i) => CanEnd(i) \/ (Gone(i) /\ ManagerTold(i))
  BY <1>1
<1>. QED  BY <1>2, WakeInvariance, PTL

\* The end is final: a service on its way there stays on it, whatever the others on
\* the address do, and one that is over never takes the port again nor starts a
\* goroutine (service.go:356-400).
THEOREM EndIsFinal ==
  Spec => [][\A i \in Services : Ending(i) => Ending(i)' /\ (Over(i) => Over(i)')]_vars
<1>1. ASSUME TypeOK, PortInv, WakeInv, Next, NEW i \in Services, Ending(i)
      PROVE  Ending(i)' /\ (Over(i) => Over(i)')
  <2>. USE <1>1 DEF TypeOK, PortInv, WakeInv, Ending, Over, Gone
  <2>1. PICK k \in Services : MainStep(k) \/ Finish(k) \/ ManagerStep(k) \/ ServerStep(k) \/ StopperStep(k)
    BY DEF Next
  <2>2. CASE MainStep(k)
    BY <2>2 DEF MainStep, AclError, StartManager, Listen, ListenError
  <2>3. CASE Finish(k) \/ ManagerStep(k)
    BY <2>3 DEF Finish, ManagerStep, ClientConnects, ManagerStuck, ManagerReturns
  <2>4. CASE ServerStep(k)
    BY <2>4 DEF ServerStep, ServeBegins, AcceptFails, ServeDrained, PutResult, Released, ErrChanCap
  <2>5. CASE StopperStep(k)
    BY <2>5 DEF StopperStep, StopperWakes, FinishAdmin, StopServer, StopDone, Released
  <2>. QED  BY <2>1, <2>2, <2>3, <2>4, <2>5
<1>2. TypeOK /\ PortInv /\ WakeInv /\ [Next]_vars
        => [\A i \in Services : Ending(i) => Ending(i)' /\ (Over(i) => Over(i)')]_vars
  BY <1>1
<1>. QED  BY <1>2, WakeInvariance, PTL DEF Spec

\* A call that failed to listen has left its manager goroutine running, and nothing
\* but the caller's own context ends it (service.go:370, 376-379).
THEOREM ListenErrorLeaks ==
  Spec => [](\A i \in Services : main[i] = "listenError" /\ i \notin ctxDone => manager[i] = "running")
<1>1. WakeInv => \A i \in Services : main[i] = "listenError" /\ i \notin ctxDone => manager[i] = "running"
  BY DEF WakeInv
<1>. QED  BY <1>1, WakeInvariance, PTL

\* How far a call and each of its goroutines has come, as numbers that only grow.
MainAge(i) == IF main[i] = "call" THEN 0 ELSE IF main[i] \in {"listen", "aclError"} THEN 1 ELSE 2
ManagerAge(i) ==
  IF manager[i] = "none" THEN 0 ELSE IF manager[i] = "running" THEN 1
  ELSE IF manager[i] = "busy" THEN 2 ELSE 3
ServerAge(i) ==
  IF server[i] = "none" THEN 0 ELSE IF server[i] = "start" THEN 1
  ELSE IF server[i] = "accepting" THEN 2 ELSE IF server[i] = "drain" THEN 3
  ELSE IF server[i] = "put" THEN 4 ELSE 5
StopperAge(i) ==
  IF stopper[i] = "none" THEN 0 ELSE IF stopper[i] = "wait" THEN 1
  ELSE IF stopper[i] = "finish" THEN 2 ELSE IF stopper[i] = "stop" THEN 3
  ELSE IF stopper[i] = "drain" THEN 4 ELSE 5
ContextAge(i) == IF i \in ctxDone THEN 1 ELSE 0
Age(i) == MainAge(i) + ManagerAge(i) + ServerAge(i) + StopperAge(i) + ContextAge(i)

\* The step of a service makes it older, and none of the others.
Grows(i) == Age(i)' > Age(i) /\ \A k \in Services \ {i} : Age(k)' = Age(k)

\* What makes up an age is a number, and an age only depends on the service's state.
LEMMA AgeFacts ==
  ASSUME NEW i \in Services
  PROVE  /\ MainAge(i) \in 0..2 /\ ManagerAge(i) \in 0..3 /\ ServerAge(i) \in 0..5
         /\ StopperAge(i) \in 0..5 /\ ContextAge(i) \in 0..1
         /\ MainAge(i)' \in 0..2 /\ ManagerAge(i)' \in 0..3 /\ ServerAge(i)' \in 0..5
         /\ StopperAge(i)' \in 0..5 /\ ContextAge(i)' \in 0..1
  BY DEF MainAge, ManagerAge, ServerAge, StopperAge, ContextAge

LEMMA OthersKeepAge ==
  ASSUME NEW k \in Services,
         main'[k] = main[k], manager'[k] = manager[k], server'[k] = server[k],
         stopper'[k] = stopper[k], k \in ctxDone' <=> k \in ctxDone
  PROVE  Age(k)' = Age(k)
<1>1. /\ MainAge(k)' = MainAge(k) /\ ManagerAge(k)' = ManagerAge(k)
      /\ ServerAge(k)' = ServerAge(k) /\ StopperAge(k)' = StopperAge(k)
      /\ ContextAge(k)' = ContextAge(k)
  BY DEF MainAge, ManagerAge, ServerAge, StopperAge, ContextAge
<1>. QED  BY <1>1 DEF Age

LEMMA StepGrows == TypeOK /\ PortInv /\ WakeInv /\ Next => \E i \in Services : Grows(i)
<1>. SUFFICES ASSUME TypeOK, PortInv, WakeInv, Next PROVE \E i \in Services : Grows(i)
  OBVIOUS
<1>1. PICK i \in Services :
        MainStep(i) \/ Finish(i) \/ ManagerStep(i) \/ ServerStep(i) \/ StopperStep(i)
  BY DEF Next
<1>. DEFINE Older ==
       /\ MainAge(i)' >= MainAge(i) /\ ManagerAge(i)' >= ManagerAge(i)
       /\ ServerAge(i)' >= ServerAge(i) /\ StopperAge(i)' >= StopperAge(i)
       /\ ContextAge(i)' >= ContextAge(i)
       /\ \/ MainAge(i)' > MainAge(i) \/ ManagerAge(i)' > ManagerAge(i)
          \/ ServerAge(i)' > ServerAge(i) \/ StopperAge(i)' > StopperAge(i)
          \/ ContextAge(i)' > ContextAge(i)
<1>2. \A k \in Services \ {i} :
        /\ main'[k] = main[k] /\ manager'[k] = manager[k] /\ server'[k] = server[k]
        /\ stopper'[k] = stopper[k] /\ (k \in ctxDone' <=> k \in ctxDone)
  <2>. USE DEF TypeOK
  <2>1. CASE MainStep(i)
    BY <2>1 DEF MainStep, AclError, StartManager, Listen, ListenError
  <2>2. CASE Finish(i) \/ ManagerStep(i)
    BY <2>2 DEF Finish, ManagerStep, ClientConnects, ManagerStuck, ManagerReturns
  <2>3. CASE ServerStep(i)
    BY <2>3 DEF ServerStep, ServeBegins, AcceptFails, ServeDrained, PutResult, ErrChanCap
  <2>4. CASE StopperStep(i)
    BY <2>4 DEF StopperStep, StopperWakes, FinishAdmin, StopServer, StopDone
  <2>. QED  BY <1>1, <2>1, <2>2, <2>3, <2>4
<1>3. Older
  <2>. USE DEF TypeOK, MainAge, ManagerAge, ServerAge, StopperAge, ContextAge
  <2>1. CASE AclError(i)
    BY <2>1 DEF AclError
  <2>2. CASE StartManager(i)
    BY <2>2 DEF StartManager, WakeInv
  <2>3. CASE Listen(i)
    BY <2>3 DEF Listen, PortInv
  <2>4. CASE ListenError(i)
    BY <2>4 DEF ListenError
  <2>5. CASE Finish(i)
    BY <2>5 DEF Finish
  <2>6. CASE ManagerStep(i)
    BY <2>6 DEF ManagerStep, ClientConnects, ManagerStuck, ManagerReturns, WakeInv
  <2>7. CASE ServeBegins(i)
    BY <2>7 DEF ServeBegins
  <2>8. CASE AcceptFails(i)
    BY <2>8 DEF AcceptFails
  <2>9. CASE ServeDrained(i)
    BY <2>9 DEF ServeDrained
  <2>10. CASE PutResult(i)
    BY <2>10 DEF PutResult, ErrChanCap
  <2>11. CASE StopperWakes(i)
    BY <2>11 DEF StopperWakes
  <2>12. CASE FinishAdmin(i)
    BY <2>12 DEF FinishAdmin
  <2>13. CASE StopServer(i)
    BY <2>13 DEF StopServer
  <2>14. CASE StopDone(i)
    BY <2>14 DEF StopDone
  <2>. QED  BY <1>1, <2>1, <2>2, <2>3, <2>4, <2>5, <2>6, <2>7, <2>8, <2>9, <2>10, <2>11, <2>12,
               <2>13, <2>14 DEF MainStep, ServerStep, StopperStep
<1>4. Age(i)' > Age(i)
  BY <1>3, AgeFacts DEF Age
<1>5. \A k \in Services \ {i} : Age(k)' = Age(k)
  BY <1>2, OthersKeepAge
<1>. QED  BY <1>4, <1>5 DEF Grows

\* A service has finite work: every step makes exactly one service older, and none
\* gets older than 16.  Nothing goes round for ever in the server and the stopper
\* goroutine, which are never stuck on the way to the end (CleanUpNeverStuck), so they
\* come to it as soon as they are scheduled (service.go:356-400).
THEOREM LifeRunsOut ==
  /\ Spec => [](\A i \in Services : Age(i) \in 0..16)
  /\ Spec => [][\E i \in Services : Grows(i)]_vars
<1>1. \A i \in Services : Age(i) \in 0..16
  BY AgeFacts DEF Age
<1>2. Spec => [](\A i \in Services : Age(i) \in 0..16)
  BY <1>1, PTL
<1>3. TypeOK /\ PortInv /\ WakeInv /\ [Next]_vars => [\E i \in Services : Grows(i)]_vars
  BY StepGrows
<1>4. Spec => [][\E i \in Services : Grows(i)]_vars
  BY <1>3, WakeInvariance, PTL DEF Spec
<1>. QED  BY <1>2, <1>4
=============================================================================
