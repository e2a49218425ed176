------------------------------ MODULE Lifecycle ------------------------------
(***************************************************************************)
(* StartMyMicroservice of hw7_microservice/service.go: several calls on    *)
(* one address, each with the goroutines it starts (the manager, the       *)
(* server, the stopper), the error channel between server and stopper, and *)
(* the parts of grpc.Server it relies on.  The manager goroutine is here   *)
(* only its life; AdminManager is its work, and tells what may become of   *)
(* it: once a client has connected it copies events, and in the middle of  *)
(* that it may wait for ever for a receiver that has gone.  The panic that *)
(* AdminManager knows too ends the process and every service in it, and is *)
(* no state here.                                                          *)
(***************************************************************************)
EXTENDS Naturals

CONSTANTS Services,     \* the calls of StartMyMicroservice
          BadAcl,       \* those given an ACL that does not parse
          Finished,     \* those whose context the caller cancels in the end
          MayFail       \* those whose listener may fail while it serves

ASSUME ServiceAssumption == BadAcl \subseteq Services /\ MayFail \subseteq Services
                            /\ Finished \subseteq Services
None == "none"
ASSUME NoneAssumption == None \notin Services

VARIABLES
  main,      \* control state of the call
  ctxDone,   \* services whose context is cancelled
  adminDone, \* services whose adminCtx is cancelled
  manager,   \* the manager goroutine: "running" before the service has had a client,
             \* "busy" after, "stuck" at a send that nobody receives any more
  server,    \* the goroutine of server.Serve
  stopper,   \* the goroutine that waits for the end
  errChan,   \* services with a value in channel c
  port,      \* who holds the address
  quit       \* services on which server.Stop has begun (quit fired, listeners closed)

vars == <<main, ctxDone, adminDone, manager, server, stopper, errChan, port, quit>>

Init ==
  /\ main = [i \in Services |-> "call"]
  /\ ctxDone = {} /\ adminDone = {} /\ quit = {} /\ errChan = {}
  /\ manager = [i \in Services |-> "none"]
  /\ server = [i \in Services |-> "none"]
  /\ stopper = [i \in Services |-> "none"]
  /\ port = None

\* Faulty: the error channel has no buffer.
ErrChanCapZero == 0

\* c := make(chan error, 1)
ErrChanCap == 1

-----------------------------------------------------------------------------
(* The call itself *)

AclError(i) ==
  /\ main[i] = "call"
  /\ i \in BadAcl
  /\ main' = [main EXCEPT ![i] = "aclError"]
  /\ UNCHANGED <<ctxDone, adminDone, manager, server, stopper, errChan, port, quit>>

\* The manager goroutine starts before the address is known to be free.
StartManager(i) ==
  /\ main[i] = "call"
  /\ i \notin BadAcl
  /\ main' = [main EXCEPT ![i] = "listen"]
  /\ manager' = [manager EXCEPT ![i] = "running"]
  /\ UNCHANGED <<ctxDone, adminDone, server, stopper, errChan, port, quit>>

Listen(i) ==
  /\ main[i] = "listen"
  /\ port = None
  /\ port' = i
  /\ main' = [main EXCEPT ![i] = "started"]
  /\ server' = [server EXCEPT ![i] = "start"]
  /\ stopper' = [stopper EXCEPT ![i] = "wait"]
  /\ UNCHANGED <<ctxDone, adminDone, manager, errChan, quit>>

\* net.Listen fails and the call returns without finishAdmin.
ListenError(i) ==
  /\ main[i] = "listen"
  /\ port # None
  /\ main' = [main EXCEPT ![i] = "listenError"]
  /\ UNCHANGED <<ctxDone, adminDone, manager, server, stopper, errChan, port, quit>>

\* The caller cancels the context it passed, adminCtx with it.
Finish(i) ==
  /\ i \in Finished \ ctxDone
  /\ main[i] # "call"
  /\ ctxDone' = ctxDone \cup {i}
  /\ adminDone' = adminDone \cup {i}
  /\ UNCHANGED <<main, manager, server, stopper, errChan, port, quit>>

\* A client connects; its calls put events on the manager's channel.
ClientConnects(i) ==
  /\ server[i] = "accepting"
  /\ i \notin quit
  /\ manager[i] = "running"
  /\ manager' = [manager EXCEPT ![i] = "busy"]
  /\ UNCHANGED <<main, ctxDone, adminDone, server, stopper, errChan, port, quit>>

\* A subscriber's handler has returned and its channel is full: the send of the
\* manager, which holds the mutex, never ends.
ManagerStuck(i) ==
  /\ manager[i] = "busy"
  /\ manager' = [manager EXCEPT ![i] = "stuck"]
  /\ UNCHANGED <<main, ctxDone, adminDone, server, stopper, errChan, port, quit>>

\* The manager is back at its select, and sees adminCtx done.
ManagerReturns(i) ==
  /\ manager[i] \in {"running", "busy"}
  /\ i \in adminDone
  /\ manager' = [manager EXCEPT ![i] = "returned"]
  /\ UNCHANGED <<main, ctxDone, adminDone, server, stopper, errChan, port, quit>>

Released(i) == IF port = i THEN None ELSE port

-----------------------------------------------------------------------------
(* c <- server.Serve(lis) *)

\* Serve takes the listener over; after Stop it closes it and returns at once.
ServeBegins(i) ==
  /\ server[i] = "start"
  /\ \/ /\ i \notin quit
        /\ server' = [server EXCEPT ![i] = "accepting"]
        /\ UNCHANGED port
     \/ /\ i \in quit
        /\ server' = [server EXCEPT ![i] = "put"]
        /\ port' = Released(i)
  /\ UNCHANGED <<main, ctxDone, adminDone, manager, stopper, errChan, quit>>

\* Faulty: Serve closes the listener and goes on accepting.
AcceptFailsGoingOn(i) ==
  /\ server[i] = "accepting"
  /\ \/ /\ i \in quit
        /\ server' = [server EXCEPT ![i] = "drain"]
        /\ UNCHANGED port
     \/ /\ i \in MayFail \ quit
        /\ port' = Released(i)
        /\ UNCHANGED server
  /\ UNCHANGED <<main, ctxDone, adminDone, manager, stopper, errChan, quit>>

\* Accept fails: after Stop, Serve leaves the wait group and waits for Stop to
\* be done; before, it closes the listener and returns the error.
AcceptFails(i) ==
  /\ server[i] = "accepting"
  /\ \/ /\ i \in quit
        /\ server' = [server EXCEPT ![i] = "drain"]
        /\ UNCHANGED port
     \/ /\ i \in MayFail \ quit
        /\ server' = [server EXCEPT ![i] = "put"]
        /\ port' = Released(i)
  /\ UNCHANGED <<main, ctxDone, adminDone, manager, stopper, errChan, quit>>

ServeDrained(i) ==
  /\ server[i] = "drain"
  /\ stopper[i] = "returned"
  /\ server' = [server EXCEPT ![i] = "put"]
  /\ UNCHANGED <<main, ctxDone, adminDone, manager, stopper, errChan, port, quit>>

\* The result goes into the channel, or to a stopper that is waiting for it.
PutResult(i) ==
  /\ server[i] = "put"
  /\ server' = [server EXCEPT ![i] = "returned"]
  /\ IF ErrChanCap = 1
     THEN errChan' = errChan \cup {i} /\ UNCHANGED stopper
     ELSE /\ stopper[i] = "wait"
          /\ stopper' = [stopper EXCEPT ![i] = "finish"]
          /\ UNCHANGED errChan
  /\ UNCHANGED <<main, ctxDone, adminDone, manager, port, quit>>

-----------------------------------------------------------------------------
(* The stopper goroutine *)

\* Faulty: the stopper waits for the context only.
StopperWakesOnContext(i) ==
  /\ stopper[i] = "wait"
  /\ i \in ctxDone
  /\ stopper' = [stopper EXCEPT ![i] = "finish"]
  /\ UNCHANGED <<main, ctxDone, adminDone, manager, server, errChan, port, quit>>

StopperWakes(i) ==
  /\ stopper[i] = "wait"
  /\ \/ i \in ctxDone /\ UNCHANGED errChan
     \/ i \in errChan /\ errChan' = errChan \ {i}
  /\ stopper' = [stopper EXCEPT ![i] = "finish"]
  /\ UNCHANGED <<main, ctxDone, adminDone, manager, server, port, quit>>

FinishAdmin(i) ==
  /\ stopper[i] = "finish"
  /\ adminDone' = adminDone \cup {i}
  /\ stopper' = [stopper EXCEPT ![i] = "stop"]
  /\ UNCHANGED <<main, ctxDone, manager, server, errChan, port, quit>>

\* Faulty: Stop leaves the listener open.
StopServerLeavingListener(i) ==
  /\ stopper[i] = "stop"
  /\ quit' = quit \cup {i}
  /\ stopper' = [stopper EXCEPT ![i] = "drain"]
  /\ UNCHANGED <<main, ctxDone, adminDone, manager, server, errChan, port>>

\* server.Stop: quit fires and the listeners Serve has taken over are closed.
StopServer(i) ==
  /\ stopper[i] = "stop"
  /\ quit' = quit \cup {i}
  /\ port' = IF server[i] = "accepting" THEN Released(i) ELSE port
  /\ stopper' = [stopper EXCEPT ![i] = "drain"]
  /\ UNCHANGED <<main, ctxDone, adminDone, manager, server, errChan>>

\* server.Stop waits for Serve to leave the wait group.
StopDone(i) ==
  /\ stopper[i] = "drain"
  /\ server[i] # "accepting"
  /\ stopper' = [stopper EXCEPT ![i] = "returned"]
  /\ UNCHANGED <<main, ctxDone, adminDone, manager, server, errChan, port, quit>>

-----------------------------------------------------------------------------
MainStep(i)    == AclError(i) \/ StartManager(i) \/ Listen(i) \/ ListenError(i)
ServerStep(i)  == ServeBegins(i) \/ AcceptFails(i) \/ ServeDrained(i) \/ PutResult(i)
StopperStep(i) == StopperWakes(i) \/ FinishAdmin(i) \/ StopServer(i) \/ StopDone(i)
ManagerStep(i) == ClientConnects(i) \/ ManagerStuck(i) \/ ManagerReturns(i)

Next == \E i \in Services :
  MainStep(i) \/ Finish(i) \/ ManagerStep(i) \/ ServerStep(i) \/ StopperStep(i)

Spec == Init /\ [][Next]_vars

\* The goroutines run; a listener need not fail, no client need come, and a
\* manager that is told to end gets back to its select or stuck on the way.
Fairness ==
  \A i \in Services :
    /\ WF_vars(ManagerReturns(i) \/ (i \in adminDone /\ ManagerStuck(i)))
    /\ WF_vars(ServeBegins(i) \/ ServeDrained(i) \/ PutResult(i))
    /\ WF_vars(i \in quit /\ AcceptFails(i))
    /\ WF_vars(StopperStep(i))

LiveSpec == Spec /\ Fairness

-----------------------------------------------------------------------------
(* Properties *)

\* Every variable has one of the values its goroutine can give it.
TypeOK ==
  /\ main \in [Services -> {"call", "aclError", "listen", "listenError", "started"}]
  /\ ctxDone \subseteq Services /\ adminDone \subseteq Services
  /\ quit \subseteq Services /\ errChan \subseteq Services
  /\ manager \in [Services -> {"none", "running", "busy", "stuck", "returned"}]
  /\ server \in [Services -> {"none", "start", "accepting", "drain", "put", "returned"}]
  /\ stopper \in [Services -> {"none", "wait", "finish", "stop", "drain", "returned"}]
  /\ port \in Services \cup {None}

\* Two services never accept on the address at once, across any number of
\* starts, stops and failures of the listener: one that accepts holds the port
\* until its Stop has closed the listener.
AcceptingHoldsPort ==
  \A i \in Services : server[i] = "accepting" /\ i \notin quit => port = i

\* A service whose Stop has returned has let the port go, unless its Serve
\* goroutine has not run yet and will close the listener when it does.
StoppedFreesPort ==
  \A i \in Services : stopper[i] = "returned" /\ server[i] # "start" => port # i

\* Nothing is left of a service but, perhaps, its manager.
Gone(i) ==
  /\ port # i
  /\ server[i] \in {"none", "returned"}
  /\ stopper[i] \in {"none", "returned"}

\* Its manager has returned too, or is stuck for good, which it cannot be unless
\* the service was up and had a client.
Over(i) ==
  /\ Gone(i)
  /\ manager[i] \in {"none", "returned"} \/ (manager[i] = "stuck" /\ main[i] = "started")

\* A service whose context is cancelled frees the port, though its manager may be
\* stuck, and leaves no other goroutine behind; a call that failed to listen leaves
\* none at all.
FinishCleansUp ==
  \A i \in Services : (main[i] \in {"started", "listenError"} /\ i \in ctxDone) ~> Over(i)

\* So does a service whose Serve fails, though nobody cancels its context.
ServeErrorCleansUp == \A i \in Services : server[i] = "put" ~> Over(i)
=============================================================================
