----------------------------- MODULE EventFanout -----------------------------
(***************************************************************************)
(* What the event bus promises, without channels, locks or goroutines.     *)
(* Events are published in one order.  They are handed out in rounds, one  *)
(* event a round; a subscriber joins between two rounds and from then on   *)
(* gets every event, in order, once, until it leaves at a round's end.     *)
(***************************************************************************)
EXTENDS Naturals, Sequences

CONSTANTS Events, Subscribers

VARIABLES history,   \* the events published, in order
          front,     \* how many rounds are over
          active,    \* the subscribers of the current round
          from,      \* rounds over when a subscriber joined
          view       \* the events a subscriber was given

vars == <<history, front, active, from, view>>

Position(s) == from[s] + Len(view[s])

Init ==
  /\ history = << >>
  /\ front = 0
  /\ active = {}
  /\ from = [s \in Subscribers |-> 0]
  /\ view = [s \in Subscribers |-> << >>]

Publish(e) ==
  /\ history' = Append(history, e)
  /\ UNCHANGED <<front, active, from, view>>

Join(s) ==
  /\ s \notin active
  /\ view[s] = << >>
  /\ \A t \in active : Position(t) = front
  /\ active' = active \cup {s}
  /\ from' = [from EXCEPT ![s] = front]
  /\ UNCHANGED <<history, front, view>>

Deliver(s) ==
  /\ s \in active
  /\ Position(s) = front
  /\ front < Len(history)
  /\ view' = [view EXCEPT ![s] = Append(@, history[front + 1])]
  /\ UNCHANGED <<history, front, active, from>>

\* The round ends when everyone who stays has its event.
EndRound ==
  /\ front < Len(history)
  /\ front' = front + 1
  /\ active' = {s \in active : Position(s) = front + 1}
  /\ UNCHANGED <<history, from, view>>

Next == \/ \E e \in Events : Publish(e)
        \/ \E s \in Subscribers : Join(s) \/ Deliver(s)
        \/ EndRound

Spec == Init /\ [][Next]_vars
=============================================================================
