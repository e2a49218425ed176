------------------------------ MODULE UserStore ------------------------------
(***************************************************************************)
(* What MyApi promises its clients, without wrappers, lock or local        *)
(* variables: a call of Profile or Create takes effect in one step,        *)
(* somewhere between the request and the answer, and the answer is the     *)
(* one that step gives.  Users are numbered without gaps in the order in   *)
(* which they were created.                                                *)
(***************************************************************************)
EXTENDS Naturals

CONSTANTS Clients,
          Calls,      \* the calls clients make: a method and its parameters
          Known,      \* the users there are at the start
          First,      \* the first id that is given
          StatusOf    \* the number of each status

VARIABLES users,    \* login -> user
          next,     \* the next id
          stage,    \* each client's call: "idle", its method, or "answered"
          args,     \* its parameters
          answer    \* its last answer

vars == <<users, next, stage, args, answer>>

None == << >>

Init ==
  /\ users = Known /\ next = First
  /\ stage = [c \in Clients |-> "idle"]
  /\ args = [c \in Clients |-> None]
  /\ answer = [c \in Clients |-> [status |-> 0, body |-> None]]

Enter(c, s) == stage' = [stage EXCEPT ![c] = s]
Say(c, status, body) == answer' = [answer EXCEPT ![c] = [status |-> status, body |-> body]]
Forget(c) == args' = [args EXCEPT ![c] = None]

Call(c, k) ==
  /\ stage[c] = "idle"
  /\ Enter(c, k.method) /\ args' = [args EXCEPT ![c] = k.params] /\ Say(c, 0, None)
  /\ UNCHANGED <<users, next>>

\* A request no method is called for.
Refuse(c, status) ==
  /\ stage[c] = "idle"
  /\ Forget(c) /\ Say(c, status, None)
  /\ UNCHANGED <<users, next, stage>>

\* The logins the two methods take as the sign to fail.
Bad(c) == \/ stage[c] = "profile" /\ args[c]["Login"] = "bad_user"
          \/ stage[c] = "create" /\ args[c]["Login"] = "bad_username"

Fail(c) ==
  /\ Bad(c)
  /\ Enter(c, "idle") /\ Forget(c) /\ Say(c, 500, None)
  /\ UNCHANGED <<users, next>>

Lookup(c) ==
  /\ stage[c] = "profile" /\ ~Bad(c)
  /\ IF args[c]["Login"] \in DOMAIN users THEN Say(c, 200, users[args[c]["Login"]])
     ELSE Say(c, 404, None)
  /\ Enter(c, "answered")
  /\ UNCHANGED <<users, next, args>>

Insert(c) ==
  /\ stage[c] = "create" /\ ~Bad(c)
  /\ args[c]["Login"] \notin DOMAIN users
  /\ LET p   == args[c]
         new == [ID |-> next, Login |-> p["Login"], FullName |-> p["Name"],
                 Status |-> StatusOf[p["Status"]]]
     IN  users' = [l \in DOMAIN users \cup {p["Login"]} |-> IF l = p["Login"] THEN new ELSE users[l]]
  /\ next' = next + 1
  /\ Say(c, 200, [ID |-> next]) /\ Enter(c, "answered")
  /\ UNCHANGED args

Conflict(c) ==
  /\ stage[c] = "create" /\ ~Bad(c)
  /\ args[c]["Login"] \in DOMAIN users
  /\ Say(c, 409, None) /\ Enter(c, "answered")
  /\ UNCHANGED <<users, next, args>>

\* OtherApi.Create, which has nothing to do with the users.
Echo(c) ==
  /\ stage[c] = "other"
  /\ Enter(c, "idle") /\ Forget(c)
  /\ Say(c, 200, [ID |-> 12, Login |-> args[c]["Username"], FullName |-> args[c]["Name"],
                  Level |-> args[c]["Level"]])
  /\ UNCHANGED <<users, next>>

Return(c) ==
  /\ stage[c] = "answered"
  /\ Enter(c, "idle") /\ Forget(c)
  /\ UNCHANGED <<users, next, answer>>

Next ==
  \E c \in Clients :
    \/ \E k \in Calls : Call(c, k)
    \/ \E status \in {400, 403, 404, 406} : Refuse(c, status)
    \/ Fail(c) \/ Lookup(c) \/ Insert(c) \/ Conflict(c) \/ Echo(c) \/ Return(c)

Spec == Init /\ [][Next]_vars
=============================================================================
