------------------------------ MODULE MCService ------------------------------
(* Instances of Lifecycle and Acl for TLC: three calls of StartMyMicroservice on
   one address, and the interceptors over two symbols a name is made of and a
   third that the stream interceptor rewrites.  The two share no state: a
   behaviour is of one of them and leaves the other at rest. *)
EXTENDS Lifecycle, Acl, TLC

CONSTANTS a, b, c
CONSTANTS admin, adminManager, biz, check, ann, bob, star

MCTwo == {a, b}
MCThree == {a, b, c}
MCThird == {c}

MCSymbols == {admin, adminManager, biz, check, star}
MCNames == {ann, bob}
MCKnown == {ann}
MCMethods == {<<admin, check>>, <<adminManager, check>>, <<biz, check>>, <<biz>>}
MCPatterns == {<< >>, <<star>>, <<biz, star>>, <<biz, check>>, <<biz, check, star>>,
               <<admin, check>>, <<adminManager, check>>}
MCRename == adminManager :> admin

AclRests ==
  /\ stream = FALSE /\ hasMd = FALSE /\ names = << >> /\ acl = [k \in Known |-> << >>]
  /\ method = << >> /\ methName = << >> /\ pc = "over" /\ idx = 1 /\ verdict = "none"

ServiceInit == Init /\ (AclInit \/ AclRests)

ServiceNext ==
  \/ AclRests /\ Next /\ UNCHANGED aclVars
  \/ AclNext /\ UNCHANGED vars

ServiceSpec == ServiceInit /\ [][ServiceNext]_<<vars, aclVars>> /\ Fairness
=============================================================================
