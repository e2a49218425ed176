--------------------------- MODULE MCAdminManager ---------------------------
(* Instances of AdminManager for TLC. *)
EXTENDS AdminManager, TLC

CONSTANTS l1, l2, s1, s2, c1, c2, logging, statistics, check, add, ann, bob

MCLoggers1 == {l1}
MCLoggers2 == {l1, l2}
MCStaters0 == {}
MCStaters1 == {s1}
MCCalls1 == {c1}
MCCalls2 == {c1, c2}

MCMethodOf == [r \in Rpcs |-> CASE r \in Loggers -> logging
                                [] r \in Staters -> statistics
                                [] r = c1 -> check
                                [] OTHER -> add]
MCConsumerOf == [r \in Rpcs |-> IF r \in {c1, l1, s1} THEN ann ELSE bob]
=============================================================================
