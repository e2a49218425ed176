----------------------------- MODULE MCFastSearch -----------------------------
(* FastSearch called twice, as main_test.go does, on files FastSearch searches
   right when it reads them: one "@" in an e-mail, and nobody on the last line
   who counts. *)
EXTENDS FastSearch

CONSTANTS c1, c2, droid, ie, other

MCSearches == {c1, c2}
MCAndroid == {droid}
MCMSIE == {ie}
User(browsers) == [json |-> TRUE, browsers |-> browsers, hasEmail |-> TRUE, ats |-> 1]
MCUsers == {User(<<droid, ie>>), User(<<ie, other>>), User(<<other>>)}
MCTexts == {Append(t, User(<<other>>)) : t \in UNION {[1..n -> MCUsers] : n \in 1..2}}
=============================================================================
