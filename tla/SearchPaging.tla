---------------------------- MODULE SearchPaging ----------------------------
(***************************************************************************)
(* hw4_test_coverage: SearchClient.FindUsers (client.go), which asks a     *)
(* search service for one record more than it was asked for to learn       *)
(* whether there is a next page, the service SearchServer and its          *)
(* ProcessQuery (client_test.go), and a caller that walks through the      *)
(* pages.  A text parameter is a member of a small set; names are compared *)
(* by rank.                                                                *)
(***************************************************************************)
EXTENDS Integers, Sequences, SequencesExt

CONSTANTS Records,    \* dataset.xml: records [Id, Age, Name]
          MaxLimit,   \* most users in a page: 25
          Tokens, Limits, Offsets, Queries, OrderFields, OrderBys  \* what callers send

ASSUME SearchAssumption == MaxLimit \in Nat \ {0} /\ Records # {} /\ IsFiniteSet(Records)
ASSUME ArgumentsAssumption == Limits \subseteq Int /\ Offsets \subseteq Int

VARIABLES
  order,   \* the order sort.Slice gives to the records for this walk's request
  token,   \* SearchClient.AccessToken
  badUrl,  \* whether SearchClient.URL does not parse
  ask,     \* the caller's SearchRequest
  pc,      \* "call", "sent", "answered", "returned", "done" or "panic"
  sent,    \* searcherParams: limit and offset
  answer,  \* what the service answered: status, and users or error text
  result,  \* what FindUsers returned
  start,   \* the offset the walk began at
  seen     \* users the walk has collected

vars == <<order, token, badUrl, ask, pc, sent, answer, result, start, seen>>

-----------------------------------------------------------------------------
(* The service *)

\* ProcessQuery fills in the order field and turns "as is" into ascending.
OrderField(r) == IF r.OrderField = "" THEN "Name" ELSE r.OrderField
Descending(r) == r.OrderBy = 1

BadQuery(r)      == r.Query \notin {"Name", "About", ""}
BadOrderBy(r)    == r.OrderBy \notin {-1, 0, 1}
BadOrderField(r) == r.OrderField \notin {"Id", "Age", "Name", ""}

\* ProcessQuery's error, of the first parameter that is wrong.
QueryError(r, p) ==
  IF p.limit < 0 THEN "ErrorBadLimit"
  ELSE IF p.offset < 0 THEN "ErrorBadOffset"
  ELSE IF BadQuery(r) THEN "ErrorBadQuery"
  ELSE IF BadOrderBy(r) THEN "ErrorBadOrderBy"
  ELSE IF BadOrderField(r) THEN "ErrorBadOrderField"
  ELSE ""

\* What sort.Slice may return: it is not stable, so records that compare equal
\* come in any order, but in the same one every time.
Sorted(s, r) ==
  LET key(u) == u[OrderField(r)]
  IN  \A i, j \in 1..Len(s) :
        i < j => IF Descending(r) THEN key(s[i]) >= key(s[j]) ELSE key(s[i]) <= key(s[j])

AllOrders == SetToSeqs(Records)

Orders(r) ==
  IF BadOrderField(r) THEN {<< >>} ELSE {s \in AllOrders : Sorted(s, r)}

\* Faulty: the upper bound forgets the offset.
SliceShort(s, p) ==
  SubSeq(s, Min({p.offset, Len(s) - 1}) + 1, Min({p.limit, Len(s)}))

\* users[lBound:rBound]
Slice(s, p) ==
  SubSeq(s, Min({p.offset, Len(s) - 1}) + 1, Min({p.offset + p.limit, Len(s)}))

-----------------------------------------------------------------------------
Empty == [err |-> "", Users |-> << >>, NextPage |-> FALSE]
NoAnswer == [status |-> 0, users |-> << >>, err |-> ""]

Init ==
  /\ ask \in [Limit : Limits, Offset : Offsets, Query : Queries,
              OrderField : OrderFields, OrderBy : OrderBys]
  /\ order \in Orders(ask)
  /\ token \in Tokens /\ badUrl \in BOOLEAN
  /\ pc = "call"
  /\ sent = [limit |-> 0, offset |-> 0]
  /\ answer = NoAnswer /\ result = Empty
  /\ start = ask.Offset
  /\ seen = << >>

Return(res) == pc' = "returned" /\ result' = res
Fail(err) == Return([Empty EXCEPT !.err = err])

\* FindUsers up to client.Do.  NewRequest's error is dropped, and the header of a
\* request that is not there is written to.
FindUsers ==
  /\ pc = "call"
  /\ \/ /\ ask.Limit < 0
        /\ Fail("limit must be > 0") /\ UNCHANGED sent
     \/ /\ ask.Limit >= 0 /\ ask.Offset < 0
        /\ Fail("offset must be > 0") /\ UNCHANGED sent
     \/ /\ ask.Limit >= 0 /\ ask.Offset >= 0
        /\ sent' = [limit |-> Min({ask.Limit, MaxLimit}) + 1, offset |-> ask.Offset]
        /\ pc' = IF badUrl THEN "panic" ELSE "sent"
        /\ UNCHANGED result
  /\ UNCHANGED <<order, token, badUrl, ask, answer, start, seen>>

Respond(status, users, err) ==
  pc' = "answered" /\ answer' = [status |-> status, users |-> users, err |-> err]

\* SearchServer: the token stands for what may go wrong behind it.
SearchServer ==
  /\ pc = "sent"
  /\ \/ token = "InternalError" /\ Respond(500, << >>, "")
     \/ token = "BadErrorJSON" /\ Respond(400, << >>, "broken")
     \/ token = "Token_Bad" /\ Respond(401, << >>, "")
     \/ token \in {"BadBodyJSON", "TimeOut"} /\ Respond(200, << >>, "broken")
     \/ /\ token = "Token_OK"
        /\ IF QueryError(ask, sent) # "" THEN Respond(400, << >>, QueryError(ask, sent))
           ELSE Respond(200, Slice(order, sent), "")
  /\ UNCHANGED <<order, token, badUrl, ask, sent, result, start, seen>>

\* client.Do fails, or gives up after a second: a later answer finds nobody.
DoFails ==
  /\ pc = "sent"
  /\ Fail("timeout") \/ Fail("unknown error")
  /\ UNCHANGED <<order, token, badUrl, ask, sent, answer, start, seen>>

\* Faulty: what has come of a body that is cut passes for the whole of it.
BodyIsCutShort ==
  /\ pc = "answered"
  /\ \E n \in 0 .. Len(answer.users) : answer' = [answer EXCEPT !.users = SubSeq(@, 1, n)]
  /\ UNCHANGED <<order, token, badUrl, ask, pc, sent, result, start, seen>>

\* ReadAll fails, or the client's second is over, before the body is all there:
\* the error is dropped and what has come of the body does not parse.
BodyIsCut ==
  /\ pc = "answered"
  /\ answer' = [answer EXCEPT !.err = "broken"]
  /\ UNCHANGED <<order, token, badUrl, ask, pc, sent, result, start, seen>>

\* Faulty: compares with the number of users asked for, not with one more.
PageAskedFor(users) ==
  IF Len(users) = sent.limit - 1 THEN [Empty EXCEPT !.Users = users, !.NextPage = TRUE]
  ELSE [Empty EXCEPT !.Users = users]

\* Faulty: hands on the extra record too.
PageWithExtra(users) ==
  [Empty EXCEPT !.Users = users, !.NextPage = Len(users) = sent.limit]

\* The page FindUsers makes of the users it got.
Page(users) ==
  IF Len(users) = sent.limit
  THEN [Empty EXCEPT !.Users = Front(users), !.NextPage = TRUE]
  ELSE [Empty EXCEPT !.Users = users]

\* The rest of FindUsers.
Interpret ==
  /\ pc = "answered"
  /\ CASE answer.status = 401 -> Fail("Bad AccessToken")
       [] answer.status = 500 -> Fail("SearchServer fatal error")
       [] answer.status = 400 ->
            IF answer.err = "broken" THEN Fail("cant unpack error json")
            ELSE IF answer.err = "ErrorBadOrderField" THEN Fail("OrderFeld invalid")
            ELSE Fail("unknown bad request error")
       [] OTHER -> IF answer.err = "broken" THEN Fail("cant unpack result json")
                   ELSE Return(Page(answer.users))
  /\ answer' = NoAnswer
  /\ UNCHANGED <<order, token, badUrl, ask, sent, start, seen>>

\* The caller: it shows the page and asks for the next one if there is one,
\* beginning after the users it has; after a timeout it may ask again.
Walk ==
  /\ pc = "returned"
  /\ \/ /\ result.err = "timeout"
        /\ pc' = "call" /\ result' = Empty /\ UNCHANGED <<ask, seen>>
     \/ /\ result.err = "" /\ result.NextPage
        /\ seen' = seen \o result.Users
        /\ ask' = [ask EXCEPT !.Offset = @ + Len(result.Users)]
        /\ pc' = "call" /\ result' = Empty
     \/ /\ ~result.NextPage
        /\ seen' = seen \o result.Users
        /\ pc' = "done" /\ UNCHANGED <<ask, result>>
  /\ UNCHANGED <<order, token, badUrl, sent, answer, start>>

Next == FindUsers \/ SearchServer \/ DoFails \/ BodyIsCut \/ Interpret \/ Walk

Spec == Init /\ [][Next]_vars

-----------------------------------------------------------------------------
(* Properties *)

Good == pc = "returned" /\ result.err = ""
More == ask.Offset + Len(result.Users) < Len(order)

\* Within the records, the caller is told of a next page exactly if there are
\* records after the page it gets, whatever the limit and the cap on it.
NextPageIffMore == Good /\ start < Len(order) => (result.NextPage <=> More)

\* A walk that begins within the records, with a limit of at least one, gets
\* every record from there on once and in order, though timeouts make it ask
\* for pages again and the service caps the size of a page.
WalkCollectsOnce ==
  LET wanted == SubSeq(order, start + 1, Len(order))
  IN  start \in 0 .. Len(order) - 1 =>
        /\ IsPrefix(seen, wanted)
        /\ pc = "done" /\ result.err = "" /\ ask.Limit > 0 => seen = wanted

\* Wherever the walk began, a page that tells of a next one is full, and unless
\* the caller asked for nobody (a limit of 0 gives the same empty page again for
\* ever) the next page begins behind it and before the end of the records: the
\* walk is over after at most as many pages as there are records.
PagesAdvance ==
  Good /\ result.NextPage =>
    /\ Len(result.Users) = Min({ask.Limit, MaxLimit})
    /\ ask.Limit > 0 => ask.Offset + Len(result.Users) \in ask.Offset + 1 .. Len(order) - 1
=============================================================================
