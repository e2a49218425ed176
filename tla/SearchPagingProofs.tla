------------------------- MODULE SearchPagingProofs -------------------------
(***************************************************************************)
(* Theorems about the paging of hw4_test_coverage, for any records, limit, *)
(* offset and order.  The walk has collected the records from where it     *)
(* began up to the offset it asks for next, and a page ends where the next *)
(* one begins.                                                             *)
(***************************************************************************)
EXTENDS SearchPaging, FiniteSetTheorems, SequenceTheorems, TLAPS

LEMMA NoUsers == << >> \in Seq(Records)
OBVIOUS

LEMMA MinOfTwo ==
  ASSUME NEW a \in Int, NEW b \in Int
  PROVE  Min({a, b}) = IF a <= b THEN a ELSE b
<1> DEFINE m == IF a <= b THEN a ELSE b
<1>1. m \in {a, b} /\ \A y \in {a, b} : m <= y
  OBVIOUS
<1>2. \A x \in {a, b} : (\A y \in {a, b} : x <= y) => x = m
  OBVIOUS
<1> QED BY <1>1, <1>2 DEF Min

LEMMA SubSeqFacts ==
  ASSUME NEW s \in Seq(Records), NEW a \in Nat, NEW b \in Nat, a <= b, b <= Len(s)
  PROVE  /\ SubSeq(s, a + 1, b) \in Seq(Records)
         /\ Len(SubSeq(s, a + 1, b)) = b - a
         /\ \A i \in 1 .. b - a : SubSeq(s, a + 1, b)[i] = s[a + i]
<1> DEFINE u == SubSeq(s, a + 1, b)
<1>1. \A i \in a + 1 .. b : s[i] \in Records
  <2> SUFFICES ASSUME NEW i \in a + 1 .. b PROVE s[i] \in Records
    OBVIOUS
  <2>1. i \in 1 .. Len(s)
    BY LenProperties
  <2> QED BY <2>1, ElementOfSeq
<1>2. /\ u \in Seq(Records)
      /\ Len(u) = IF a + 1 <= b THEN b - (a + 1) + 1 ELSE 0
      /\ \A i \in 1 .. b - (a + 1) + 1 : u[i] = s[a + 1 + i - 1]
  BY <1>1, SubSeqProperties
<1> HIDE DEF u
<1>3. Len(u) = b - a /\ b - (a + 1) + 1 = b - a
  BY <1>2
<1>4. \A i \in 1 .. b - a : u[i] = s[a + i]
  <2> SUFFICES ASSUME NEW i \in 1 .. b - a PROVE u[i] = s[a + i]
    OBVIOUS
  <2>1. a + 1 + i - 1 = a + i
    OBVIOUS
  <2> QED BY <1>2, <1>3, <2>1
<1> QED BY <1>2, <1>3, <1>4 DEF u

LEMMA SubSeqPrefix ==
  ASSUME NEW s \in Seq(Records), NEW a \in Nat, NEW b \in Nat, NEW c \in Nat,
         a <= b, b <= c, c <= Len(s)
  PROVE  IsPrefix(SubSeq(s, a + 1, b), SubSeq(s, a + 1, c))
<1> DEFINE u == SubSeq(s, a + 1, b)
           w == SubSeq(s, a + 1, c)
           m == b - a
<1>1. m \in Nat /\ b <= Len(s) /\ m <= c - a
  BY LenProperties
<1>2. u \in Seq(Records) /\ Len(u) = m /\ \A i \in 1 .. m : u[i] = s[a + i]
  BY <1>1, SubSeqFacts
<1>3. w \in Seq(Records) /\ Len(w) = c - a /\ \A i \in 1 .. c - a : w[i] = s[a + i]
  BY SubSeqFacts
<1> HIDE DEF u, w
<1>4. m <= Len(w) /\ \A i \in 1 .. m : u[i] = w[i]
  BY <1>1, <1>2, <1>3
<1> HIDE DEF m
<1>5. SubSeq(u, 1, m) = SubSeq(w, 1, m)
  BY <1>1, <1>2, <1>3, <1>4
<1>6. IsPrefix(u, w)
  BY <1>2, <1>4, <1>5 DEF IsPrefix
<1> QED BY <1>6 DEF u, w

LEMMA JoinedSubSeqs ==
  ASSUME NEW s \in Seq(Records), NEW a \in Nat, NEW b \in Nat, NEW c \in Nat,
         a <= b, b <= c, c <= Len(s)
  PROVE  SubSeq(s, a + 1, b) \o SubSeq(s, b + 1, c) = SubSeq(s, a + 1, c)
<1>1. Len(s) \in Nat
  BY LenProperties
<1>2. a + 1 \in 1 .. Len(s) + 1 /\ b \in a + 1 - 1 .. Len(s) /\ c \in b .. Len(s)
  BY <1>1
<1> QED BY <1>2, ConcatAdjacentSubSeq

-----------------------------------------------------------------------------
(* What Page makes of a slice *)

\* Whatever was asked for, a page with a next one is full.
LEMMA PageIsFull ==
  ASSUME NEW u \in Seq(Records), NEW k \in Nat, sent.limit = k + 1
  PROVE  /\ Page(u).err = "" /\ Page(u).Users \in Seq(Records)
         /\ Page(u).NextPage \in BOOLEAN
         /\ Page(u).NextPage => Len(Page(u).Users) = k
<1>1. CASE Len(u) = k + 1
  <2>1. \A i \in 1..k : u[i] \in Records
    BY <1>1, ElementOfSeq
  <2>2. Front(u) \in Seq(Records) /\ Len(Front(u)) = k
    <3>1. /\ SubSeq(u, 1, k) \in Seq(Records)
          /\ Len(SubSeq(u, 1, k)) = IF 1 <= k THEN k - 1 + 1 ELSE 0
      BY <2>1, SubSeqProperties
    <3> QED BY <1>1, <3>1 DEF Front
  <2> QED BY <1>1, <2>2 DEF Page, Empty
<1>2. CASE Len(u) # k + 1
  BY <1>2 DEF Page, Empty
<1> QED BY <1>1, <1>2

\* Of k + 1 records from off on, the page is the first k, and there is a next
\* page if the records do not end with it.
LEMMA PageOfSlice ==
  ASSUME NEW s \in Seq(Records), NEW off \in Nat, off < Len(s), NEW k \in Nat,
         sent = [limit |-> k + 1, offset |-> off]
  PROVE  Page(Slice(s, sent)) =
           IF off + k < Len(s)
           THEN [err |-> "", Users |-> SubSeq(s, off + 1, off + k), NextPage |-> TRUE]
           ELSE [err |-> "", Users |-> SubSeq(s, off + 1, Len(s)), NextPage |-> FALSE]
<1> DEFINE n == Len(s)
           e == IF off + (k + 1) <= n THEN off + (k + 1) ELSE n
           u == SubSeq(s, off + 1, e)
<1>1. n \in Nat /\ e \in Nat /\ off < n /\ off + 1 <= e /\ e <= n
  BY LenProperties
<1>2. Slice(s, sent) = u
  <2>1. Min({off, n - 1}) = off
    BY <1>1, MinOfTwo
  <2>2. Min({off + (k + 1), n}) = e
    BY <1>1, MinOfTwo
  <2> QED BY <2>1, <2>2 DEF Slice
<1>3. u \in Seq(Records) /\ Len(u) = e - off
  <2>1. \A i \in off + 1 .. e : s[i] \in Records
    BY <1>1, ElementOfSeq
  <2>2. /\ u \in Seq(Records)
        /\ Len(u) = IF off + 1 <= e THEN e - (off + 1) + 1 ELSE 0
    BY <1>1, <2>1, SubSeqProperties
  <2> QED BY <1>1, <2>2
<1>4. CASE off + k < n
  <2>1. e = off + k + 1 /\ Len(u) = k + 1
    BY <1>1, <1>3, <1>4
  <2>2. Front(u) = SubSeq(s, off + 1, off + k)
    <3>1. CASE k = 0
      BY <1>1, <2>1, <3>1, SubSeqEmpty DEF Front
    <3>2. CASE k > 0
      <4>1. /\ off + 1 \in 1..n /\ e \in 1..n
            /\ 1 \in 1 .. e - (off + 1) + 1 /\ k \in 1 .. e - (off + 1) + 1
        BY <1>1, <2>1, <3>2
      <4>2. SubSeq(u, 1, k) = SubSeq(s, off + 1 + 1 - 1, off + 1 + k - 1)
        BY <4>1, SubSeqOfSubSeq
      <4> QED BY <2>1, <4>2 DEF Front
    <3> QED BY <3>1, <3>2
  <2>3. Page(Slice(s, sent)) = [err |-> "", Users |-> Front(u), NextPage |-> TRUE]
    <3> HIDE DEF u
    <3> QED BY <1>2, <2>1 DEF Page, Empty
  <2> QED BY <1>4, <2>2, <2>3
<1>5. CASE ~(off + k < n)
  <2>1. e = n /\ Len(u) # k + 1
    BY <1>1, <1>3, <1>5
  <2>2. Page(Slice(s, sent)) = [err |-> "", Users |-> u, NextPage |-> FALSE]
    <3> HIDE DEF u
    <3> QED BY <1>2, <2>1 DEF Page, Empty
  <2>3. u = SubSeq(s, off + 1, Len(s))
    BY <2>1
  <2> HIDE DEF u
  <2> QED BY <1>5, <2>2, <2>3
<1> QED BY <1>4, <1>5

\* From an offset behind the records on, the service has the last one only: no
\* page of somebody follows.
LEMMA PagePastEnd ==
  ASSUME NEW s \in Seq(Records), s # << >>, NEW off \in Nat, off >= Len(s), NEW k \in Nat \ {0},
         sent = [limit |-> k + 1, offset |-> off]
  PROVE  ~Page(Slice(s, sent)).NextPage
<1> DEFINE n == Len(s)
           u == SubSeq(s, n, n)
<1>1. n \in Nat \ {0}
  BY LenProperties, EmptySeq
<1>2. Slice(s, sent) = u
  <2>1. Min({off, n - 1}) = n - 1
    BY <1>1, MinOfTwo
  <2>2. Min({off + (k + 1), n}) = n
    BY <1>1, MinOfTwo
  <2>3. n - 1 + 1 = n
    BY <1>1
  <2> QED BY <2>1, <2>2, <2>3 DEF Slice
<1>3. Len(u) = 1
  <2>1. \A i \in n .. n : s[i] \in Records
    BY <1>1, ElementOfSeq
  <2>2. Len(u) = IF n <= n THEN n - n + 1 ELSE 0
    BY <1>1, <2>1, SubSeqProperties
  <2> QED BY <1>1, <2>2
<1>4. Len(u) # sent.limit
  <2> HIDE DEF u
  <2> QED BY <1>3
<1> HIDE DEF u
<1> QED BY <1>2, <1>4 DEF Page, Empty

\* A page of somebody that announces another is followed by one.
LEMMA PageLeadsOn ==
  ASSUME NEW s \in Seq(Records), s # << >>, NEW off \in Nat, NEW k \in Nat \ {0},
         sent = [limit |-> k + 1, offset |-> off], Page(Slice(s, sent)).NextPage
  PROVE  off + k < Len(s)
<1>1. off < Len(s)
  <2>1. Len(s) \in Nat
    BY LenProperties
  <2> QED BY <2>1, PagePastEnd
<1>2. PICK page : page = Page(Slice(s, sent))
  OBVIOUS
<1>3. ~(off + k < Len(s)) =>
        page = [err |-> "", Users |-> SubSeq(s, off + 1, Len(s)), NextPage |-> FALSE]
  BY <1>1, <1>2, PageOfSlice
<1>4. ~(off + k < Len(s)) => ~page.NextPage
  <2> SUFFICES ASSUME ~(off + k < Len(s)) PROVE ~page.NextPage
    OBVIOUS
  <2>1. page = [err |-> "", Users |-> SubSeq(s, off + 1, Len(s)), NextPage |-> FALSE]
    BY <1>3
  <2> QED BY <2>1
<1> QED BY <1>2, <1>4

\* A service that answers with users has cut them out of the records.
LEMMA SliceType ==
  ASSUME NEW s \in Seq(Records), s # << >>, NEW off \in Nat, NEW k \in Nat,
         sent = [limit |-> k + 1, offset |-> off]
  PROVE  Slice(s, sent) \in Seq(Records)
<1> DEFINE n == Len(s)
           a == IF off <= n - 1 THEN off ELSE n - 1
           b == IF off + (k + 1) <= n THEN off + (k + 1) ELSE n
<1>1. n \in Nat \ {0}
  BY LenProperties, EmptySeq
<1>2. a \in Nat /\ b \in Int /\ b <= n
  BY <1>1
<1>3. Slice(s, sent) = SubSeq(s, a + 1, b)
  <2>1. Min({off, n - 1}) = a
    BY <1>1, MinOfTwo
  <2>2. Min({off + (k + 1), n}) = b
    BY <1>1, MinOfTwo
  <2> QED BY <2>1, <2>2 DEF Slice
<1>4. \A i \in a + 1 .. b : s[i] \in Records
  <2> SUFFICES ASSUME NEW i \in a + 1 .. b PROVE s[i] \in Records
    OBVIOUS
  <2>1. i \in 1..Len(s)
    BY <1>2
  <2> QED BY <2>1, ElementOfSeq
<1>5. SubSeq(s, a + 1, b) \in Seq(Records)
  <2> HIDE DEF a, b
  <2> QED BY <1>2, <1>4, SubSeqProperties
<1> QED BY <1>3, <1>5

-----------------------------------------------------------------------------
(* The inductive invariant *)

InRange == start \in 0 .. Len(order) - 1
PageSize == IF ask.Limit <= MaxLimit THEN ask.Limit ELSE MaxLimit

TypeInv ==
  /\ order \in Seq(Records)
  /\ order = << >> => BadOrderField(ask)
  /\ ask \in [Limit : Limits, Offset : Int, Query : Queries,
              OrderField : OrderFields, OrderBy : OrderBys]
  /\ start \in Int
  /\ seen \in Seq(Records)
  /\ pc \in {"call", "sent", "answered", "returned", "done", "panic"}

Accepted == ask.Limit >= 0 /\ ask.Offset >= 0

SentInv ==
  pc \in {"sent", "answered"} =>
    Accepted /\ sent = [limit |-> PageSize + 1, offset |-> ask.Offset]

AnswerInv ==
  pc = "answered" =>
    /\ answer = [status |-> answer.status, users |-> answer.users, err |-> answer.err]
    /\ answer.status \in {200, 400, 401, 500}
    /\ answer.status = 200 /\ answer.err # "broken" =>
         order # << >> /\ answer.users = Slice(order, sent)

ThePage ==
  /\ Accepted
  /\ result.NextPage \in BOOLEAN
  /\ result.NextPage => Len(result.Users) = PageSize
  /\ result.NextPage /\ PageSize > 0 => ask.Offset + PageSize < Len(order)
  /\ ask.Offset < Len(order) =>
       IF ask.Offset + PageSize < Len(order)
       THEN /\ result.NextPage
            /\ result.Users = SubSeq(order, ask.Offset + 1, ask.Offset + PageSize)
       ELSE /\ ~result.NextPage
            /\ result.Users = SubSeq(order, ask.Offset + 1, Len(order))

ResultInv ==
  pc \in {"returned", "done"} =>
    /\ result.Users \in Seq(Records)
    /\ result.err = "" => ThePage
    /\ result.err # "" => result = [Empty EXCEPT !.err = result.err]

WalkInv ==
  /\ start < 0 => ask.Offset < 0
  /\ InRange =>
       /\ start <= ask.Offset /\ ask.Offset < Len(order)
       /\ IF pc = "done" /\ result.err = ""
          THEN seen = SubSeq(order, start + 1, Len(order))
          ELSE seen = SubSeq(order, start + 1, ask.Offset)

IInv == TypeInv /\ SentInv /\ AnswerInv /\ ResultInv /\ WalkInv

LEMMA PageSizeType ==
  ASSUME TypeInv
  PROVE  /\ ask.Limit \in Int /\ ask.Offset \in Int /\ PageSize \in Int /\ Len(order) \in Nat
         /\ ask.Limit >= 0 => PageSize \in Nat
         /\ Min({ask.Limit, MaxLimit}) = PageSize
<1>1. ask.Limit \in Int /\ ask.Offset \in Int /\ MaxLimit \in Nat \ {0}
  BY ArgumentsAssumption, SearchAssumption DEF TypeInv
<1>2. Min({ask.Limit, MaxLimit}) = PageSize
  BY <1>1, MinOfTwo DEF PageSize
<1>3. PageSize \in Int /\ (ask.Limit >= 0 => PageSize \in Nat)
  BY <1>1 DEF PageSize
<1>4. Len(order) \in Nat
  BY LenProperties DEF TypeInv
<1> QED BY <1>1, <1>2, <1>3, <1>4

LEMMA InitEstablishesIInv == Init => IInv
<1> SUFFICES ASSUME Init PROVE IInv
  OBVIOUS
<1>1. order \in Seq(Records) /\ (order = << >> => BadOrderField(ask))
  <2>1. CASE BadOrderField(ask)
    <3>1. order = << >>
      BY <2>1 DEF Init, Orders
    <3> QED BY <2>1, <3>1
  <2>2. CASE ~BadOrderField(ask)
    <3> DEFINE n == Cardinality(Records)
    <3>1. n \in Nat /\ n # 0
      BY SearchAssumption, FS_CardinalityType, FS_EmptySet
    <3>2. order \in [1..n -> Records]
      BY <2>2 DEF Init, Orders, AllOrders, SetToSeqs
    <3>3. order \in Seq(Records) /\ DOMAIN order = 1..n
      BY <3>1, <3>2, SeqDef
    <3>4. order # << >>
      BY <3>1, <3>3
    <3> QED BY <3>3, <3>4
  <2> QED BY <2>1, <2>2
<1>2. TypeInv
  BY <1>1, ArgumentsAssumption DEF Init, TypeInv
<1>3. WalkInv
  <2> SUFFICES ASSUME InRange PROVE WalkInv
    BY DEF WalkInv, Init
  <2>1. start = ask.Offset /\ pc = "call" /\ seen = << >> /\ start \in Int
    BY <1>2 DEF Init, TypeInv
  <2>2. SubSeq(order, start + 1, start) = << >>
    BY <2>1, SubSeqEmpty
  <2> QED BY <1>2, <2>1, <2>2, PageSizeType DEF WalkInv, InRange
<1> QED BY <1>2, <1>3 DEF Init, IInv, SentInv, AnswerInv, ResultInv

-----------------------------------------------------------------------------
(* The steps *)

LEMMA FindUsersPreservesIInv ==
  ASSUME IInv, FindUsers
  PROVE  IInv'
<1>1. /\ pc = "call" /\ ask' = ask /\ order' = order /\ start' = start /\ seen' = seen
      /\ answer' = answer
  BY DEF FindUsers
<1>2. TypeInv /\ PageSize' = PageSize /\ ask.Limit \in Int /\ ask.Offset \in Int
  BY <1>1, PageSizeType DEF IInv, PageSize
<1>3. \/ pc' = "returned" /\ result'.err # "" /\ result' = [Empty EXCEPT !.err = result'.err]
      \/ pc' = "panic"
      \/ pc' = "sent" /\ Accepted /\ sent' = [limit |-> PageSize + 1, offset |-> ask.Offset]
  BY <1>1, <1>2, PageSizeType DEF FindUsers, Fail, Return, Empty, Accepted
<1>4. TypeInv'
  BY <1>1, <1>2, <1>3 DEF TypeInv, BadOrderField
<1>5. SentInv' /\ AnswerInv'
  BY <1>1, <1>2, <1>3 DEF SentInv, AnswerInv, Accepted
<1>6. ResultInv'
  BY <1>3, NoUsers DEF ResultInv, Empty
<1>7. WalkInv'
  BY <1>1, <1>3 DEF IInv, WalkInv, InRange
<1> QED BY <1>4, <1>5, <1>6, <1>7 DEF IInv

LEMMA SearchServerPreservesIInv ==
  ASSUME IInv, SearchServer
  PROVE  IInv'
<1>1. /\ pc = "sent" /\ pc' = "answered" /\ ask' = ask /\ order' = order /\ start' = start
      /\ seen' = seen /\ sent' = sent
  BY DEF SearchServer, Respond
<1>2. TypeInv /\ PageSize' = PageSize
  BY <1>1 DEF IInv, PageSize
<1>3. AnswerInv'
  <2>1. \/ Respond(500, << >>, "") \/ Respond(400, << >>, "broken") \/ Respond(401, << >>, "")
        \/ Respond(200, << >>, "broken") \/ Respond(400, << >>, QueryError(ask, sent))
        \/ QueryError(ask, sent) = "" /\ Respond(200, Slice(order, sent), "")
    BY DEF SearchServer
  <2>2. /\ answer'.status \in {200, 400, 401, 500}
        /\ answer'.status = 200 /\ answer'.err # "broken" =>
             order # << >> /\ answer'.users = Slice(order, sent)
    <3>1. CASE QueryError(ask, sent) = "" /\ Respond(200, Slice(order, sent), "")
      <4>1. ~BadOrderField(ask)
        BY <3>1 DEF QueryError
      <4>2. order # << >>
        BY <1>2, <4>1 DEF TypeInv
      <4>3. answer' = [status |-> 200, users |-> Slice(order, sent), err |-> ""]
        BY <3>1 DEF Respond
      <4> QED BY <4>2, <4>3
    <3>2. CASE Respond(200, << >>, "broken")
      BY <3>2 DEF Respond
    <3>3. CASE Respond(500, << >>, "")
      <4>1. answer' = [status |-> 500, users |-> << >>, err |-> ""]
        BY <3>3 DEF Respond
      <4>2. answer'.status = 500
        BY <4>1
      <4> QED BY <4>2
    <3>4. CASE Respond(401, << >>, "")
      <4>1. answer' = [status |-> 401, users |-> << >>, err |-> ""]
        BY <3>4 DEF Respond
      <4>2. answer'.status = 401
        BY <4>1
      <4> QED BY <4>2
    <3>5. CASE Respond(400, << >>, "broken") \/ Respond(400, << >>, QueryError(ask, sent))
      BY <3>5 DEF Respond
    <3> QED BY <2>1, <3>1, <3>2, <3>3, <3>4, <3>5
  <2>3. Slice(order, sent)' = Slice(order, sent)
    BY <1>1 DEF Slice
  <2>4. answer' = [status |-> answer'.status, users |-> answer'.users, err |-> answer'.err]
    BY <2>1 DEF Respond
  <2> QED BY <1>1, <2>2, <2>3, <2>4 DEF AnswerInv
<1>4. TypeInv' /\ SentInv' /\ ResultInv' /\ WalkInv'
  BY <1>1, <1>2 DEF IInv, TypeInv, BadOrderField, SentInv, Accepted, ResultInv, WalkInv, InRange
<1> QED BY <1>3, <1>4 DEF IInv

\* A call that returns an error has no users and no next page.
LEMMA FailurePreservesIInv ==
  ASSUME IInv, NEW err, err # "", Fail(err), pc # "done", answer' \in {answer, NoAnswer},
         UNCHANGED <<order, token, ask, sent, start, seen>>
  PROVE  IInv'
<1>1. /\ pc' = "returned" /\ result' = [Empty EXCEPT !.err = err]
      /\ result'.err = err /\ result'.Users = << >>
  BY DEF Fail, Return, Empty
<1>2. ResultInv'
  BY <1>1, NoUsers DEF ResultInv
<1> QED BY <1>1, <1>2 DEF IInv, TypeInv, BadOrderField, SentInv, AnswerInv, WalkInv, InRange

LEMMA InterpretPreservesIInv ==
  ASSUME IInv, Interpret
  PROVE  IInv'
<1>1. /\ pc = "answered" /\ answer.status \in {200, 400, 401, 500}
      /\ UNCHANGED <<order, token, ask, sent, start, seen>> /\ answer' = NoAnswer
  BY DEF IInv, AnswerInv, Interpret
<1>2. CASE \E err \in {"Bad AccessToken", "SearchServer fatal error", "cant unpack error json",
                       "OrderFeld invalid", "unknown bad request error",
                       "cant unpack result json"} : Fail(err)
  BY <1>1, <1>2, FailurePreservesIInv
<1>3. CASE answer.status = 200 /\ answer.err # "broken" /\ Return(Page(answer.users))
  <2> DEFINE u == answer.users
             k == PageSize
             off == ask.Offset
  <2>1. /\ TypeInv /\ Accepted /\ order # << >> /\ u = Slice(order, sent)
        /\ sent = [limit |-> k + 1, offset |-> off]
    BY <1>1, <1>3 DEF IInv, SentInv, AnswerInv
  <2>2. order \in Seq(Records) /\ off \in Nat /\ k \in Nat /\ Len(order) \in Nat
    BY <2>1, PageSizeType DEF TypeInv, Accepted
  <2>3. u \in Seq(Records)
    BY <2>1, <2>2, SliceType
  <2>4. /\ Page(u).err = "" /\ Page(u).Users \in Seq(Records) /\ Page(u).NextPage \in BOOLEAN
        /\ Page(u).NextPage => Len(Page(u).Users) = k
    <3>1. sent.limit = k + 1
      BY <2>1
    <3> HIDE DEF u, k
    <3> QED BY <2>2, <2>3, <3>1, PageIsFull
  <2>5. result' = Page(u) /\ pc' = "returned"
    BY <1>3 DEF Return
  <2>6. ASSUME off < Len(order)
        PROVE  IF off + k < Len(order)
               THEN result'.NextPage /\ result'.Users = SubSeq(order, off + 1, off + k)
               ELSE ~result'.NextPage /\ result'.Users = SubSeq(order, off + 1, Len(order))
    <3>1. Page(u) =
            IF off + k < Len(order)
            THEN [err |-> "", Users |-> SubSeq(order, off + 1, off + k), NextPage |-> TRUE]
            ELSE [err |-> "", Users |-> SubSeq(order, off + 1, Len(order)), NextPage |-> FALSE]
      <4> HIDE DEF k, off
      <4> QED BY <2>1, <2>2, <2>6, PageOfSlice
    <3> HIDE DEF u, k, off
    <3>2. CASE off + k < Len(order)
      <4>1. result' = [err |-> "", Users |-> SubSeq(order, off + 1, off + k), NextPage |-> TRUE]
        BY <2>5, <3>1, <3>2
      <4> QED BY <3>2, <4>1
    <3>3. CASE ~(off + k < Len(order))
      <4>1. result' = [err |-> "", Users |-> SubSeq(order, off + 1, Len(order)), NextPage |-> FALSE]
        BY <2>5, <3>1, <3>3
      <4> QED BY <3>3, <4>1
    <3> QED BY <3>2, <3>3
  <2>6a. ASSUME Page(u).NextPage, k > 0 PROVE off + k < Len(order)
    <3>1. k \in Nat \ {0} /\ Page(Slice(order, sent)).NextPage
      BY <2>1, <2>2, <2>6a
    <3> HIDE DEF k, off
    <3> QED BY <2>1, <2>2, <3>1, PageLeadsOn
  <2>7. ThePage'
    <3>1. PageSize' = k /\ ask' = ask /\ order' = order
      BY <1>1 DEF PageSize
    <3> QED BY <2>1, <2>4, <2>5, <2>6, <2>6a, <3>1 DEF ThePage, Accepted
  <2>8. ResultInv'
    BY <2>4, <2>5, <2>7 DEF ResultInv
  <2> QED BY <1>1, <2>1, <2>5, <2>8 DEF IInv, TypeInv, BadOrderField, SentInv, AnswerInv,
             WalkInv, InRange
<1>4. CASE answer.status = 401
  BY <1>2, <1>4 DEF Interpret
<1>5. CASE answer.status = 500
  BY <1>2, <1>5 DEF Interpret
<1>6. CASE answer.status = 400
  BY <1>2, <1>6 DEF Interpret
<1>7. CASE answer.status = 200
  BY <1>2, <1>3, <1>7 DEF Interpret
<1> QED BY <1>1, <1>4, <1>5, <1>6, <1>7

LEMMA WalkPreservesIInv ==
  ASSUME IInv, Walk
  PROVE  IInv'
<1> DEFINE n == Len(order)
           off == ask.Offset
           k == PageSize
<1>1. /\ TypeInv /\ ResultInv /\ WalkInv /\ pc = "returned"
      /\ order' = order /\ start' = start /\ answer' = answer /\ sent' = sent
  BY DEF IInv, Walk
<1>2. /\ order \in Seq(Records) /\ n \in Nat /\ off \in Int /\ k \in Int /\ start \in Int
      /\ seen \in Seq(Records) /\ result.Users \in Seq(Records)
  BY <1>1, PageSizeType DEF TypeInv, ResultInv
<1>3. /\ result.err = "" => ThePage
      /\ result.err # "" => result.Users = << >> /\ ~result.NextPage
  BY <1>1 DEF ResultInv, Empty
<1>4. InRange => start <= off /\ off < n /\ start >= 0 /\ seen = SubSeq(order, start + 1, off)
  BY <1>1, <1>2 DEF WalkInv, InRange
<1>5. InRange' <=> InRange
  BY <1>1 DEF InRange
\* After a timeout the same page is asked for.
<1>6. CASE result.err = "timeout" /\ pc' = "call" /\ result' = Empty /\ UNCHANGED <<ask, seen>>
  <2>1. InRange => seen = SubSeq(order, start + 1, off)
    BY <1>4
  <2> QED BY <1>1, <1>4, <1>5, <1>6 DEF IInv, TypeInv, BadOrderField, SentInv, AnswerInv,
             ResultInv, WalkInv
\* The next page begins where this one ended.
<1>7. CASE /\ result.err = "" /\ result.NextPage
           /\ seen' = seen \o result.Users
           /\ ask' = [ask EXCEPT !.Offset = @ + Len(result.Users)]
           /\ pc' = "call" /\ result' = Empty
  <2>1. ThePage /\ k \in Nat /\ off \in Nat /\ Len(result.Users) = k
    <3>1. ThePage
      BY <1>3, <1>7
    <3>2. ask.Limit >= 0 /\ ask.Offset >= 0 /\ Len(result.Users) = PageSize
      BY <1>7, <3>1 DEF ThePage, Accepted
    <3> QED BY <1>1, <1>2, <3>1, <3>2, PageSizeType
  <2>2. /\ ask'.Offset = off + k /\ ask'.OrderField = ask.OrderField
        /\ ask' \in [Limit : Limits, Offset : Int, Query : Queries,
                     OrderField : OrderFields, OrderBy : OrderBys]
    <3>1. ask' = [ask EXCEPT !.Offset = ask.Offset + Len(result.Users)]
      BY <1>7
    <3>2. off + k \in Int /\ ask.Offset + Len(result.Users) = off + k
      BY <1>2, <2>1
    <3>3. ask' = [ask EXCEPT !.Offset = off + k]
      BY <3>1, <3>2
    <3> HIDE DEF k, off
    <3> QED BY <1>1, <3>2, <3>3 DEF TypeInv
  <2>3. TypeInv'
    <3>1. seen' \in Seq(Records)
      BY <1>2, <1>7, ConcatProperties
    <3> QED BY <1>1, <1>7, <2>2, <3>1 DEF TypeInv, BadOrderField
  <2>4. WalkInv'
    <3> SUFFICES ASSUME InRange
                 PROVE  /\ start <= off + k /\ off + k < n
                        /\ seen' = SubSeq(order, start + 1, off + k)
      <4>1. start < 0 => off < 0
        BY <1>1 DEF WalkInv
      <4>2. start' < 0 => ask'.Offset < 0
        BY <1>1, <1>2, <2>1, <4>1
      <4> QED BY <1>1, <1>5, <1>7, <2>2, <4>2 DEF WalkInv
    <3>1. off + k < n /\ result.Users = SubSeq(order, off + 1, off + k)
      BY <1>4, <1>7, <2>1 DEF ThePage
    <3>2. start \in Nat /\ start <= off /\ off <= off + k /\ off + k \in Nat /\ off + k <= n
      <4> HIDE DEF n, off, k
      <4> QED BY <1>2, <1>4, <2>1, <3>1
    <3>3. SubSeq(order, start + 1, off) \o SubSeq(order, off + 1, off + k)
            = SubSeq(order, start + 1, off + k)
      <4> HIDE DEF off, k
      <4> QED BY <1>2, <2>1, <3>2, JoinedSubSeqs
    <3>4. seen' = SubSeq(order, start + 1, off + k)
      BY <1>4, <1>7, <3>1, <3>3
    <3> HIDE DEF n, off, k
    <3> QED BY <1>2, <1>4, <2>1, <3>1, <3>4
  <2> QED BY <1>1, <1>7, <2>3, <2>4 DEF IInv, SentInv, AnswerInv, ResultInv
\* The walk is over: with the last page it has everything, or a call failed.
<1>8. CASE /\ ~result.NextPage /\ seen' = seen \o result.Users
           /\ pc' = "done" /\ UNCHANGED <<ask, result>>
  <2>1. TypeInv'
    <3>1. seen' \in Seq(Records)
      BY <1>2, <1>8, ConcatProperties
    <3> QED BY <1>1, <1>8, <3>1 DEF TypeInv, BadOrderField
  <2>2. ResultInv'
    <3>1. ThePage' <=> ThePage
      BY <1>1, <1>8 DEF ThePage, Accepted, PageSize
    <3> QED BY <1>1, <1>8, <3>1 DEF ResultInv
  <2>3. WalkInv'
    <3> SUFFICES ASSUME InRange
                 PROVE  seen' = IF result.err = "" THEN SubSeq(order, start + 1, n)
                                ELSE SubSeq(order, start + 1, off)
      BY <1>1, <1>4, <1>5, <1>8 DEF WalkInv
    <3>1. CASE result.err = ""
      <4>1. result.Users = SubSeq(order, off + 1, n)
        BY <1>3, <1>4, <1>8, <3>1 DEF ThePage
      <4>2. SubSeq(order, start + 1, off) \o SubSeq(order, off + 1, n) = SubSeq(order, start + 1, n)
        <5>1. start \in Nat /\ off \in Nat /\ start <= off /\ off <= n /\ n <= Len(order)
          BY <1>2, <1>4
        <5> HIDE DEF off
        <5> QED BY <1>2, <5>1, JoinedSubSeqs
      <4> QED BY <1>4, <1>8, <3>1, <4>1, <4>2
    <3>2. CASE result.err # ""
      <4>1. seen' = seen
        BY <1>2, <1>3, <1>8, <3>2, ConcatEmptySeq
      <4> QED BY <1>4, <3>2, <4>1
    <3> QED BY <3>1, <3>2
  <2> QED BY <1>8, <2>1, <2>2, <2>3 DEF IInv, SentInv, AnswerInv
<1> QED BY <1>1, <1>6, <1>7, <1>8 DEF Walk

LEMMA NextPreservesIInv == IInv /\ [Next]_vars => IInv'
<1> SUFFICES ASSUME IInv, [Next]_vars PROVE IInv'
  OBVIOUS
<1>1. CASE FindUsers
  BY <1>1, FindUsersPreservesIInv
<1>2. CASE SearchServer
  BY <1>2, SearchServerPreservesIInv
<1>3. CASE DoFails
  <2>1. pc # "done" /\ answer' = answer /\ UNCHANGED <<order, token, ask, sent, start, seen>>
        /\ (Fail("timeout") \/ Fail("unknown error"))
    BY <1>3 DEF DoFails
  <2> QED BY <2>1, FailurePreservesIInv
<1>3a. CASE BodyIsCut
  <2>1. /\ answer' = [status |-> answer.status, users |-> answer.users, err |-> "broken"]
        /\ answer.status \in {200, 400, 401, 500}
    BY <1>3a DEF BodyIsCut, IInv, AnswerInv
  <2>2. UNCHANGED <<order, ask, pc, sent, result, start, seen>>
    BY <1>3a DEF BodyIsCut
  <2>3. TypeInv' /\ SentInv' /\ WalkInv'
    BY <2>2 DEF IInv, TypeInv, BadOrderField, SentInv, PageSize, Accepted, WalkInv, InRange
  <2>4. AnswerInv'
    BY <2>1 DEF AnswerInv
  <2>5. ThePage' <=> ThePage
    BY <2>2 DEF ThePage, Accepted, PageSize
  <2>6. ResultInv'
    BY <2>2, <2>5 DEF IInv, ResultInv
  <2> QED BY <2>3, <2>4, <2>6 DEF IInv
<1>4. CASE Interpret
  BY <1>4, InterpretPreservesIInv
<1>5. CASE Walk
  BY <1>5, WalkPreservesIInv
<1>6. CASE UNCHANGED vars
  <2>1. TypeInv' /\ SentInv' /\ WalkInv'
    BY <1>6 DEF vars, IInv, TypeInv, BadOrderField, SentInv, PageSize, Accepted, WalkInv, InRange
  <2>2. AnswerInv'
    BY <1>6 DEF vars, IInv, AnswerInv, Slice
  <2>3. ThePage' <=> ThePage
    BY <1>6 DEF vars, ThePage, Accepted, PageSize
  <2>4. ResultInv'
    BY <1>6, <2>3 DEF vars, IInv, ResultInv
  <2> QED BY <2>1, <2>2, <2>4 DEF IInv
<1> QED BY <1>1, <1>2, <1>3, <1>3a, <1>4, <1>5, <1>6 DEF Next

LEMMA Invariance == Spec => []IInv
<1> QED BY InitEstablishesIInv, NextPreservesIInv, PTL DEF Spec

-----------------------------------------------------------------------------
(* The theorems *)

\* What a page of a walk within the records holds.
LEMMA PageWithinRecords ==
  ASSUME IInv, Good, start < Len(order)
  PROVE  /\ ask.Offset \in Nat /\ PageSize \in Nat /\ InRange /\ ask.Offset < Len(order)
         /\ IF ask.Offset + PageSize < Len(order)
            THEN result.NextPage /\ Len(result.Users) = PageSize
            ELSE ~result.NextPage /\ Len(result.Users) = Len(order) - ask.Offset
<1>1. TypeInv /\ ThePage /\ WalkInv /\ start \in Int
  BY DEF IInv, TypeInv, ResultInv, Good
<1>2. ask.Offset \in Nat /\ PageSize \in Nat /\ Len(order) \in Nat
  BY <1>1, PageSizeType DEF ThePage, Accepted
<1>3. InRange /\ ask.Offset < Len(order)
  <2>1. start < 0 => ask.Offset < 0
    BY <1>1 DEF WalkInv
  <2>2. start >= 0
    BY <1>1, <1>2, <2>1
  <2>3. InRange
    BY <1>1, <1>2, <2>2 DEF InRange
  <2> QED BY <1>1, <2>3 DEF WalkInv
<1>4. CASE ask.Offset + PageSize < Len(order)
  BY <1>1, <1>2, <1>3, <1>4 DEF ThePage
<1>5. CASE ~(ask.Offset + PageSize < Len(order))
  <2>1. ~result.NextPage /\ result.Users = SubSeq(order, ask.Offset + 1, Len(order))
    BY <1>1, <1>3, <1>5 DEF ThePage
  <2>2. order \in Seq(Records) /\ ask.Offset <= Len(order) /\ Len(order) <= Len(order)
    BY <1>1, <1>2, <1>3 DEF TypeInv
  <2>3. Len(SubSeq(order, ask.Offset + 1, Len(order))) = Len(order) - ask.Offset
    BY <1>2, <2>2, SubSeqFacts
  <2> QED BY <1>2, <1>3, <1>5, <2>1, <2>3
<1> QED BY <1>2, <1>3, <1>4, <1>5

\* FindUsers (client.go:67-135) tells of a next page exactly when the service
\* has records after the page, for any limit, cap and offset within the records.
THEOREM NextPageIsTrue == Spec => []NextPageIffMore
<1>1. IInv => NextPageIffMore
  <2> SUFFICES ASSUME IInv, Good, start < Len(order) PROVE result.NextPage <=> More
    BY DEF NextPageIffMore
  <2>1. Len(order) \in Nat
    BY LenProperties DEF IInv, TypeInv
  <2>2. CASE ask.Offset + PageSize < Len(order)
    BY <2>1, <2>2, PageWithinRecords DEF More
  <2>3. CASE ~(ask.Offset + PageSize < Len(order))
    BY <2>1, <2>3, PageWithinRecords DEF More
  <2> QED BY <2>2, <2>3
<1> QED BY <1>1, Invariance, PTL

\* A page of FindUsers that promises another (client.go:126-132) is full, and with
\* a limit of at least one the next page begins further on and within the records,
\* from whatever offset: no page is empty and none is asked for twice, so a walk has
\* no more pages than there are records.
THEOREM PagesLeadOn == Spec => []PagesAdvance
<1>1. IInv => PagesAdvance
  <2> SUFFICES ASSUME IInv, Good, result.NextPage
               PROVE  /\ Len(result.Users) = Min({ask.Limit, MaxLimit})
                      /\ ask.Limit > 0 =>
                           ask.Offset + Len(result.Users) \in ask.Offset + 1 .. Len(order) - 1
    BY DEF PagesAdvance
  <2>1. ThePage /\ TypeInv
    BY DEF IInv, ResultInv, Good
  <2>2. /\ ask.Offset \in Int /\ ask.Limit \in Int /\ PageSize \in Nat /\ Len(order) \in Nat
        /\ Min({ask.Limit, MaxLimit}) = PageSize
    BY <2>1, PageSizeType DEF ThePage, Accepted
  <2>3. Len(result.Users) = PageSize
    BY <2>1 DEF ThePage
  <2>4. ASSUME ask.Limit > 0 PROVE PageSize > 0 /\ ask.Offset + PageSize < Len(order)
    <3>1. PageSize > 0
      BY <2>2, <2>4, SearchAssumption DEF PageSize
    <3> QED BY <2>1, <3>1 DEF ThePage
  <2> QED BY <2>2, <2>3, <2>4
<1> QED BY <1>1, Invariance, PTL

\* A caller that follows NextPage collects the service's records from its first
\* offset on (client_test.go:223-234), each once and in order, whatever pages
\* time out and are asked for again.
THEOREM WalksCollect == Spec => []WalkCollectsOnce
<1>1. IInv => WalkCollectsOnce
  <2> DEFINE wanted == SubSeq(order, start + 1, Len(order))
  <2> SUFFICES ASSUME IInv, start \in 0 .. Len(order) - 1
               PROVE  /\ IsPrefix(seen, wanted)
                      /\ pc = "done" /\ result.err = "" => seen = wanted
    BY DEF WalkCollectsOnce
  <2>1. order \in Seq(Records) /\ Len(order) \in Nat /\ ask.Offset \in Int /\ InRange
    BY PageSizeType DEF IInv, TypeInv, InRange
  <2>2. start \in Nat /\ start <= Len(order)
    BY <2>1
  <2>3. start <= ask.Offset /\ ask.Offset < Len(order)
    BY <2>1 DEF IInv, WalkInv
  <2>4. /\ seen = wanted \/ seen = SubSeq(order, start + 1, ask.Offset)
        /\ pc = "done" /\ result.err = "" => seen = wanted
    BY <2>1 DEF IInv, WalkInv
  <2>5. ask.Offset \in Nat /\ ask.Offset <= Len(order) /\ Len(order) <= Len(order)
    BY <2>1, <2>2, <2>3
  <2>6. /\ IsPrefix(SubSeq(order, start + 1, ask.Offset), wanted)
        /\ IsPrefix(wanted, wanted)
    BY <2>1, <2>2, <2>3, <2>5, SubSeqPrefix
  <2> QED BY <2>4, <2>6
<1> QED BY <1>1, Invariance, PTL
=============================================================================
