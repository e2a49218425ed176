---------------------------- MODULE ExercisesProofs ----------------------------
(***************************************************************************)
(* Theorems about FastSearch, DirTree and I2s, the three small programs:   *)
(* two run against something that changes under them, one is called again  *)
(* and again on what it left behind.                                       *)
(*                                                                         *)
(* FastSearch, for any number of calls, any file and any behaviour of the  *)
(* garbage collector: a text in the pool has no line left as long as no    *)
(* call panicked, so that only the call that read the file goes through    *)
(* its lines; the invariant says what that call has printed and counted    *)
(* after each of them.                                                     *)
(*                                                                         *)
(* DirWalk, for any file system of any depth and any changes to it: the    *)
(* invariant says of every call of InspectDir that is under way what its   *)
(* names, its infos and its points account for, each part of the directory *)
(* being in exactly one of them until the call returns.                    *)
(*                                                                         *)
(* DirTree, on what that walk returned: the points are a tree listed in    *)
(* order, every directory before what is in it, so that the calls of       *)
(* StringifyPoints come to them one after the other as they are listed;    *)
(* the invariant says which directories are still being drawn.             *)
(*                                                                         *)
(* I2s, for data and types of any depth, with the equations that I2s gives *)
(* of the reference: the invariant says of every call of i2s_impl that is  *)
(* under way what it has written, which is what the reference says of the  *)
(* fields or elements before the one it is at, and that one is the call    *)
(* after it.                                                               *)
(***************************************************************************)
EXTENDS FastSearch, DirTree, I2s, FiniteSetTheorems, SequenceTheorems, TLAPS

(* FastSearch *)

SearchEntries == [n : Nat, ats : Nat]

SearchType ==
  /\ file \in Seq(Lines) /\ Len(file) > 0
  /\ searchPc \in [Searches -> {"get", "scan", "put", "done", "panic"}]
  /\ origin \in [Searches -> Searches \cup {NoText}]
  /\ data \in [Searches -> Seq(Lines)]
  /\ line \in [Searches -> Nat]
  /\ found \in [Searches -> Seq(SearchEntries)]
  /\ DOMAIN seen = Searches
  /\ crashed \in BOOLEAN
  /\ \A p \in pool : p.text \in Seq(Lines) /\ p.origin \in Searches

\* A text comes from a call that has begun.
OriginInv ==
  /\ \A p \in pool : searchPc[p.origin] # "get"
  /\ \A c \in Searches : origin[c] # NoText => searchPc[origin[c]] # "get"

\* Nothing is left to be searched in what a call that ended well puts back.
PoolInv == ~crashed => \A p \in pool : Len(p.text) = 1

\* A call that has not begun has done nothing; one that has begun has a text.
BeginInv ==
  \A c \in Searches :
    IF searchPc[c] = "get"
    THEN origin[c] = NoText /\ found[c] = << >> /\ seen[c] = {} /\ line[c] = 0
    ELSE origin[c] # NoText

\* A call that got its text from the pool finds no line in it and nobody, and
\* one that is about to put its text back or has done so has left no line in it.
UsedInv ==
  \A c \in Searches :
    /\ searchPc[c] # "get" /\ origin[c] # c =>
         line[c] = 0 /\ Len(data[c]) = 1 /\ found[c] = << >> /\ seen[c] = {}
    /\ searchPc[c] \in {"put", "done"} => Len(data[c]) = 1

\* A call that read the file works on the part of it that it has not read yet.
ReadsFile(c) == origin[c] = c /\ searchPc[c] # "panic"
RestInv ==
  \A c \in Searches : ReadsFile(c) =>
    /\ Len(data[c]) > 0 /\ line[c] + Len(data[c]) = Len(file)
    /\ \A k \in 1..Len(data[c]) : data[c][k] = file[line[c] + k]

\* What a call that read the file has done with the lines so far.
LineDone(u) == Decodes(u) /\ (IsFound(u) => u.ats > 0)
ReadInv ==
  \A c \in Searches : ReadsFile(c) =>
    /\ \A k \in 1..line[c] : LineDone(file[k])
    /\ seen[c] = UNION {Relevant(file[k]) : k \in 1..line[c]}
    /\ \A m \in DOMAIN found[c] :
         /\ found[c][m].n < line[c]
         /\ IsFound(file[found[c][m].n + 1])
         /\ found[c][m].ats = file[found[c][m].n + 1].ats - 1
    /\ \A k \in 1..line[c] : IsFound(file[k]) => \E m \in DOMAIN found[c] : found[c][m].n = k - 1
    /\ \A i, j \in DOMAIN found[c] : i < j => found[c][i].n < found[c][j].n

IInv == SearchType /\ OriginInv /\ PoolInv /\ BeginInv /\ UsedInv /\ RestInv /\ ReadInv

LEMMA InitIInv == SearchInit => IInv
<1> SUFFICES ASSUME SearchInit PROVE IInv
  OBVIOUS
<1>1. file \in Seq(Lines) /\ Len(file) > 0
  BY TextsAssumption DEF SearchInit
<1>2. << >> \in Seq(Lines) /\ << >> \in Seq(SearchEntries)
  OBVIOUS
<1>3. SearchType
  BY <1>1, <1>2 DEF SearchInit, SearchType
<1>4. OriginInv /\ PoolInv /\ BeginInv /\ UsedInv /\ RestInv /\ ReadInv
  BY SearchAssumption DEF SearchInit, OriginInv, PoolInv, BeginInv, UsedInv, RestInv, ReadInv, ReadsFile
<1> QED BY <1>3, <1>4 DEF IInv

\* What cutting a line off the front of a text leaves.
LEMMA CutLine ==
  ASSUME NEW s \in Seq(Lines), Len(s) > 1
  PROVE  /\ Head(s) = s[1] /\ s[1] \in Lines
         /\ Tail(s) \in Seq(Lines) /\ Len(Tail(s)) = Len(s) - 1
         /\ \A k \in 1..Len(s) - 1 : Tail(s)[k] = s[k + 1]
  OBVIOUS

\* The loop ends with one segment left.
LEMMA ShortText ==
  ASSUME NEW s \in Seq(Lines), Len(s) > 0, ~(Len(s) > 1)
  PROVE  Len(s) = 1
<1>1. Len(s) \in Nat
  BY LenProperties
<1>2. ASSUME NEW n \in Nat, n > 0, ~(n > 1) PROVE n = 1
  BY <1>2
<1> QED BY <1>1, <1>2

\* A step that leaves the texts, lines and results of all calls alone.
LEMMA SameWork ==
  ASSUME IInv, UNCHANGED <<file, locals>>, SearchType', PoolInv',
         \A p \in pool' : p \in pool \/ searchPc[p.origin] # "get",
         \A c \in Searches : \/ searchPc'[c] = searchPc[c]
                             \/ searchPc[c] # "get" /\ searchPc'[c] = "panic"
                             \/ /\ searchPc[c] \in {"scan", "put"}
                                /\ searchPc'[c] \in {"put", "done"}
                                /\ Len(data[c]) = 1
  PROVE  IInv'
<1>1. BeginInv' /\ UsedInv'
  BY DEF IInv, SearchType, BeginInv, UsedInv, locals
<1>2. ReadInv' /\ RestInv'
  BY DEF IInv, ReadInv, RestInv, ReadsFile, locals
<1>3. OriginInv'
  BY DEF IInv, SearchType, OriginInv, locals
<1> QED BY <1>1, <1>2, <1>3 DEF IInv

LEMMA GetNewKeeps == ASSUME IInv, NEW c \in Searches, GetNew(c) PROVE IInv'
<1> USE SearchAssumption DEF GetNew
<1>1. SearchType' /\ OriginInv' /\ PoolInv'
  BY DEF IInv, SearchType, OriginInv, PoolInv
<1>2. BeginInv' /\ UsedInv'
  BY DEF IInv, SearchType, BeginInv, UsedInv
<1>3. line[c] = 0 /\ found[c] = << >> /\ seen[c] = {}
  BY DEF IInv, BeginInv
<1>4. RestInv'
  <2>1. Len(file) \in Nat \ {0}
    BY DEF IInv, SearchType
  <2>2. /\ data'[c] = file /\ line'[c] = 0 /\ file' = file
        /\ \A d \in Searches \ {c} : /\ data'[d] = data[d] /\ line'[d] = line[d]
                                     /\ origin'[d] = origin[d] /\ searchPc'[d] = searchPc[d]
    BY <1>3 DEF IInv, SearchType
  <2>3. /\ Len(data'[c]) > 0 /\ line'[c] + Len(data'[c]) = Len(file')
        /\ \A k \in 1..Len(data'[c]) : data'[c][k] = file'[line'[c] + k]
    BY <2>1, <2>2
  <2> QED BY <2>2, <2>3 DEF IInv, RestInv, ReadsFile
<1>5. ReadInv'
  BY <1>3 DEF IInv, SearchType, ReadInv, ReadsFile
<1> QED BY <1>1, <1>2, <1>4, <1>5 DEF IInv

LEMMA GetPooledKeeps == ASSUME IInv, ~crashed, NEW c \in Searches, GetPooled(c) PROVE IInv'
<1>1. PICK p \in pool : /\ pool' = pool \ {p}
                        /\ origin' = [origin EXCEPT ![c] = p.origin]
                        /\ data' = [data EXCEPT ![c] = p.text]
  BY DEF GetPooled
<1>2. /\ p.text \in Seq(Lines) /\ Len(p.text) = 1 /\ p.origin \in Searches
      /\ p.origin # c /\ searchPc[p.origin] # "get" /\ searchPc[c] = "get"
  BY DEF GetPooled, IInv, SearchType, OriginInv, PoolInv
<1>3. SearchType' /\ OriginInv' /\ PoolInv'
  BY <1>1, <1>2 DEF GetPooled, IInv, SearchType, OriginInv, PoolInv
<1>4. BeginInv' /\ UsedInv'
  BY <1>1, <1>2, SearchAssumption DEF GetPooled, IInv, SearchType, BeginInv, UsedInv
<1>5. ReadInv' /\ RestInv'
  <2>1. \A d \in Searches :
          origin'[d] = d => /\ d # c /\ origin[d] = d /\ data'[d] = data[d]
                            /\ searchPc'[d] = searchPc[d]
    BY <1>1, <1>2 DEF GetPooled, IInv, SearchType
  <2>2. UNCHANGED <<file, line, found, seen>>
    BY DEF GetPooled
  <2> QED BY <2>1, <2>2 DEF IInv, ReadInv, RestInv, ReadsFile
<1> QED BY <1>3, <1>4, <1>5 DEF IInv

LEMMA ScanLineKeeps == ASSUME IInv, NEW c \in Searches, ScanLine(c) PROVE IInv'
<1> DEFINE u == Head(data[c])
           n == line[c]
<1>1. /\ searchPc[c] = "scan" /\ Len(data[c]) > 1 /\ Decodes(u) /\ (IsFound(u) => u.ats > 0)
      /\ seen' = [seen EXCEPT ![c] = @ \cup Relevant(u)]
      /\ found' = [found EXCEPT ![c] = IF IsFound(u) THEN Append(@, Entry(n, u.ats - 1)) ELSE @]
      /\ data' = [data EXCEPT ![c] = Tail(@)] /\ line' = [line EXCEPT ![c] = @ + 1]
      /\ UNCHANGED <<file, pool, searchPc, origin, crashed>>
  BY DEF ScanLine, HasLine, Counted
<1>2. data[c] \in Seq(Lines) /\ n \in Nat /\ found[c] \in Seq(SearchEntries)
  BY DEF IInv, SearchType
<1>3. searchPc[c] = "scan" /\ Len(data[c]) \in Nat /\ Len(data[c]) > 1 /\ Len(data[c]) # 1
  BY DEF ScanLine, HasLine, IInv, SearchType
<1>4. /\ u = data[c][1] /\ u \in Lines
      /\ Tail(data[c]) \in Seq(Lines) /\ Len(Tail(data[c])) = Len(data[c]) - 1
      /\ \A k \in 1..Len(data[c]) - 1 : Tail(data[c])[k] = data[c][k + 1]
  BY <1>1, <1>2, CutLine
<1>5. IsFound(u) => Entry(n, u.ats - 1) \in SearchEntries
  BY <1>1, <1>2, <1>4, LinesAssumption DEF Entry, SearchEntries
<1>6. SearchType'
  BY <1>1, <1>2, <1>4, <1>5 DEF IInv, SearchType
<1>7. OriginInv' /\ PoolInv'
  BY <1>1 DEF IInv, OriginInv, PoolInv
<1>8. origin[c] = c
  <2>1. searchPc[c] # "get" /\ origin[c] # c => Len(data[c]) = 1
    BY DEF IInv, UsedInv
  <2> QED BY <1>3, <2>1
<1>9. /\ n + Len(data[c]) = Len(file) /\ Len(data[c]) \in Nat /\ Len(data[c]) > 1
      /\ \A k \in 1..Len(data[c]) : data[c][k] = file[n + k]
  BY <1>8, <1>3 DEF IInv, RestInv, ReadsFile
<1>10. BeginInv' /\ UsedInv' /\ RestInv'
  <2>1. /\ data'[c] = Tail(data[c]) /\ line'[c] = n + 1
        /\ \A d \in Searches \ {c} : data'[d] = data[d] /\ line'[d] = line[d]
                                     /\ found'[d] = found[d] /\ seen'[d] = seen[d]
    BY <1>1 DEF IInv, SearchType
  <2>2. BeginInv' /\ UsedInv'
    BY <1>1, <1>8, <2>1 DEF IInv, BeginInv, UsedInv
  <2>3. line'[c] + Len(data'[c]) = Len(file) /\ Len(data'[c]) > 0
    BY <1>2, <1>4, <1>9, <2>1
  <2>4. ASSUME NEW k \in 1..Len(data'[c]) PROVE data'[c][k] = file[line'[c] + k]
    <3>1. k + 1 \in 1..Len(data[c]) /\ data'[c][k] = data[c][k + 1]
      BY <1>4, <1>9, <2>1
    <3>2. n + (k + 1) = line'[c] + k
      BY <1>2, <2>1
    <3> QED BY <1>9, <3>1, <3>2
  <2>5. RestInv'
    BY <1>1, <2>1, <2>3, <2>4 DEF IInv, RestInv, ReadsFile
  <2> QED BY <2>2, <2>5
<1>11. ReadInv'
  <2>0. \A d \in Searches \ {c} : line'[d] = line[d] /\ found'[d] = found[d] /\ seen'[d] = seen[d]
    BY <1>1 DEF IInv, SearchType
  <2>1. u = file[n + 1]
    BY <1>4, <1>9
  <2>2. line'[c] = n + 1 /\ seen'[c] = seen[c] \cup Relevant(u)
    BY <1>1 DEF IInv, SearchType
  <2> DEFINE e == Entry(n, u.ats - 1)
  <2>3. found'[c] = IF IsFound(u) THEN Append(found[c], e) ELSE found[c]
    BY <1>1 DEF IInv, SearchType
  <2>4. \A k \in 1..n + 1 : k \in 1..n \/ k = n + 1
    BY <1>2
  <2>5. \A k \in 1..line'[c] : LineDone(file[k])
    BY <1>1, <1>8, <1>3, <2>1, <2>2, <2>4 DEF IInv, ReadInv, ReadsFile, LineDone
  <2>6. seen'[c] = UNION {Relevant(file[k]) : k \in 1..line'[c]}
    <3>1. seen[c] = UNION {Relevant(file[k]) : k \in 1..n}
      BY <1>8, <1>3 DEF IInv, ReadInv, ReadsFile
    <3>2. 1..n + 1 = 1..n \cup {n + 1}
      BY <1>2
    <3> QED BY <2>1, <2>2, <3>1, <3>2
  <2>7. CASE ~IsFound(u)
    <3>1. found'[c] = found[c]
      BY <2>3, <2>7
    <3> HIDE DEF u
    <3>2. \A m \in DOMAIN found[c] : found[c][m] \in SearchEntries
      BY <1>2
    <3>3. \A k \in 1..line'[c] : IsFound(file[k]) => k \in 1..n
      BY <2>1, <2>2, <2>4, <2>7
    <3>4. \A m \in DOMAIN found[c] : found[c][m].n < line'[c]
      <4>1. \A m \in DOMAIN found[c] : found[c][m].n < n /\ found[c][m].n \in Nat
        BY <1>3, <1>8, <3>2 DEF IInv, ReadInv, ReadsFile, SearchEntries
      <4> QED BY <1>2, <2>2, <4>1
    <3>5. /\ \A m \in DOMAIN found[c] : /\ IsFound(file[found[c][m].n + 1])
                                       /\ found[c][m].ats = file[found[c][m].n + 1].ats - 1
          /\ \A k \in 1..line'[c] : IsFound(file[k]) =>
               \E m \in DOMAIN found[c] : found[c][m].n = k - 1
          /\ \A i, j \in DOMAIN found[c] : i < j => found[c][i].n < found[c][j].n
      BY <1>8, <1>3, <3>3 DEF IInv, ReadInv, ReadsFile
    <3>6. UNCHANGED <<file, origin, searchPc>>
      BY <1>1
    <3> QED BY <2>0, <2>5, <2>6, <3>1, <3>4, <3>5, <3>6 DEF IInv, ReadInv, ReadsFile
  <2>8. CASE IsFound(u)
    <3>1. /\ found'[c] = Append(found[c], e) /\ e.n = n /\ e.ats = u.ats - 1
          /\ DOMAIN found'[c] = 1..Len(found[c]) + 1 /\ DOMAIN found[c] = 1..Len(found[c])
          /\ \A m \in DOMAIN found[c] : found'[c][m] = found[c][m] /\ found[c][m] \in SearchEntries
          /\ found'[c][Len(found[c]) + 1] = e /\ Len(found[c]) \in Nat
      BY <1>2, <2>3, <2>8, <1>5 DEF Entry
    <3> HIDE DEF u, e
    <3>2. \A m \in DOMAIN found'[c] : m \in DOMAIN found[c] \/ m = Len(found[c]) + 1
      BY <3>1
    <3>3. \A m \in DOMAIN found[c] : found[c][m].n < n /\ found[c][m].n \in Nat
      BY <1>8, <1>3, <3>1 DEF IInv, ReadInv, ReadsFile, SearchEntries
    <3>4. \A m \in DOMAIN found'[c] :
            /\ found'[c][m].n < line'[c]
            /\ IsFound(file[found'[c][m].n + 1])
            /\ found'[c][m].ats = file[found'[c][m].n + 1].ats - 1
      <4> TAKE m \in DOMAIN found'[c]
      <4>1. CASE m \in DOMAIN found[c]
        <5>1. found'[c][m] = found[c][m] /\ found[c][m].n < n /\ found[c][m].n \in Nat
          BY <3>1, <3>3, <4>1
        <5>2. /\ IsFound(file[found[c][m].n + 1])
              /\ found[c][m].ats = file[found[c][m].n + 1].ats - 1
          BY <1>8, <1>3, <4>1 DEF IInv, ReadInv, ReadsFile
        <5> QED BY <1>2, <2>2, <5>1, <5>2
      <4>2. CASE m = Len(found[c]) + 1
        BY <1>2, <2>1, <2>2, <2>8, <3>1, <4>2
      <4> QED BY <3>2, <4>1, <4>2
    <3>5. \A k \in 1..line'[c] :
            IsFound(file[k]) => \E m \in DOMAIN found'[c] : found'[c][m].n = k - 1
      <4> SUFFICES ASSUME NEW k \in 1..line'[c], IsFound(file[k])
                   PROVE  \E m \in DOMAIN found'[c] : found'[c][m].n = k - 1
        OBVIOUS
      <4>1. CASE k \in 1..n
        <5>1. PICK m \in DOMAIN found[c] : found[c][m].n = k - 1
          BY <1>8, <1>3, <4>1 DEF IInv, ReadInv, ReadsFile
        <5> QED BY <3>1, <5>1
      <4>2. CASE k = n + 1
        <5>1. found'[c][Len(found[c]) + 1].n = k - 1 /\ Len(found[c]) + 1 \in DOMAIN found'[c]
          BY <1>2, <3>1, <4>2
        <5> QED BY <5>1
      <4> QED BY <2>2, <2>4, <4>1, <4>2
    <3>6. \A i, j \in DOMAIN found'[c] : i < j => found'[c][i].n < found'[c][j].n
      <4> SUFFICES ASSUME NEW i \in DOMAIN found'[c], NEW j \in DOMAIN found'[c], i < j
                   PROVE  found'[c][i].n < found'[c][j].n
        OBVIOUS
      <4>1. i \in DOMAIN found[c]
        BY <3>1, <3>2
      <4>2. CASE j \in DOMAIN found[c]
        BY <1>8, <1>3, <3>1, <4>1, <4>2 DEF IInv, ReadInv, ReadsFile
      <4>3. CASE j = Len(found[c]) + 1
        BY <3>1, <3>3, <4>1, <4>3
      <4> QED BY <3>2, <4>2, <4>3
    <3> QED BY <1>1, <2>0, <2>5, <2>6, <3>4, <3>5, <3>6 DEF IInv, ReadInv, ReadsFile
  <2> QED BY <2>7, <2>8
<1> QED BY <1>6, <1>7, <1>10, <1>11 DEF IInv

LEMMA PanicOnCutKeeps == ASSUME IInv, NEW c \in Searches, PanicOnCut(c) PROVE IInv'
<1>1. /\ searchPc[c] = "scan" /\ Len(data[c]) > 1 /\ crashed' = TRUE
      /\ searchPc' = [searchPc EXCEPT ![c] = "panic"] /\ data' = [data EXCEPT ![c] = Tail(@)]
      /\ UNCHANGED <<file, origin, line, found>> /\ DOMAIN seen' = DOMAIN seen
      /\ \A d \in Searches \ {c} : seen'[d] = seen[d]
      /\ pool' = pool \cup {[by |-> c, origin |-> origin[c], text |-> Tail(data[c])]}
  BY DEF PanicOnCut, HasLine, Pooled, IInv, SearchType
<1>2. Tail(data[c]) \in Seq(Lines) /\ origin[c] \in Searches /\ searchPc[origin[c]] # "get"
  BY <1>1, CutLine DEF IInv, SearchType, BeginInv, OriginInv
<1>3. SearchType' /\ PoolInv'
  <2> DEFINE put == [by |-> c, origin |-> origin[c], text |-> Tail(data[c])]
  <2>1. \A p \in pool' : p.text \in Seq(Lines) /\ p.origin \in Searches
    <3>1. put.text \in Seq(Lines) /\ put.origin \in Searches
      BY <1>2
    <3>2. \A p \in pool : p.text \in Seq(Lines) /\ p.origin \in Searches
      BY DEF IInv, SearchType
    <3>3. pool' = pool \cup {put}
      BY <1>1
    <3> HIDE DEF put
    <3> QED BY <3>1, <3>2, <3>3
  <2>2. data' \in [Searches -> Seq(Lines)]
    BY <1>1, <1>2 DEF IInv, SearchType
  <2> QED BY <1>1, <2>1, <2>2 DEF IInv, SearchType, PoolInv
<1>4. OriginInv'
  BY <1>1, <1>2 DEF IInv, SearchType, OriginInv
<1>5. \A d \in Searches \ {c} : data'[d] = data[d] /\ searchPc'[d] = searchPc[d]
  BY <1>1 DEF IInv, SearchType
<1>6. origin[c] = c /\ searchPc'[c] = "panic"
  <2>1. data[c] \in Seq(Lines) /\ Len(data[c]) # 1 /\ searchPc[c] # "get"
    BY <1>1 DEF IInv, SearchType
  <2> QED BY <1>1, <2>1 DEF IInv, SearchType, UsedInv
<1>7. BeginInv' /\ UsedInv'
  BY <1>1, <1>5, <1>6 DEF IInv, BeginInv, UsedInv
<1>8. RestInv' /\ ReadInv'
  BY <1>1, <1>5, <1>6 DEF IInv, ReadInv, RestInv, ReadsFile
<1> QED BY <1>3, <1>4, <1>7, <1>8 DEF IInv

LEMMA Induction == IInv /\ [SearchNext]_searchVars => IInv'
<1> SUFFICES ASSUME IInv, [SearchNext]_searchVars PROVE IInv'
  OBVIOUS
<1>1. CASE UNCHANGED searchVars
  <2>1. SearchType' /\ PoolInv'
    BY <1>1 DEF searchVars, locals, IInv, SearchType, PoolInv
  <2>2. UNCHANGED <<file, locals>> /\ searchPc' = searchPc /\ pool' = pool
    BY <1>1 DEF searchVars, locals
  <2> QED BY <2>1, <2>2, SameWork
<1>2. ASSUME ~crashed, Collect PROVE IInv'
  <2>1. SearchType' /\ PoolInv'
    BY <1>2 DEF Collect, locals, IInv, SearchType, PoolInv
  <2> QED BY <1>2, <2>1, SameWork DEF Collect
<1>3. ASSUME ~crashed, NEW c \in Searches, PanicOnDecode(c) PROVE IInv'
  <2>1. SearchType' /\ PoolInv'
    BY <1>3 DEF PanicOnDecode, Pooled, locals, IInv, SearchType, PoolInv, BeginInv
  <2>2. searchPc[c] # "get" /\ searchPc[origin[c]] # "get"
    BY <1>3 DEF PanicOnDecode, IInv, BeginInv, OriginInv
  <2>3. \A p \in pool' : p \in pool \/ searchPc[p.origin] # "get"
    BY <1>3, <2>2 DEF PanicOnDecode, Pooled
  <2>4. \A d \in Searches : searchPc'[d] = searchPc[d] \/ (d = c /\ searchPc'[d] = "panic")
    <3>1. searchPc' = [searchPc EXCEPT ![c] = "panic"] /\ DOMAIN searchPc = Searches
      BY <1>3 DEF PanicOnDecode, IInv, SearchType
    <3> QED BY <3>1
  <2> QED BY <1>3, <2>1, <2>2, <2>3, <2>4, SameWork DEF PanicOnDecode
<1>4. ASSUME ~crashed, NEW c \in Searches, PrintFound(c) PROVE IInv'
  <2>1. searchPc[c] = "scan" /\ data[c] \in Seq(Lines) /\ ~(Len(data[c]) > 1)
    BY <1>4 DEF PrintFound, HasLine, IInv, SearchType
  <2>2. Len(data[c]) = 1
    <3>1. CASE origin[c] = c
      <4>1. Len(data[c]) > 0
        BY <2>1, <3>1 DEF IInv, RestInv, ReadsFile
      <4> QED BY <2>1, <4>1, ShortText
    <3>2. CASE origin[c] # c
      BY <2>1, <3>2 DEF IInv, UsedInv
    <3> QED BY <3>1, <3>2
  <2>3. SearchType' /\ PoolInv'
    BY <1>4 DEF PrintFound, locals, IInv, SearchType, PoolInv
  <2>4. \A d \in Searches : searchPc'[d] = searchPc[d] \/ (d = c /\ searchPc'[d] = "put")
    <3>1. searchPc' = [searchPc EXCEPT ![c] = "put"] /\ DOMAIN searchPc = Searches
      BY <1>4 DEF PrintFound, IInv, SearchType
    <3> QED BY <3>1
  <2> QED BY <1>4, <2>1, <2>2, <2>3, <2>4, SameWork DEF PrintFound
<1>5. ASSUME ~crashed, NEW c \in Searches, PutText(c) PROVE IInv'
  <2>1. searchPc[c] = "put" /\ Len(data[c]) = 1 /\ origin[c] \in Searches
        /\ searchPc[origin[c]] # "get"
    BY <1>5 DEF PutText, IInv, SearchType, BeginInv, UsedInv, OriginInv
  <2>2. SearchType' /\ PoolInv'
    BY <1>5, <2>1 DEF PutText, Pooled, locals, IInv, SearchType, PoolInv
  <2>3. \A p \in pool' : p \in pool \/ searchPc[p.origin] # "get"
    BY <1>5, <2>1 DEF PutText, Pooled
  <2>4. \A d \in Searches : searchPc'[d] = searchPc[d] \/ (d = c /\ searchPc'[d] = "done")
    <3>1. searchPc' = [searchPc EXCEPT ![c] = "done"] /\ DOMAIN searchPc = Searches
      BY <1>5 DEF PutText, IInv, SearchType
    <3> QED BY <3>1
  <2> QED BY <1>5, <2>1, <2>2, <2>3, <2>4, SameWork DEF PutText
<1>6. ASSUME ~crashed, NEW c \in Searches, PanicOnCut(c) PROVE IInv'
  BY <1>6, PanicOnCutKeeps
<1> QED
  BY <1>1, <1>2, <1>3, <1>4, <1>5, <1>6, GetNewKeeps, GetPooledKeeps, ScanLineKeeps
     DEF SearchNext, SearchStep

LEMMA Invariance == SearchSpec => []IInv
  BY InitIInv, Induction, PTL DEF SearchSpec

\* How far the test's demand of main_test.go:28 is missed: whatever the file and
\* the order of calls, a call that gets its text from the pool prints nobody and
\* counts no browser, as the call before has put back a text without its lines
\* (fast.go:48-51, 68).
THEOREM PooledCallFindsNobody ==
  SearchSpec => [](\A c \in Searches : Printed(c) /\ origin[c] # c =>
                     found[c] = << >> /\ seen[c] = {})
<1>1. IInv => \A c \in Searches : Printed(c) /\ origin[c] # c => found[c] = << >> /\ seen[c] = {}
  BY DEF IInv, UsedInv, Printed
<1> QED BY <1>1, Invariance, PTL

\* A call that read the file prints, for any file and whatever other calls do,
\* the users SlowSearch finds in it up to the last line break, in their order,
\* and counts the same browsers (fast.go:56-103, common.go:45-110).
THEOREM PrintsReference == SearchSpec => []FreshCallPrintsReference
<1>1. IInv => FreshCallPrintsReference
  <2> SUFFICES ASSUME IInv, NEW c \in Searches, Printed(c), origin[c] = c
               PROVE  LET text == WithoutLast(file)
                      IN  /\ ~SlowPanics(text)
                          /\ {Entry(e.n, 0) : e \in Elements(found[c])} = SlowEntries(text)
                          /\ \A e \in Elements(found[c]) : e.ats = text[e.n + 1].ats - 1
                          /\ \A i, j \in DOMAIN found[c] : i < j => found[c][i].n < found[c][j].n
                          /\ seen[c] = SlowBrowsers(text)
    BY DEF FreshCallPrintsReference
  <2> DEFINE text == WithoutLast(file)
             n == line[c]
  <2>1. ReadsFile(c) /\ file \in Seq(Lines) /\ n \in Nat /\ found[c] \in Seq(SearchEntries)
    BY DEF Printed, ReadsFile, IInv, SearchType
  <2>2. n + 1 = Len(file)
    BY <2>1 DEF Printed, IInv, UsedInv, RestInv
  <2>3. DOMAIN text = 1..n /\ \A k \in 1..n : text[k] = file[k] /\ file[k] \in Lines
    BY <2>1, <2>2 DEF WithoutLast
  <2>4. \A k \in 1..n : LineDone(file[k])
    BY <2>1 DEF IInv, ReadInv
  <2>5. \A m \in DOMAIN found[c] :
          /\ found[c][m].n \in Nat /\ found[c][m].n + 1 \in 1..n
          /\ IsFound(text[found[c][m].n + 1])
          /\ found[c][m].ats = text[found[c][m].n + 1].ats - 1
    <3>1. \A m \in DOMAIN found[c] : found[c][m].n \in Nat /\ found[c][m].n < n
      <4>1. \A m \in DOMAIN found[c] : found[c][m] \in SearchEntries
        BY <2>1
      <4> QED BY <2>1, <4>1 DEF IInv, ReadInv, SearchEntries
    <3>2. \A m \in DOMAIN found[c] : found[c][m].n + 1 \in 1..n
      BY <2>1, <3>1
    <3> HIDE DEF text
    <3> QED BY <2>1, <2>3, <3>1, <3>2 DEF IInv, ReadInv
  <2>6. \A k \in 1..n : IsFound(text[k]) => \E m \in DOMAIN found[c] : found[c][m].n = k - 1
    BY <2>1, <2>3 DEF IInv, ReadInv
  <2> HIDE DEF text, n
  <2>7. ~SlowPanics(text)
    BY <2>3, <2>4, LinesAssumption DEF SlowPanics, LineDone, Decodes
  <2>8. {Entry(e.n, 0) : e \in Elements(found[c])} = SlowEntries(text)
    <3>1. ASSUME NEW m \in DOMAIN found[c] PROVE Entry(found[c][m].n, 0) \in SlowEntries(text)
      <4>1. (found[c][m].n + 1) - 1 = found[c][m].n
        BY <2>5
      <4> QED BY <2>3, <2>5, <4>1 DEF SlowEntries
    <3>2. ASSUME NEW k \in DOMAIN text, IsFound(text[k])
          PROVE  Entry(k - 1, 0) \in {Entry(e.n, 0) : e \in Elements(found[c])}
      BY <2>3, <2>6, <3>2 DEF Elements
    <3> QED BY <3>1, <3>2 DEF Elements, SlowEntries
  <2>9. \A e \in Elements(found[c]) : e.ats = text[e.n + 1].ats - 1
    BY <2>5 DEF Elements
  <2>10. seen[c] = SlowBrowsers(text)
    <3>1. seen[c] = UNION {Relevant(file[k]) : k \in 1..n}
      BY <2>1 DEF IInv, ReadInv, n
    <3> QED BY <2>3, <3>1 DEF SlowBrowsers
  <2>11. \A i, j \in DOMAIN found[c] : i < j => found[c][i].n < found[c][j].n
    BY <2>1 DEF IInv, ReadInv
  <2> QED BY <2>7, <2>8, <2>9, <2>10, <2>11 DEF text
<1> QED BY <1>1, Invariance, PTL

-----------------------------------------------------------------------------
(* DirWalk *)

Nodes == Changes \cup UNION {{tree[p] : p \in DOMAIN tree} : tree \in Trees}
Infos == [name : Names, node : Nodes]
Points == [path : Seq(Names), node : Nodes]
Frames == [path : Seq(Names), names : SUBSET Names, infos : Seq(Infos), points : Seq(Points)]

WalkType ==
  /\ IsTree(fs) /\ \A p \in DOMAIN fs : fs[p] \in Nodes
  /\ argc \in 1..4 /\ minusF \in BOOLEAN
  /\ walkPc \in {"start", "lstat", "readdir", "stat", "loop", "returned", "panic"}
  /\ stack \in Seq(Frames) /\ points \in Seq(Points)
  /\ stack = << >> <=> walkPc \in {"start", "returned", "panic"}

\* What has always been there is there; so was, all the time, what it is inside of.
HistoryInv ==
  /\ always \subseteq Entries(fs) /\ Entries(fs) \subseteq ever
  /\ \A e \in always : \A d \in 0..Len(e[1]) - 1 :
       <<SubSeq(e[1], 1, d), fs[SubSeq(e[1], 1, d)]>> \in always

\* A path that goes on from another one.
Under(path, p) == Len(path) < Len(p) /\ \A d \in 1..Len(path) : p[d] = path[d]

\* Each call is for the directory that is the first info its caller has left.
PathInv ==
  \A i \in DOMAIN stack :
    /\ Len(stack[i].path) = i - 1
    /\ i > 1 => LET caller == stack[i - 1]
                IN  /\ caller.infos # << >> /\ Head(caller.infos).node.kind = "dir"
                    /\ stack[i].path = Append(caller.path, Head(caller.infos).name)

\* An info was there once; what has always been there it shows as it is.
InfoOK(f, al, ev) ==
  \A j \in DOMAIN f.infos :
    LET path == Append(f.path, f.infos[j].name)
    IN  /\ <<path, f.infos[j].node>> \in ev
        /\ \A e \in al : e[1] = path => e[2] = f.infos[j].node

\* The points are of entries that were there once, below the frame's path, in order,
\* and before what is left in infos.
PointOK(f, ev, pf) ==
  \A k \in DOMAIN f.points :
    LET q == f.points[k]
    IN  /\ <<q.path, q.node>> \in ev /\ (q.node.kind = "dir" \/ pf)
        /\ Under(f.path, q.path)
        /\ \A j \in DOMAIN f.infos : Rank[q.path[Len(f.path) + 1]] < Rank[f.infos[j].name]
        /\ \A l \in DOMAIN f.points : k < l => Before(q.path, f.points[l].path)

\* What is left of the infos is sorted.
SortOK(f) == \A j, k \in DOMAIN f.infos : j < k => Rank[f.infos[j].name] < Rank[f.infos[k].name]

\* What has always been there below the frame's path is in a point, or its part of
\* the directory is still left in infos.
CoverOK(f, al, pf) ==
  \A e \in al : Under(f.path, e[1]) /\ (e[2].kind = "dir" \/ pf) =>
    \/ \E j \in DOMAIN f.infos : f.infos[j].name = e[1][Len(f.path) + 1]
    \/ \E k \in DOMAIN f.points : f.points[k] = Point(e[1], e[2])

\* What has always been there has its name still to be looked up, or an info.
StatOK(f, al) ==
  \A e \in al : Under(f.path, e[1]) =>
    \/ e[1][Len(f.path) + 1] \in f.names
    \/ \E j \in DOMAIN f.infos : f.infos[j].name = e[1][Len(f.path) + 1]

\* This holds of every call under way; the last two once its loop has begun.
FrameInv ==
  \A i \in DOMAIN stack :
    /\ InfoOK(stack[i], always, ever)
    /\ PointOK(stack[i], ever, PrintFiles)
    /\ i < Len(stack) \/ walkPc = "loop" => SortOK(stack[i]) /\ CoverOK(stack[i], always, PrintFiles)

\* The innermost call has no points before its loop, and loses no name in Readdir.
TopInv ==
  stack # << >> =>
    /\ walkPc # "loop" => Top.points = << >>
    /\ walkPc = "stat" => StatOK(Top, always)

\* The inductive invariant of the walk.
WalkInv == WalkType /\ HistoryInv /\ PathInv /\ FrameInv /\ TopInv

(* Paths *)

\* A name is below the directory it is in.
LEMMA UnderAppend ==
  ASSUME NEW path \in Seq(Names), NEW name \in Names
  PROVE  /\ Append(path, name) \in Seq(Names)
         /\ Len(Append(path, name)) = Len(path) + 1
         /\ Append(path, name)[Len(path) + 1] = name
         /\ Under(path, Append(path, name))
  BY AppendProperties DEF Under

\* What is below a child is below the directory, under the child's name.
LEMMA UnderChild ==
  ASSUME NEW path \in Seq(Names), NEW name \in Names, NEW p \in Seq(Names),
         Under(Append(path, name), p)
  PROVE  Under(path, p) /\ p[Len(path) + 1] = name
<1>1. /\ Len(Append(path, name)) = Len(path) + 1
      /\ Append(path, name)[Len(path) + 1] = name
      /\ \A d \in 1..Len(path) : Append(path, name)[d] = path[d]
  BY AppendProperties
<1>2. Len(path) \in Nat /\ Len(p) \in Nat
  BY LenProperties
<1> QED  BY <1>1, <1>2 DEF Under

\* Below is what IsStrictPrefix says, place by place.
LEMMA UnderStrict ==
  ASSUME NEW path \in Seq(Names), NEW p \in Seq(Names), Under(path, p)
  PROVE  IsStrictPrefix(path, p)
<1>1. Len(path) \in Nat /\ Len(p) \in Nat /\ Len(path) < Len(p)
  BY LenProperties DEF Under
<1>2. SubSeq(p, 1, Len(path)) = path
  <2>1. \A d \in 1..Len(path) : p[d] \in Names
    BY <1>1, ElementOfSeq
  <2>2. /\ SubSeq(p, 1, Len(path)) \in Seq(Names)
        /\ Len(SubSeq(p, 1, Len(path))) = Len(path)
        /\ \A d \in 1..Len(path) : SubSeq(p, 1, Len(path))[d] = p[d]
    BY <1>1, <2>1, SubSeqProperties
  <2> QED  BY <2>2, SeqEqual DEF Under
<1>3. SubSeq(path, 1, Len(path)) = path
  BY SubSeqFull
<1> QED  BY <1>1, <1>2, <1>3 DEF IsStrictPrefix, IsPrefix

\* A path below another one goes through a child of it.
LEMMA UnderStep ==
  ASSUME NEW path \in Seq(Names), NEW p \in Seq(Names), Under(path, p)
  PROVE  LET name  == p[Len(path) + 1]
             child == Append(path, name)
         IN  /\ name \in Names
             /\ Len(path) + 1 = Len(p) => p = child
             /\ Len(path) + 1 # Len(p) =>
                  /\ Under(child, p)
                  /\ SubSeq(p, 1, Len(path) + 1) = child
                  /\ Len(path) + 1 \in 0..Len(p) - 1
<1> DEFINE name == p[Len(path) + 1]
           child == Append(path, name)
<1>1. Len(path) \in Nat /\ Len(p) \in Nat /\ Len(path) < Len(p)
  BY LenProperties DEF Under
<1>2. name \in Names
  BY <1>1, ElementOfSeq
<1>3. /\ child \in Seq(Names) /\ Len(child) = Len(path) + 1
      /\ \A d \in 1..Len(path) + 1 : child[d] = p[d]
  BY <1>1, <1>2, AppendProperties DEF Under
<1>4. ASSUME Len(path) + 1 = Len(p) PROVE p = child
  BY <1>3, <1>4, SeqEqual
<1>5. ASSUME Len(path) + 1 # Len(p)
      PROVE  Under(child, p) /\ Len(path) + 1 \in 0..Len(p) - 1
  BY <1>1, <1>3, <1>5 DEF Under
<1>6. ASSUME Len(path) + 1 # Len(p)
      PROVE  SubSeq(p, 1, Len(path) + 1) = child
  <2>1. \A d \in 1..Len(path) + 1 : p[d] \in Names
    BY <1>1, ElementOfSeq
  <2>2. /\ SubSeq(p, 1, Len(path) + 1) \in Seq(Names)
        /\ Len(SubSeq(p, 1, Len(path) + 1)) = Len(path) + 1
        /\ \A d \in 1..Len(path) + 1 : SubSeq(p, 1, Len(path) + 1)[d] = p[d]
    <3> DEFINE n == Len(path) + 1
    <3>1. n \in Int /\ 1 \in Int /\ n - 1 + 1 = n /\ 1 <= n
      BY <1>1
    <3>2. \A d \in 1..n : p[d] \in Names
      BY <2>1
    <3> HIDE DEF n
    <3>3. /\ SubSeq(p, 1, n) \in Seq(Names)
          /\ Len(SubSeq(p, 1, n)) = IF 1 <= n THEN n - 1 + 1 ELSE 0
          /\ \A d \in 1..n - 1 + 1 : SubSeq(p, 1, n)[d] = p[1 + d - 1]
      BY <3>1, <3>2, SubSeqProperties
    <3>4. /\ SubSeq(p, 1, n) \in Seq(Names)
          /\ Len(SubSeq(p, 1, n)) = n
          /\ \A d \in 1..n : SubSeq(p, 1, n)[d] = p[d]
      BY <3>1, <3>3
    <3> QED  BY <3>4 DEF n
  <2> QED  BY <1>3, <2>2, SeqEqual
<1> QED  BY <1>2, <1>4, <1>5, <1>6

\* The entries of a tree are its graph.
LEMMA EntryFacts ==
  ASSUME NEW tree
  PROVE  /\ \A e \in Entries(tree) : e[1] \in DOMAIN tree /\ e[2] = tree[e[1]] /\ e = <<e[1], e[2]>>
         /\ \A p \in DOMAIN tree : <<p, tree[p]>> \in Entries(tree)
  BY DEF Entries

\* What was there all the time was in a directory that was there all the time.
LEMMA ChildStays ==
  ASSUME WalkType, HistoryInv, NEW path \in Seq(Names), NEW e \in always, Under(path, e[1])
  PROVE  LET child == Append(path, e[1][Len(path) + 1])
         IN  /\ e[1] \in Seq(Names) /\ e[1][Len(path) + 1] \in Names
             /\ child \in DOMAIN fs /\ <<child, fs[child]>> \in always
             /\ child = e[1] \/ (fs[child].kind = "dir" /\ Under(child, e[1]))
<1> DEFINE child == Append(path, e[1][Len(path) + 1])
<1>1. e[1] \in DOMAIN fs /\ e[2] = fs[e[1]] /\ e = <<e[1], e[2]>>
  BY EntryFacts DEF HistoryInv
<1>2. /\ e[1] \in Seq(Names)
      /\ \A d \in 0..Len(e[1]) - 1 :
           SubSeq(e[1], 1, d) \in DOMAIN fs /\ fs[SubSeq(e[1], 1, d)].kind = "dir"
  BY <1>1 DEF WalkType, IsTree
<1>3. /\ e[1][Len(path) + 1] \in Names
      /\ Len(path) + 1 = Len(e[1]) => e[1] = child
      /\ Len(path) + 1 # Len(e[1]) =>
           /\ Under(child, e[1])
           /\ SubSeq(e[1], 1, Len(path) + 1) = child
           /\ Len(path) + 1 \in 0..Len(e[1]) - 1
  BY <1>2, UnderStep
<1>4. CASE Len(path) + 1 = Len(e[1])
  BY <1>1, <1>2, <1>3, <1>4
<1>5. CASE Len(path) + 1 # Len(e[1])
  <2>1. /\ SubSeq(e[1], 1, Len(path) + 1) \in DOMAIN fs
        /\ fs[SubSeq(e[1], 1, Len(path) + 1)].kind = "dir"
    BY <1>2, <1>3, <1>5
  <2>2. <<SubSeq(e[1], 1, Len(path) + 1), fs[SubSeq(e[1], 1, Len(path) + 1)]>> \in always
    BY <1>3, <1>5 DEF HistoryInv
  <2> QED  BY <1>2, <1>3, <1>5, <2>1, <2>2
<1> QED  BY <1>4, <1>5

FrameOK(f, al, ev, pf) == InfoOK(f, al, ev) /\ PointOK(f, ev, pf)
Opened(f, al, pf) == SortOK(f) /\ CoverOK(f, al, pf)

\* What a frame has stays right when less was there all the time and more was ever there.
LEMMA FrameMonotone ==
  ASSUME NEW f, NEW al, NEW ev, NEW pf, NEW al2, NEW ev2,
         al2 \subseteq al, ev \subseteq ev2
  PROVE  /\ InfoOK(f, al, ev) => InfoOK(f, al2, ev2)
         /\ PointOK(f, ev, pf) => PointOK(f, ev2, pf)
         /\ CoverOK(f, al, pf) => CoverOK(f, al2, pf)
         /\ StatOK(f, al) => StatOK(f, al2)
<1>1. InfoOK(f, al, ev) => InfoOK(f, al2, ev2)
  BY DEF InfoOK
<1>2. PointOK(f, ev, pf) => PointOK(f, ev2, pf)
  BY DEF PointOK
<1>3. CoverOK(f, al, pf) => CoverOK(f, al2, pf)
  BY DEF CoverOK
<1>4. StatOK(f, al) => StatOK(f, al2)
  BY DEF StatOK
<1> QED  BY <1>1, <1>2, <1>3, <1>4

\* The stack as a function, and its last frame.
LEMMA StackFacts ==
  ASSUME WalkType, stack # << >>
  PROVE  /\ Len(stack) \in Nat \ {0} /\ DOMAIN stack = 1..Len(stack)
         /\ \A i \in DOMAIN stack : stack[i] \in Frames
         /\ Top = stack[Len(stack)] /\ Top \in Frames /\ Len(stack) \in DOMAIN stack
<1>1. stack \in Seq(Frames)
  BY DEF WalkType
<1>2. Len(stack) \in Nat \ {0} /\ DOMAIN stack = 1..Len(stack)
  BY <1>1, LenProperties, EmptySeq
<1>3. \A i \in DOMAIN stack : stack[i] \in Frames
  BY <1>1, <1>2, ElementOfSeq
<1>4. Top = stack[Len(stack)]
  BY DEF Top, Last
<1>5. Len(stack) \in DOMAIN stack
  BY <1>2
<1> QED  BY <1>2, <1>3, <1>4, <1>5

\* The top frame changes, but not its path.
LEMMA ReplaceTop ==
  ASSUME WalkType, stack # << >>, NEW new \in Frames, new.path = Top.path, SetTop(new)
  PROVE  /\ stack' \in Seq(Frames) /\ Len(stack') = Len(stack) /\ stack' # << >>
         /\ DOMAIN stack' = DOMAIN stack /\ Top' = new
         /\ \A i \in DOMAIN stack : stack'[i] = IF i = Len(stack) THEN new ELSE stack[i]
<1>1. /\ Len(stack) \in Nat \ {0} /\ DOMAIN stack = 1..Len(stack)
  BY StackFacts
<1>2. stack \in Seq(Frames) /\ stack' = [stack EXCEPT ![Len(stack)] = new]
  BY DEF WalkType, SetTop
<1>3. /\ stack' \in Seq(Frames) /\ Len(stack') = Len(stack)
      /\ \A i \in 1..Len(stack) : stack'[i] = IF i = Len(stack) THEN new ELSE stack[i]
  BY <1>1, <1>2, ExceptSeq
<1>4. stack' # << >> /\ DOMAIN stack' = DOMAIN stack
  <2>1. DOMAIN stack' = 1..Len(stack')
    BY <1>3, LenProperties
  <2> QED  BY <1>1, <1>3, <2>1
<1>5. Top' = new
  <2>1. Top' = stack'[Len(stack')]
    BY DEF Top, Last
  <2>2. Len(stack) \in 1..Len(stack)
    BY <1>1
  <2>3. stack'[Len(stack)] = new
    BY <1>3, <2>2
  <2> QED  BY <1>3, <2>1, <2>3
<1> QED  BY <1>1, <1>3, <1>4, <1>5

\* Then the calls are still for what their callers have first.
LEMMA ReplaceTopPath ==
  ASSUME WalkType, PathInv, stack # << >>, NEW new \in Frames, new.path = Top.path, SetTop(new)
  PROVE  PathInv'
<1>1. /\ Len(stack) \in Nat \ {0} /\ DOMAIN stack = 1..Len(stack)
      /\ Top = stack[Len(stack)]
  BY StackFacts
<1>2. /\ DOMAIN stack' = DOMAIN stack
      /\ \A i \in DOMAIN stack : stack'[i] = IF i = Len(stack) THEN new ELSE stack[i]
  BY ReplaceTop
<1> SUFFICES ASSUME NEW i \in DOMAIN stack
             PROVE  /\ Len(stack'[i].path) = i - 1
                    /\ i > 1 => LET caller == stack'[i - 1]
                                IN  /\ caller.infos # << >> /\ Head(caller.infos).node.kind = "dir"
                                    /\ stack'[i].path = Append(caller.path, Head(caller.infos).name)
  BY <1>2 DEF PathInv
<1>3. stack'[i].path = stack[i].path
  BY <1>1, <1>2
<1>4. i > 1 => stack'[i - 1] = stack[i - 1]
  BY <1>1, <1>2
<1> QED  BY <1>3, <1>4 DEF PathInv

\* Then every other frame stays right, and the new one is if it is made so.
LEMMA ReplaceTopFrame ==
  ASSUME WalkType, FrameInv, stack # << >>, NEW new \in Frames, new.path = Top.path, SetTop(new),
         UNCHANGED <<always, ever, argc, minusF>>,
         FrameOK(new, always, ever, PrintFiles),
         walkPc' = "loop" => Opened(new, always, PrintFiles),
         walkPc' # "loop" => new.points = << >>,
         walkPc' = "stat" => StatOK(new, always)
  PROVE  FrameInv' /\ TopInv'
<1>1. /\ Len(stack) \in Nat \ {0} /\ DOMAIN stack = 1..Len(stack)
  BY StackFacts
<1>2. /\ DOMAIN stack' = DOMAIN stack /\ Len(stack') = Len(stack) /\ Top' = new
      /\ \A i \in DOMAIN stack : stack'[i] = IF i = Len(stack) THEN new ELSE stack[i]
  BY ReplaceTop
<1>3. always' = always /\ ever' = ever /\ PrintFiles' = PrintFiles
  BY DEF PrintFiles
<1>4. TopInv'
  BY <1>2, <1>3 DEF TopInv
<1>5. FrameInv'
  <2> SUFFICES ASSUME NEW i \in DOMAIN stack
               PROVE  /\ InfoOK(stack'[i], always, ever)
                      /\ PointOK(stack'[i], ever, PrintFiles)
                      /\ i < Len(stack) \/ walkPc' = "loop" =>
                           SortOK(stack'[i]) /\ CoverOK(stack'[i], always, PrintFiles)
    BY <1>2, <1>3 DEF FrameInv
  <2>1. CASE i = Len(stack)
    BY <1>1, <1>2, <2>1 DEF FrameOK, Opened
  <2>2. CASE i # Len(stack)
    <3>1. stack'[i] = stack[i] /\ i < Len(stack)
      BY <1>1, <1>2, <2>2
    <3> QED  BY <3>1 DEF FrameInv
  <2> QED  BY <2>1, <2>2
<1> QED  BY <1>4, <1>5

\* A step that leaves the stack alone while the walk goes on.
LEMMA SameStack ==
  ASSUME PathInv, FrameInv, UNCHANGED <<stack, always, ever, argc, minusF>>,
         walkPc' = "loop" => walkPc = "loop"
  PROVE  PathInv' /\ FrameInv'
<1>1. PathInv'
  BY DEF PathInv
<1>2. PrintFiles' = PrintFiles
  BY DEF PrintFiles
<1>3. FrameInv'
  BY <1>2 DEF FrameInv
<1> QED  BY <1>1, <1>3

\* A step of the program leaves the history alone.
LEMMA SameHistory ==
  ASSUME HistoryInv, UNCHANGED <<fs, always, ever>>
  PROVE  HistoryInv'
BY DEF HistoryInv

\* A call that begins has nothing to be wrong about.
LEMMA FreshFrame ==
  ASSUME NEW path \in Seq(Names), NEW al, NEW ev, NEW pf
  PROVE  /\ Frame(path) \in Frames /\ Frame(path).path = path
         /\ Frame(path).points = << >> /\ FrameOK(Frame(path), al, ev, pf)
<1>1. << >> \in Seq(Infos) /\ << >> \in Seq(Points)
  BY EmptySeq
<1>2. Frame(path) \in Frames
  BY <1>1 DEF Frame, Frames
<1>3. DOMAIN << >> = {}
  OBVIOUS
<1>4. InfoOK(Frame(path), al, ev) /\ PointOK(Frame(path), ev, pf)
  BY <1>3 DEF Frame, InfoOK, PointOK
<1> QED  BY <1>2, <1>4 DEF Frame, FrameOK

(* The steps of main and InspectDir, one by one *)

\* main panics on a wrong number of arguments.
LEMMA UsageInv ==
  ASSUME WalkInv, Usage
  PROVE  WalkInv'
<1>1. WalkType' /\ TopInv'
  BY DEF WalkInv, WalkType, TopInv, Usage, Quiet
<1>2. PathInv' /\ FrameInv' /\ HistoryInv'
  BY SameStack, SameHistory DEF WalkInv, Usage, Quiet
<1> QED  BY <1>1, <1>2 DEF WalkInv

\* An error leaves no call under way.
LEMMA FailInv ==
  ASSUME WalkInv, Fail
  PROVE  WalkInv'
<1>1. << >> \in Seq(Frames) /\ DOMAIN << >> = {}
  BY EmptySeq
<1>2. WalkType'
  BY <1>1 DEF WalkInv, WalkType, Fail, Quiet
<1>3. PathInv' /\ FrameInv' /\ TopInv'
  BY <1>1 DEF Fail, PathInv, FrameInv, TopInv
<1> QED  BY <1>2, <1>3, SameHistory DEF WalkInv, Fail, Quiet

\* The first call is for the root.
LEMMA CallInv ==
  ASSUME WalkInv, CallInspectDir
  PROVE  WalkInv'
<1>1. Root \in Seq(Names) /\ Len(Root) = 0
  BY EmptySeq DEF Root
<1>2. /\ Frame(Root) \in Frames /\ Frame(Root).path = Root
      /\ Frame(Root).points = << >> /\ FrameOK(Frame(Root), always, ever, PrintFiles)
  BY <1>1, FreshFrame
<1>3. stack' = <<Frame(Root)>> /\ walkPc' = "lstat"
  BY DEF CallInspectDir
<1>4. stack' \in Seq(Frames) /\ stack' # << >> /\ Len(stack') = 1 /\ DOMAIN stack' = {1}
  BY <1>2, <1>3
<1>5. stack'[1] = Frame(Root) /\ Top' = Frame(Root)
  BY <1>3, <1>4 DEF Top, Last
<1>6. UNCHANGED <<fs, always, ever, argc, minusF, points>>
  BY DEF CallInspectDir, Quiet
<1>7. PrintFiles' = PrintFiles
  BY <1>6 DEF PrintFiles
<1>8. WalkType'
  BY <1>3, <1>4, <1>6 DEF WalkInv, WalkType
<1>9. PathInv'
  BY <1>1, <1>2, <1>4, <1>5 DEF PathInv
<1>10. FrameInv'
  BY <1>2, <1>3, <1>4, <1>5, <1>6, <1>7 DEF FrameInv, FrameOK
<1>11. TopInv'
  BY <1>2, <1>3, <1>5 DEF TopInv
<1> QED  BY <1>6, <1>8, <1>9, <1>10, <1>11, SameHistory DEF WalkInv

\* Lstat only looks.
LEMMA LstatInv ==
  ASSUME WalkInv, Lstat
  PROVE  WalkInv'
<1>1. UNCHANGED <<fs, stack, points, always, ever, argc, minusF>> /\ walkPc = "lstat" /\ walkPc' = "readdir"
  BY DEF Lstat, Quiet
<1>2. WalkType'
  BY <1>1 DEF WalkInv, WalkType
<1>3. TopInv'
  BY <1>1 DEF WalkInv, TopInv, Top
<1> QED  BY <1>1, <1>2, <1>3, SameStack, SameHistory DEF WalkInv

\* Readdir has the name of everything that has always been there.
LEMMA ReaddirInv ==
  ASSUME WalkInv, Readdir
  PROVE  WalkInv'
<1> DEFINE names == {name \in Names : Append(Top.path, name) \in DOMAIN fs}
           new == [Top EXCEPT !.names = names]
<1>1. /\ UNCHANGED <<fs, points, always, ever, argc, minusF>>
      /\ walkPc = "readdir" /\ walkPc' = "stat" /\ SetTop(new)
  BY DEF Readdir, Quiet
<1>2. stack # << >>
  BY <1>1 DEF WalkInv, WalkType
<1>3. Top \in Frames /\ Top = stack[Len(stack)] /\ Len(stack) \in DOMAIN stack
  BY <1>2, StackFacts DEF WalkInv
<1>4. /\ new \in Frames /\ new.path = Top.path /\ new.infos = Top.infos
      /\ new.points = Top.points /\ new.names = names
  BY <1>3 DEF Frames
<1>5. InfoOK(Top, always, ever) /\ PointOK(Top, ever, PrintFiles)
  BY <1>3 DEF WalkInv, FrameInv
<1>6. FrameOK(new, always, ever, PrintFiles)
  BY <1>4, <1>5 DEF FrameOK, InfoOK, PointOK
<1>7. StatOK(new, always)
  <2> SUFFICES ASSUME NEW e \in always, Under(Top.path, e[1])
               PROVE  e[1][Len(Top.path) + 1] \in names
    BY <1>4 DEF StatOK
  <2>1. Top.path \in Seq(Names)
    BY <1>3 DEF Frames
  <2>2. /\ e[1][Len(Top.path) + 1] \in Names
        /\ Append(Top.path, e[1][Len(Top.path) + 1]) \in DOMAIN fs
    BY <2>1, ChildStays DEF WalkInv
  <2> QED  BY <2>2
<1>8. Top.points = << >>
  BY <1>1, <1>2 DEF WalkInv, TopInv
<1> HIDE DEF new, names
<1>9. FrameInv' /\ TopInv' /\ PathInv'
  BY <1>1, <1>2, <1>4, <1>6, <1>7, <1>8, ReplaceTopFrame, ReplaceTopPath DEF WalkInv
<1>10. WalkType'
  <2>1. stack' \in Seq(Frames) /\ stack' # << >>
    BY <1>1, <1>2, <1>4, ReplaceTop DEF WalkInv
  <2> QED  BY <1>1, <2>1 DEF WalkInv, WalkType
<1> QED  BY <1>1, <1>9, <1>10, SameHistory DEF WalkInv

\* A name that is dropped was not there all the time.
LEMMA StatNameInv ==
  ASSUME WalkInv, StatName
  PROVE  WalkInv'
<1>1. PICK name \in Top.names :
        LET path == Append(Top.path, name)
        IN  SetTop([Top EXCEPT !.names = @ \ {name},
                               !.infos = IF path \in DOMAIN fs
                                         THEN Append(@, [name |-> name, node |-> fs[path]]) ELSE @])
  BY DEF StatName
<1> DEFINE path == Append(Top.path, name)
           info == [name |-> name, node |-> fs[path]]
           infos == IF path \in DOMAIN fs THEN Append(Top.infos, info) ELSE Top.infos
           new == [Top EXCEPT !.names = Top.names \ {name}, !.infos = infos]
<1>2. /\ UNCHANGED <<fs, points, always, ever, argc, minusF>>
      /\ walkPc = "stat" /\ walkPc' = "stat" /\ SetTop(new)
  BY <1>1 DEF StatName, Quiet
<1>3. stack # << >>
  BY <1>2 DEF WalkInv, WalkType
<1>4. Top \in Frames /\ Top = stack[Len(stack)] /\ Len(stack) \in DOMAIN stack
  BY <1>3, StackFacts DEF WalkInv
<1>5. /\ Top.path \in Seq(Names) /\ Top.infos \in Seq(Infos) /\ name \in Names
      /\ Top.points = << >>
  BY <1>2, <1>3, <1>4 DEF Frames, WalkInv, TopInv
<1>6. path \in DOMAIN fs => info \in Infos
  BY <1>5 DEF WalkInv, WalkType, Infos
<1>7. /\ DOMAIN Top.infos = 1..Len(Top.infos) /\ Len(Top.infos) \in Nat
  BY <1>5, LenProperties
<1>8. /\ infos \in Seq(Infos)
      /\ \A j \in DOMAIN Top.infos : j \in DOMAIN infos /\ infos[j] = Top.infos[j]
      /\ \A j \in DOMAIN infos : j \in DOMAIN Top.infos \/ (path \in DOMAIN fs /\ infos[j] = info)
      /\ path \in DOMAIN fs => \E j \in DOMAIN infos : infos[j] = info
  <2>1. CASE path \notin DOMAIN fs
    BY <1>5, <2>1
  <2>2. CASE path \in DOMAIN fs
    <3>1. info \in Infos /\ infos = Append(Top.infos, info)
      BY <1>6, <2>2
    <3> HIDE DEF info, infos
    <3>2. /\ infos \in Seq(Infos) /\ Len(infos) = Len(Top.infos) + 1
          /\ \A j \in 1..Len(Top.infos) : infos[j] = Top.infos[j]
          /\ infos[Len(Top.infos) + 1] = info
      BY <1>5, <3>1, AppendProperties
    <3>3. DOMAIN infos = 1..Len(Top.infos) + 1
      BY <3>2, LenProperties
    <3> QED  BY <1>7, <2>2, <3>2, <3>3
  <2> QED  BY <2>1, <2>2
<1> HIDE DEF infos
<1>9. /\ new \in Frames /\ new.path = Top.path /\ new.infos = infos
      /\ new.points = << >> /\ new.names = Top.names \ {name}
  BY <1>4, <1>5, <1>8 DEF Frames
<1>10. InfoOK(Top, always, ever) /\ StatOK(Top, always)
  BY <1>2, <1>3, <1>4 DEF WalkInv, FrameInv, TopInv
<1> HIDE DEF new
<1>11. path \in DOMAIN fs => /\ <<path, fs[path]>> \in ever
                             /\ \A e \in always : e[1] = path => e[2] = fs[path]
  BY EntryFacts DEF WalkInv, HistoryInv
<1>12. InfoOK(new, always, ever)
  <2> SUFFICES ASSUME NEW j \in DOMAIN infos
               PROVE  /\ <<Append(Top.path, infos[j].name), infos[j].node>> \in ever
                      /\ \A e \in always : e[1] = Append(Top.path, infos[j].name) => e[2] = infos[j].node
    BY <1>9 DEF InfoOK
  <2>1. CASE j \in DOMAIN Top.infos
    BY <1>8, <1>10, <2>1 DEF InfoOK
  <2>2. CASE path \in DOMAIN fs /\ infos[j] = info
    BY <1>11, <2>2
  <2> QED  BY <1>8, <2>1, <2>2
<1>13. PointOK(new, ever, PrintFiles)
  BY <1>9 DEF PointOK
<1>14. StatOK(new, always)
  <2> SUFFICES ASSUME NEW e \in always, Under(Top.path, e[1])
               PROVE  \/ e[1][Len(Top.path) + 1] \in Top.names \ {name}
                      \/ \E j \in DOMAIN infos : infos[j].name = e[1][Len(Top.path) + 1]
    BY <1>9 DEF StatOK
  <2>1. \/ e[1][Len(Top.path) + 1] \in Top.names
        \/ \E j \in DOMAIN Top.infos : Top.infos[j].name = e[1][Len(Top.path) + 1]
    BY <1>10 DEF StatOK
  <2>2. CASE e[1][Len(Top.path) + 1] = name
    <3>1. path \in DOMAIN fs
      BY <1>5, <2>2, ChildStays DEF WalkInv
    <3> QED  BY <1>8, <2>2, <3>1
  <2>3. CASE e[1][Len(Top.path) + 1] # name
    BY <1>8, <2>1, <2>3
  <2> QED  BY <2>2, <2>3
<1> HIDE DEF info, path
<1>15. FrameOK(new, always, ever, PrintFiles)
  BY <1>12, <1>13 DEF FrameOK
<1>16. FrameInv' /\ TopInv' /\ PathInv'
  BY <1>2, <1>3, <1>9, <1>14, <1>15, ReplaceTopFrame, ReplaceTopPath DEF WalkInv
<1>17. WalkType'
  <2>1. stack' \in Seq(Frames) /\ stack' # << >>
    BY <1>2, <1>3, <1>9, ReplaceTop DEF WalkInv
  <2> QED  BY <1>2, <2>1 DEF WalkInv, WalkType
<1> QED  BY <1>2, <1>16, <1>17, SameHistory DEF WalkInv

\* Sorting keeps the infos, and with no name left they cover the directory.
LEMMA SortFilesInv ==
  ASSUME WalkInv, SortFiles
  PROVE  WalkInv'
<1>1. PICK infos \in Sorted(Top.infos) : SetTop([Top EXCEPT !.infos = infos])
  BY DEF SortFiles
<1> DEFINE new == [Top EXCEPT !.infos = infos]
<1>2. /\ UNCHANGED <<fs, points, always, ever, argc, minusF>>
      /\ walkPc = "stat" /\ walkPc' = "loop" /\ SetTop(new) /\ Top.names = {}
  BY <1>1 DEF SortFiles, Quiet
<1>3. stack # << >>
  BY <1>2 DEF WalkInv, WalkType
<1>4. Top \in Frames /\ Top = stack[Len(stack)] /\ Len(stack) \in DOMAIN stack
  BY <1>3, StackFacts DEF WalkInv
<1>5. Top.path \in Seq(Names) /\ Top.infos \in Seq(Infos) /\ Top.points = << >>
  BY <1>2, <1>3, <1>4 DEF Frames, WalkInv, TopInv
<1>6. DOMAIN Top.infos = 1..Len(Top.infos) /\ Len(Top.infos) \in Nat
      /\ \A j \in DOMAIN Top.infos : Top.infos[j] \in Infos
  BY <1>5, LenProperties, ElementOfSeq
<1>7. /\ infos \in [DOMAIN Top.infos -> ToSet(Top.infos)]
      /\ ToSet(infos) = ToSet(Top.infos)
      /\ \A j, k \in DOMAIN infos : j < k => Rank[infos[j].name] < Rank[infos[k].name]
  BY <1>1 DEF Sorted
<1>8. /\ \A j \in DOMAIN infos : \E k \in DOMAIN Top.infos : infos[j] = Top.infos[k]
      /\ \A k \in DOMAIN Top.infos : \E j \in DOMAIN infos : infos[j] = Top.infos[k]
  BY <1>7 DEF ToSet
<1>9. infos \in Seq(Infos)
  <2>1. infos \in [1..Len(Top.infos) -> Infos]
    BY <1>6, <1>7, <1>8
  <2> QED  BY <1>6, <2>1, SeqDef
<1>10. /\ new \in Frames /\ new.path = Top.path /\ new.infos = infos
       /\ new.points = << >>
  BY <1>4, <1>5, <1>9 DEF Frames
<1>11. InfoOK(Top, always, ever) /\ StatOK(Top, always)
  BY <1>2, <1>3, <1>4 DEF WalkInv, FrameInv, TopInv
<1> HIDE DEF new
<1>12. InfoOK(new, always, ever)
  <2> SUFFICES ASSUME NEW j \in DOMAIN infos
               PROVE  /\ <<Append(Top.path, infos[j].name), infos[j].node>> \in ever
                      /\ \A e \in always : e[1] = Append(Top.path, infos[j].name) => e[2] = infos[j].node
    BY <1>10 DEF InfoOK
  <2>1. PICK k \in DOMAIN Top.infos : infos[j] = Top.infos[k]
    BY <1>8
  <2> QED  BY <1>11, <2>1 DEF InfoOK
<1>13. FrameOK(new, always, ever, PrintFiles)
  BY <1>10, <1>12 DEF FrameOK, PointOK
<1>14. SortOK(new)
  BY <1>7, <1>10 DEF SortOK
<1>15. CoverOK(new, always, PrintFiles)
  <2> SUFFICES ASSUME NEW e \in always, Under(Top.path, e[1])
               PROVE  \E j \in DOMAIN infos : infos[j].name = e[1][Len(Top.path) + 1]
    BY <1>10 DEF CoverOK
  <2>1. PICK k \in DOMAIN Top.infos : Top.infos[k].name = e[1][Len(Top.path) + 1]
    BY <1>2, <1>11 DEF StatOK
  <2> QED  BY <1>8, <2>1
<1>16. FrameInv' /\ TopInv' /\ PathInv'
  BY <1>2, <1>3, <1>10, <1>13, <1>14, <1>15, ReplaceTopFrame, ReplaceTopPath DEF WalkInv, Opened
<1>17. WalkType'
  <2>1. stack' \in Seq(Frames) /\ stack' # << >>
    BY <1>2, <1>3, <1>10, ReplaceTop DEF WalkInv
  <2> QED  BY <1>2, <2>1 DEF WalkInv, WalkType
<1> QED  BY <1>2, <1>16, <1>17, SameHistory DEF WalkInv

\* What follows an info in the list.
LEMMA TailFacts ==
  ASSUME NEW infos \in Seq(Infos), infos # << >>
  PROVE  /\ Tail(infos) \in Seq(Infos) /\ Head(infos) = infos[1] /\ Head(infos) \in Infos
         /\ 1 \in DOMAIN infos
         /\ \A j \in DOMAIN Tail(infos) :
              j + 1 \in DOMAIN infos /\ j \in Nat /\ 1 < j + 1 /\ Tail(infos)[j] = infos[j + 1]
         /\ \A j \in DOMAIN infos : j = 1 \/ \E k \in DOMAIN Tail(infos) : Tail(infos)[k] = infos[j]
<1>1. /\ Head(infos) \in Infos /\ Tail(infos) \in Seq(Infos)
      /\ Len(Tail(infos)) = Len(infos) - 1
      /\ \A i \in 1..Len(Tail(infos)) : Tail(infos)[i] = infos[i + 1]
  BY HeadTailProperties
<1>2. Len(infos) \in Nat \ {0} /\ DOMAIN infos = 1..Len(infos)
  BY LenProperties, EmptySeq
<1>3. DOMAIN Tail(infos) = 1..Len(infos) - 1
  BY <1>1, LenProperties
<1>4. Head(infos) = infos[1]
  OBVIOUS
<1>5. ASSUME NEW j \in DOMAIN infos, j # 1
      PROVE  \E k \in DOMAIN Tail(infos) : Tail(infos)[k] = infos[j]
  <2>1. j - 1 \in DOMAIN Tail(infos) /\ j - 1 + 1 = j
    BY <1>2, <1>3, <1>5
  <2> QED  BY <1>1, <1>3, <2>1
<1> QED  BY <1>1, <1>2, <1>3, <1>4, <1>5

\* The points of a concatenation.
LEMMA ConcatFacts ==
  ASSUME NEW listed \in Seq(Points), NEW more \in Seq(Points)
  PROVE  /\ listed \o more \in Seq(Points)
         /\ \A k \in DOMAIN (listed \o more) :
              \/ k \in DOMAIN listed /\ (listed \o more)[k] = listed[k]
              \/ k - Len(listed) \in DOMAIN more /\ (listed \o more)[k] = more[k - Len(listed)]
         /\ \A k \in DOMAIN listed :
              k \in DOMAIN (listed \o more) /\ (listed \o more)[k] = listed[k]
         /\ \A k \in DOMAIN more : \E l \in DOMAIN (listed \o more) : (listed \o more)[l] = more[k]
         /\ \A k \in DOMAIN listed : k \in Nat /\ k <= Len(listed)
         /\ Len(listed) \in Nat /\ DOMAIN (listed \o more) \subseteq Nat
         /\ \A k \in DOMAIN more : k \in Nat \ {0}
<1> DEFINE n == Len(listed)
           m == Len(more)
           both == listed \o more
<1>1. /\ n \in Nat /\ m \in Nat /\ DOMAIN listed = 1..n /\ DOMAIN more = 1..m
  BY LenProperties
<1>2. /\ both \in Seq(Points) /\ Len(both) = n + m
      /\ \A i \in 1..n + m : both[i] = IF i <= n THEN listed[i] ELSE more[i - n]
  BY ConcatProperties
<1>3. DOMAIN both = 1..n + m
  BY <1>2, LenProperties
<1> HIDE DEF n, m, both
<1>4. ASSUME NEW k \in DOMAIN both
      PROVE  \/ k \in DOMAIN listed /\ both[k] = listed[k]
             \/ k - n \in DOMAIN more /\ both[k] = more[k - n]
  BY <1>1, <1>2, <1>3
<1>5. ASSUME NEW k \in DOMAIN listed
      PROVE  k \in DOMAIN both /\ both[k] = listed[k] /\ k \in Nat /\ k <= n
  BY <1>1, <1>2, <1>3
<1>6. ASSUME NEW k \in DOMAIN more
      PROVE  k \in Nat \ {0} /\ \E l \in DOMAIN both : both[l] = more[k]
  <2> DEFINE i == k + n
  <2>1. i \in 1..n + m /\ ~(i <= n) /\ i - n = k /\ k \in Nat \ {0}
    BY <1>1, <1>6
  <2> HIDE DEF i
  <2>2. i \in DOMAIN both /\ both[i] = more[i - n]
    BY <1>2, <1>3, <2>1
  <2> QED  BY <2>1, <2>2
<1>7. both \in Seq(Points) /\ DOMAIN both \subseteq Nat /\ n \in Nat
  BY <1>1, <1>2, <1>3
<1>8. /\ \A k \in DOMAIN both : \/ k \in DOMAIN listed /\ both[k] = listed[k]
                                \/ k - n \in DOMAIN more /\ both[k] = more[k - n]
      /\ \A k \in DOMAIN listed : k \in DOMAIN both /\ both[k] = listed[k]
      /\ \A k \in DOMAIN listed : k \in Nat /\ k <= n
      /\ \A k \in DOMAIN more : \E l \in DOMAIN both : both[l] = more[k]
      /\ \A k \in DOMAIN more : k \in Nat \ {0}
  BY <1>4, <1>5, <1>6
<1> QED  BY <1>7, <1>8 DEF n, both

\* The points that stand for what is at a path and below it.
Gives(more, child, al, ev, pf) ==
  /\ \A k \in DOMAIN more :
       /\ <<more[k].path, more[k].node>> \in ev
       /\ more[k].node.kind = "dir" \/ pf
       /\ more[k].path = child \/ Under(child, more[k].path)
  /\ \A k, l \in DOMAIN more : k < l => Before(more[k].path, more[l].path)
  /\ \A e \in al : (e[1] = child \/ Under(child, e[1])) /\ (e[2].kind = "dir" \/ pf) =>
       \E k \in DOMAIN more : more[k] = Point(e[1], e[2])

\* The first info of a frame is done with: the points it gives are appended.
Pop(f, more) == [f EXCEPT !.infos = Tail(f.infos), !.points = f.points \o more]

LEMMA PopFrame ==
  ASSUME NEW al, NEW ev, NEW pf, NEW f \in Frames, f.infos # << >>,
         FrameOK(f, al, ev, pf), Opened(f, al, pf), NEW more \in Seq(Points),
         Gives(more, Append(f.path, Head(f.infos).name), al, ev, pf),
         \A e \in al : e[1] \in Seq(Names)
  PROVE  /\ Pop(f, more) \in Frames /\ Pop(f, more).path = f.path
         /\ FrameOK(Pop(f, more), al, ev, pf) /\ Opened(Pop(f, more), al, pf)
<1> DEFINE new == Pop(f, more)
           child == Append(f.path, Head(f.infos).name)
           h == Head(f.infos)
           rest == Tail(f.infos)
           all == f.points \o more
           deep == Len(f.path) + 1
<1>1. /\ f.path \in Seq(Names) /\ f.names \in SUBSET Names
      /\ f.infos \in Seq(Infos) /\ f.points \in Seq(Points)
  BY DEF Frames
<1>2. /\ rest \in Seq(Infos) /\ h = f.infos[1] /\ h \in Infos /\ 1 \in DOMAIN f.infos
      /\ \A j \in DOMAIN rest :
           j + 1 \in DOMAIN f.infos /\ j \in Nat /\ 1 < j + 1 /\ rest[j] = f.infos[j + 1]
      /\ \A j \in DOMAIN f.infos : j = 1 \/ \E k \in DOMAIN rest : rest[k] = f.infos[j]
  BY <1>1, TailFacts
<1>3. /\ all \in Seq(Points)
      /\ \A k \in DOMAIN all :
           \/ k \in DOMAIN f.points /\ all[k] = f.points[k]
           \/ k - Len(f.points) \in DOMAIN more /\ all[k] = more[k - Len(f.points)]
      /\ \A k \in DOMAIN f.points : k \in DOMAIN all /\ all[k] = f.points[k]
      /\ \A k \in DOMAIN more : \E l \in DOMAIN all : all[l] = more[k]
      /\ \A k \in DOMAIN f.points : k \in Nat /\ k <= Len(f.points)
      /\ Len(f.points) \in Nat /\ DOMAIN all \subseteq Nat
      /\ \A k \in DOMAIN more : k \in Nat \ {0}
  BY <1>1, ConcatFacts
<1> HIDE DEF all, rest
<1>0. Gives(more, child, al, ev, pf)
  OBVIOUS
<1>4. new = [f EXCEPT !.infos = rest, !.points = all]
  BY DEF rest, all, Pop
<1> HIDE DEF new
<1>5. /\ new \in Frames /\ new.path = f.path /\ new.infos = rest /\ new.points = all
  BY <1>1, <1>2, <1>3, <1>4 DEF Frames
<1>6. /\ InfoOK(f, al, ev) /\ PointOK(f, ev, pf) /\ SortOK(f) /\ CoverOK(f, al, pf)
  BY DEF FrameOK, Opened
<1>7. h.name \in Names /\ child = Append(f.path, h.name)
  BY <1>2 DEF Infos
<1> HIDE DEF child
<1>8. ASSUME NEW p \in Seq(Names), p = child \/ Under(child, p)
      PROVE  Under(f.path, p) /\ p[deep] = h.name
  <2>1. CASE p = child
    BY <1>1, <1>7, <2>1, UnderAppend
  <2>2. CASE Under(child, p)
    BY <1>1, <1>7, <2>2, UnderChild
  <2> QED  BY <1>8, <2>1, <2>2
<1>9. ASSUME NEW k \in DOMAIN more
      PROVE  more[k].path \in Seq(Names) /\ Under(f.path, more[k].path) /\ more[k].path[deep] = h.name
  <2>1. more[k] \in Points
    BY LenProperties, ElementOfSeq
  <2>2. more[k].path \in Seq(Names)
    BY <2>1 DEF Points
  <2> QED  BY <1>0, <1>8, <2>2 DEF Gives
<1>10. ASSUME NEW j \in DOMAIN rest
       PROVE  Rank[h.name] < Rank[rest[j].name] /\ \E i \in DOMAIN f.infos : rest[j] = f.infos[i]
  BY <1>2, <1>6 DEF SortOK
<1>11. InfoOK(new, al, ev)
  <2> SUFFICES ASSUME NEW j \in DOMAIN rest
               PROVE  /\ <<Append(f.path, rest[j].name), rest[j].node>> \in ev
                      /\ \A e \in al : e[1] = Append(f.path, rest[j].name) => e[2] = rest[j].node
    BY <1>5 DEF InfoOK
  <2>1. PICK i \in DOMAIN f.infos : rest[j] = f.infos[i]
    BY <1>10
  <2> QED  BY <1>6, <2>1 DEF InfoOK
<1>12. SortOK(new)
  <2> SUFFICES ASSUME NEW j \in DOMAIN rest, NEW k \in DOMAIN rest, j < k
               PROVE  Rank[rest[j].name] < Rank[rest[k].name]
    BY <1>5 DEF SortOK
  <2>1. j + 1 < k + 1
    BY <1>2
  <2> QED  BY <1>2, <1>6, <2>1 DEF SortOK
<1>13. CoverOK(new, al, pf)
  <2> SUFFICES ASSUME NEW e \in al, Under(f.path, e[1]), e[2].kind = "dir" \/ pf
               PROVE  \/ \E j \in DOMAIN rest : rest[j].name = e[1][deep]
                      \/ \E k \in DOMAIN all : all[k] = Point(e[1], e[2])
    BY <1>5 DEF CoverOK
  <2>1. \/ \E j \in DOMAIN f.infos : f.infos[j].name = e[1][deep]
        \/ \E k \in DOMAIN f.points : f.points[k] = Point(e[1], e[2])
    BY <1>6 DEF CoverOK
  <2>2. CASE \E k \in DOMAIN f.points : f.points[k] = Point(e[1], e[2])
    BY <1>3, <2>2
  <2>3. CASE e[1][deep] = h.name
    <3>1. e[1] = child \/ Under(child, e[1])
      <4>1. e[1] \in Seq(Names)
        OBVIOUS
      <4> QED  BY <1>1, <1>7, <2>3, <4>1, UnderStep
    <3>2. PICK k \in DOMAIN more : more[k] = Point(e[1], e[2])
      BY <1>0, <3>1 DEF Gives
    <3> QED  BY <1>3, <3>2
  <2>4. ASSUME NEW j \in DOMAIN f.infos, f.infos[j].name = e[1][deep], e[1][deep] # h.name
        PROVE  \E k \in DOMAIN rest : rest[k].name = e[1][deep]
    BY <1>2, <2>4
  <2> QED  BY <2>1, <2>2, <2>3, <2>4
<1>14. ASSUME NEW k \in DOMAIN all
       PROVE  /\ <<all[k].path, all[k].node>> \in ev /\ (all[k].node.kind = "dir" \/ pf)
              /\ Under(f.path, all[k].path)
              /\ \A j \in DOMAIN rest : Rank[all[k].path[deep]] < Rank[rest[j].name]
  <2>1. CASE k \in DOMAIN f.points /\ all[k] = f.points[k]
    BY <1>6, <1>10, <2>1 DEF PointOK
  <2>2. CASE k - Len(f.points) \in DOMAIN more /\ all[k] = more[k - Len(f.points)]
    BY <1>0, <1>9, <1>10, <2>2 DEF Gives
  <2> QED  BY <1>3, <2>1, <2>2
<1>15. ASSUME NEW k \in DOMAIN all, NEW l \in DOMAIN all, k < l
       PROVE  Before(all[k].path, all[l].path)
  <2> DEFINE n == Len(f.points)
  <2>1. CASE l \in DOMAIN f.points /\ all[l] = f.points[l]
    <3>1. k \in DOMAIN f.points /\ all[k] = f.points[k]
      BY <1>3, <1>15, <2>1
    <3> QED  BY <1>6, <1>15, <2>1, <3>1 DEF PointOK
  <2>2. CASE l - n \in DOMAIN more /\ all[l] = more[l - n]
    <3>1. CASE k - n \in DOMAIN more /\ all[k] = more[k - n]
      <4>1. k - n < l - n
        BY <1>3, <1>15
      <4> QED  BY <1>0, <2>2, <3>1, <4>1 DEF Gives
    <3>2. CASE k \in DOMAIN f.points /\ all[k] = f.points[k]
      <4> DEFINE p == all[k].path
                 q == all[l].path
      <4>1. /\ q \in Seq(Names) /\ Under(f.path, q) /\ q[deep] = h.name
        BY <1>9, <2>2
      <4>2. /\ Under(f.path, p) /\ Rank[p[deep]] < Rank[h.name]
        BY <1>2, <1>6, <3>2 DEF PointOK
      <4>3. p \in Seq(Names)
        <5>1. f.points[k] \in Points
          BY <1>1, <3>2, LenProperties, ElementOfSeq
        <5> QED  BY <3>2, <5>1 DEF Points
      <4>4. Len(f.path) \in Nat /\ DOMAIN p = 1..Len(p) /\ DOMAIN q = 1..Len(q) /\ Len(p) \in Nat /\ Len(q) \in Nat
        BY <1>1, <4>1, <4>3, LenProperties
      <4>5. deep \in DOMAIN p \cap DOMAIN q /\ \A c \in 1..deep - 1 : p[c] = q[c]
        BY <4>1, <4>2, <4>4 DEF Under
      <4> QED  BY <4>1, <4>2, <4>5 DEF Before
    <3> QED  BY <1>3, <3>1, <3>2
  <2> QED  BY <1>3, <2>1, <2>2
<1>16. PointOK(new, ev, pf)
  BY <1>5, <1>14, <1>15 DEF PointOK
<1> QED  BY <1>5, <1>11, <1>12, <1>13, <1>16 DEF FrameOK, Opened, new

\* What has always been there is there.
LEMMA PathsThere ==
  ASSUME WalkType, HistoryInv
  PROVE  \A e \in always : e[1] \in Seq(Names) /\ e[1] \in DOMAIN fs /\ e[2] = fs[e[1]]
                           /\ e = <<e[1], e[2]>>
BY EntryFacts DEF WalkType, IsTree, HistoryInv

\* A file is one point or, if files are not asked for, nothing that is shown; nothing
\* that has always been there is below it.
LEMMA TakeFileInv ==
  ASSUME WalkInv, TakeFile
  PROVE  WalkInv'
<1> DEFINE child == Append(Top.path, NextInfo.name)
           more == IF PrintFiles THEN <<Point(child, NextInfo.node)>> ELSE << >>
           new == Pop(Top, more)
<1>1. /\ UNCHANGED <<fs, points, always, ever, argc, minusF>>
      /\ walkPc = "loop" /\ walkPc' = "loop" /\ Top.infos # << >> /\ NextInfo.node.kind # "dir"
      /\ SetTop([Top EXCEPT !.infos = Tail(@), !.points = WithFile(@, child, NextInfo.node)])
  BY DEF TakeFile, Quiet
<1>2. stack # << >>
  BY <1>1 DEF WalkInv, WalkType
<1>3. Top \in Frames /\ Top = stack[Len(stack)] /\ Len(stack) \in DOMAIN stack
  BY <1>2, StackFacts DEF WalkInv
<1>4. Top.path \in Seq(Names) /\ Top.infos \in Seq(Infos) /\ Top.points \in Seq(Points)
  BY <1>3 DEF Frames
<1>5. NextInfo \in Infos /\ NextInfo = Top.infos[1] /\ 1 \in DOMAIN Top.infos
  BY <1>1, <1>4, TailFacts DEF NextInfo
<1>6. child \in Seq(Names) /\ Point(child, NextInfo.node) \in Points
  BY <1>4, <1>5, UnderAppend DEF Infos, Points, Point
<1>7. more \in Seq(Points) /\ WithFile(Top.points, child, NextInfo.node) = Top.points \o more
  <2>1. CASE PrintFiles
    BY <1>4, <1>6, <2>1, AppendIsConcat DEF WithFile
  <2>2. CASE ~PrintFiles
    BY <1>4, <2>2, EmptySeq, ConcatEmptySeq DEF WithFile
  <2> QED  BY <2>1, <2>2
<1>8. SetTop(new)
  BY <1>1, <1>7 DEF Pop
<1>9. FrameOK(Top, always, ever, PrintFiles) /\ Opened(Top, always, PrintFiles)
  BY <1>1, <1>3 DEF WalkInv, FrameInv, FrameOK, Opened
<1>10. \A k \in DOMAIN more : PrintFiles /\ k = 1 /\ more[k] = Point(child, NextInfo.node)
  OBVIOUS
<1>11. PrintFiles => 1 \in DOMAIN more /\ more[1] = Point(child, NextInfo.node)
  OBVIOUS
<1> HIDE DEF more
<1>12. \A k \in DOMAIN more :
         /\ <<more[k].path, more[k].node>> \in ever
         /\ more[k].node.kind = "dir" \/ PrintFiles
         /\ more[k].path = child \/ Under(child, more[k].path)
  <2>1. <<child, NextInfo.node>> \in ever
    BY <1>5, <1>9 DEF FrameOK, InfoOK
  <2>2. Point(child, NextInfo.node).path = child /\ Point(child, NextInfo.node).node = NextInfo.node
    BY DEF Point
  <2> QED  BY <1>10, <2>1, <2>2
<1>13. \A k, l \in DOMAIN more : k < l => Before(more[k].path, more[l].path)
  BY <1>10
<1>14. \A e \in always : e[1] \in Seq(Names)
  BY PathsThere DEF WalkInv
<1>15. ASSUME NEW e \in always, e[1] = child \/ Under(child, e[1]), e[2].kind = "dir" \/ PrintFiles
       PROVE  \E k \in DOMAIN more : more[k] = Point(e[1], e[2])
  <2>1. ~Under(child, e[1])
    <3> SUFFICES ASSUME Under(child, e[1]) PROVE FALSE
      OBVIOUS
    <3>1. Under(Top.path, e[1]) /\ e[1][Len(Top.path) + 1] = NextInfo.name
      BY <1>4, <1>5, <1>14, UnderChild DEF Infos
    <3>2. <<child, fs[child]>> \in always /\ (child = e[1] \/ fs[child].kind = "dir")
      BY <1>4, <3>1, ChildStays DEF WalkInv
    <3>3. child # e[1]
      BY <1>6, LenProperties DEF Under
    <3>4. fs[child] = NextInfo.node
      BY <1>5, <1>9, <3>2 DEF FrameOK, InfoOK
    <3> QED  BY <1>1, <3>2, <3>3, <3>4
  <2>2. e[1] = child /\ e[2] = NextInfo.node
    BY <1>5, <1>9, <1>15, <2>1 DEF FrameOK, InfoOK
  <2> QED  BY <1>1, <1>11, <1>15, <2>2
<1>16. /\ new \in Frames /\ new.path = Top.path
       /\ FrameOK(new, always, ever, PrintFiles) /\ Opened(new, always, PrintFiles)
  <2> HIDE DEF child
  <2>1. child = Append(Top.path, Head(Top.infos).name)
    BY DEF child, NextInfo
  <2>2. Gives(more, child, always, ever, PrintFiles)
    BY <1>12, <1>13, <1>15 DEF Gives
  <2>3. Top.infos # << >> /\ more \in Seq(Points)
    BY <1>1, <1>7
  <2>4. Gives(more, Append(Top.path, Head(Top.infos).name), always, ever, PrintFiles)
    BY <2>1, <2>2
  <2> QED  BY <1>3, <1>9, <1>14, <2>3, <2>4, PopFrame
<1> HIDE DEF new
<1>17. FrameInv' /\ TopInv' /\ PathInv'
  BY <1>1, <1>2, <1>8, <1>16, ReplaceTopFrame, ReplaceTopPath DEF WalkInv
<1>18. WalkType'
  <2>1. stack' \in Seq(Frames) /\ stack' # << >>
    BY <1>1, <1>2, <1>8, <1>16, ReplaceTop DEF WalkInv
  <2> QED  BY <1>1, <2>1 DEF WalkInv, WalkType
<1> QED  BY <1>1, <1>17, <1>18, SameHistory DEF WalkInv

\* The recursive call is for the first info, which stays until it returns.
LEMMA DescendInv ==
  ASSUME WalkInv, Descend
  PROVE  WalkInv'
<1> DEFINE n == Len(stack)
           child == Append(Top.path, NextInfo.name)
           new == Frame(child)
<1>1. /\ UNCHANGED <<fs, points, always, ever, argc, minusF>>
      /\ walkPc = "loop" /\ walkPc' = "lstat" /\ Top.infos # << >> /\ NextInfo.node.kind = "dir"
      /\ stack' = Append(stack, new)
  BY DEF Descend, Quiet
<1>2. stack # << >>
  BY <1>1 DEF WalkInv, WalkType
<1>3. Top \in Frames /\ Top = stack[n] /\ n \in Nat \ {0} /\ DOMAIN stack = 1..n
  BY <1>2, StackFacts DEF WalkInv
<1>4. Top.path \in Seq(Names) /\ Top.infos \in Seq(Infos)
  BY <1>3 DEF Frames
<1>5. NextInfo.name \in Names
  BY <1>1, <1>4, TailFacts DEF NextInfo, Infos
<1>6. child \in Seq(Names) /\ Len(child) = Len(Top.path) + 1
  BY <1>4, <1>5, UnderAppend
<1>7. /\ new \in Frames /\ new.path = child /\ new.points = << >>
      /\ FrameOK(new, always, ever, PrintFiles)
  BY <1>6, FreshFrame
<1> HIDE DEF new
<1>15. child = Append(Top.path, Head(Top.infos).name)
  BY DEF NextInfo
<1> HIDE DEF child
<1>8. /\ stack' \in Seq(Frames) /\ Len(stack') = n + 1 /\ stack' # << >>
      /\ \A i \in 1..n : stack'[i] = stack[i]
      /\ stack'[n + 1] = new
  BY <1>1, <1>7, AppendProperties DEF WalkInv, WalkType
<1>9. DOMAIN stack' = 1..n + 1
  BY <1>8, LenProperties
<1>10. Top' = new
  BY <1>8 DEF Top, Last
<1>11. WalkType'
  BY <1>1, <1>8 DEF WalkInv, WalkType
<1>12. TopInv'
  BY <1>1, <1>7, <1>10 DEF TopInv
<1>13. PathInv'
  <2> SUFFICES ASSUME NEW i \in 1..n + 1
               PROVE  /\ Len(stack'[i].path) = i - 1
                      /\ i > 1 => LET caller == stack'[i - 1]
                                  IN  /\ caller.infos # << >> /\ Head(caller.infos).node.kind = "dir"
                                      /\ stack'[i].path = Append(caller.path, Head(caller.infos).name)
    BY <1>9 DEF PathInv
  <2>1. CASE i = n + 1
    <3>1. Len(Top.path) = n - 1
      <4>1. n \in DOMAIN stack
        BY <1>3
      <4>2. Len(stack[n].path) = n - 1
        BY <4>1 DEF WalkInv, PathInv
      <4> QED  BY <1>3, <4>2
    <3>2. stack'[i].path = child /\ stack'[i - 1] = Top
      <4>1. i - 1 = n /\ n \in 1..n
        BY <1>3, <2>1
      <4> QED  BY <1>3, <1>7, <1>8, <2>1, <4>1
    <3>3. Len(stack'[i].path) = i - 1
      <4>1. Len(stack'[i].path) = Len(Top.path) + 1
        BY <1>6, <3>2
      <4>2. n \in Nat /\ n - 1 + 1 = n /\ n + 1 - 1 = n
        BY <1>3
      <4> HIDE DEF n
      <4> QED  BY <2>1, <3>1, <4>1, <4>2
    <3> QED  BY <1>1, <1>15, <3>2, <3>3 DEF NextInfo
  <2>2. CASE i # n + 1
    <3>1. i \in 1..n /\ stack'[i] = stack[i] /\ (i > 1 => stack'[i - 1] = stack[i - 1])
      BY <1>3, <1>8, <2>2
    <3> QED  BY <1>3, <3>1 DEF WalkInv, PathInv
  <2> QED  BY <2>1, <2>2
<1>14. FrameInv'
  <2>1. always' = always /\ ever' = ever /\ PrintFiles' = PrintFiles
    BY <1>1 DEF PrintFiles
  <2> SUFFICES ASSUME NEW i \in 1..n + 1
               PROVE  /\ InfoOK(stack'[i], always, ever)
                      /\ PointOK(stack'[i], ever, PrintFiles)
                      /\ i < n + 1 => SortOK(stack'[i]) /\ CoverOK(stack'[i], always, PrintFiles)
    BY <1>1, <1>8, <1>9, <2>1 DEF FrameInv
  <2>2. CASE i = n + 1
    BY <1>3, <1>7, <1>8, <2>2 DEF FrameOK
  <2>3. CASE i # n + 1
    <3>1. i \in 1..n /\ stack'[i] = stack[i]
      BY <1>3, <1>8, <2>3
    <3> QED  BY <1>1, <1>3, <3>1 DEF WalkInv, FrameInv
  <2> QED  BY <2>2, <2>3
<1> QED  BY <1>1, <1>11, <1>12, <1>13, <1>14, SameHistory DEF WalkInv

\* What a call returns covers all that is below the caller's first info.
LEMMA AscendInv ==
  ASSUME WalkInv, Ascend
  PROVE  WalkInv'
<1> DEFINE n == Len(stack)
           caller == stack[n - 1]
           node == Head(caller.infos).node
           child == Append(caller.path, Head(caller.infos).name)
           more == <<Point(child, node)>> \o Top.points
           new == Pop(caller, more)
<1>1. /\ UNCHANGED <<fs, points, always, ever, argc, minusF>>
      /\ walkPc = "loop" /\ walkPc' = "loop" /\ Top.infos = << >> /\ n > 1
      /\ stack' = Append(SubSeq(stack, 1, n - 2),
           [caller EXCEPT !.infos = Tail(caller.infos),
              !.points = caller.points \o <<Point(Top.path, node)>> \o Top.points])
  BY DEF Ascend, Quiet
<1>2. stack # << >>
  BY <1>1 DEF WalkInv, WalkType
<1>3. /\ Top \in Frames /\ Top = stack[n] /\ n \in Nat /\ DOMAIN stack = 1..n
      /\ \A i \in DOMAIN stack : stack[i] \in Frames
  BY <1>2, StackFacts DEF WalkInv
<1>4. n \in 1..n /\ n - 1 \in 1..n /\ n - 1 < n /\ n - 2 \in Nat /\ n - 2 + 1 = n - 1
  BY <1>1, <1>3
<1>5. /\ caller \in Frames /\ caller.infos # << >> /\ node.kind = "dir" /\ Top.path = child
  BY <1>1, <1>3, <1>4 DEF WalkInv, PathInv
<1>6. /\ caller.path \in Seq(Names) /\ caller.infos \in Seq(Infos) /\ caller.points \in Seq(Points)
      /\ Top.points \in Seq(Points)
  BY <1>3, <1>5 DEF Frames
<1>7. /\ Head(caller.infos) = caller.infos[1] /\ 1 \in DOMAIN caller.infos
      /\ Head(caller.infos) \in Infos
  BY <1>5, <1>6, TailFacts
<1>8. child \in Seq(Names) /\ node \in Nodes
  BY <1>6, <1>7, UnderAppend DEF Infos
<1>9. /\ FrameOK(caller, always, ever, PrintFiles) /\ Opened(caller, always, PrintFiles)
      /\ FrameOK(Top, always, ever, PrintFiles) /\ Opened(Top, always, PrintFiles)
  BY <1>1, <1>3, <1>4 DEF WalkInv, FrameInv, FrameOK, Opened
<1> HIDE DEF caller, child, node
<1>10. Point(child, node) \in Points /\ Point(child, node).path = child /\ Point(child, node).node = node
  BY <1>8 DEF Point, Points
<1>11. <<Point(child, node)>> \in Seq(Points)
  BY <1>10
<1>12. caller.points \o <<Point(child, node)>> \o Top.points = caller.points \o more
  <2> DEFINE one == <<Point(child, node)>>
             below == Top.points
             above == caller.points
  <2>1. one \in Seq(Points) /\ below \in Seq(Points) /\ above \in Seq(Points)
    BY <1>6, <1>11
  <2> HIDE DEF one, below, above
  <2>2. (above \o one) \o below = above \o (one \o below)
    BY <2>1, ConcatAssociative
  <2> QED  BY <2>2 DEF one, below, above
<1>13. stack' = Append(SubSeq(stack, 1, n - 2), new)
  BY <1>1, <1>5, <1>12 DEF Pop
<1>14. /\ more \in Seq(Points)
       /\ \A k \in DOMAIN more :
            \/ k = 1 /\ more[k] = Point(child, node)
            \/ k \in Nat /\ k - 1 \in DOMAIN Top.points /\ more[k] = Top.points[k - 1]
       /\ \E k \in DOMAIN more : more[k] = Point(child, node)
       /\ \A k \in DOMAIN Top.points : \E l \in DOMAIN more : more[l] = Top.points[k]
       /\ \A k \in DOMAIN Top.points : k \in Nat \ {0}
  <2> DEFINE one == <<Point(child, node)>>
             below == Top.points
  <2>0. one \in Seq(Points) /\ below \in Seq(Points)
    BY <1>6, <1>11
  <2>1. Len(one) = 1 /\ DOMAIN one = {1} /\ one[1] = Point(child, node)
    OBVIOUS
  <2>3. more = one \o below
    OBVIOUS
  <2> HIDE DEF one, below, more
  <2>2. /\ one \o below \in Seq(Points)
        /\ \A k \in DOMAIN (one \o below) :
             \/ k \in DOMAIN one /\ (one \o below)[k] = one[k]
             \/ k - Len(one) \in DOMAIN below /\ (one \o below)[k] = below[k - Len(one)]
        /\ \A k \in DOMAIN one :
             k \in DOMAIN (one \o below) /\ (one \o below)[k] = one[k]
        /\ \A k \in DOMAIN below :
             \E l \in DOMAIN (one \o below) : (one \o below)[l] = below[k]
        /\ DOMAIN (one \o below) \subseteq Nat
        /\ \A k \in DOMAIN below : k \in Nat \ {0}
    BY <2>0, ConcatFacts
  <2> QED  BY <2>0, <2>1, <2>2, <2>3 DEF below
<1> HIDE DEF more
<1>15. ASSUME NEW k \in DOMAIN more
       PROVE  /\ <<more[k].path, more[k].node>> \in ever
              /\ more[k].node.kind = "dir" \/ PrintFiles
              /\ more[k].path = child \/ Under(child, more[k].path)
  <2>1. CASE more[k] = Point(child, node)
    <3>1. <<child, node>> \in ever
      BY <1>7, <1>9 DEF FrameOK, InfoOK, child, node
    <3> QED  BY <1>5, <1>10, <2>1, <3>1
  <2>2. CASE k - 1 \in DOMAIN Top.points /\ more[k] = Top.points[k - 1]
    BY <1>5, <1>9, <2>2 DEF FrameOK, PointOK
  <2> QED  BY <1>14, <2>1, <2>2
<1>16. ASSUME NEW k \in DOMAIN more, NEW l \in DOMAIN more, k < l
       PROVE  Before(more[k].path, more[l].path)
  <2>1. l \in Nat /\ l - 1 \in DOMAIN Top.points /\ more[l] = Top.points[l - 1]
    BY <1>14, <1>16
  <2>2. CASE k = 1 /\ more[k] = Point(child, node)
    <3>1. Top.points[l - 1] \in Points /\ Under(child, Top.points[l - 1].path)
      BY <1>5, <1>6, <1>9, <2>1, LenProperties, ElementOfSeq DEF FrameOK, PointOK
    <3>2. IsStrictPrefix(child, more[l].path)
      BY <1>8, <2>1, <3>1, UnderStrict DEF Points
    <3> QED  BY <1>10, <2>2, <3>2 DEF Before
  <2>3. CASE k \in Nat /\ k - 1 \in DOMAIN Top.points /\ more[k] = Top.points[k - 1]
    <3>1. k - 1 < l - 1
      BY <1>16, <2>1, <2>3
    <3> QED  BY <1>9, <2>1, <2>3, <3>1 DEF FrameOK, PointOK
  <2> QED  BY <1>14, <2>2, <2>3
<1>17. \A e \in always : e[1] \in Seq(Names)
  BY PathsThere DEF WalkInv
<1>18. ASSUME NEW e \in always, e[1] = child \/ Under(child, e[1]), e[2].kind = "dir" \/ PrintFiles
       PROVE  \E k \in DOMAIN more : more[k] = Point(e[1], e[2])
  <2>1. CASE e[1] = child
    <3>1. e[2] = node
      BY <1>7, <1>9, <2>1 DEF FrameOK, InfoOK, child, node
    <3> QED  BY <1>14, <2>1, <3>1
  <2>2. CASE Under(child, e[1])
    <3>1. PICK k \in DOMAIN Top.points : Top.points[k] = Point(e[1], e[2])
      <4>1. DOMAIN Top.infos = {}
        BY <1>1
      <4> QED  BY <1>5, <1>9, <1>18, <2>2, <4>1 DEF Opened, CoverOK
    <3> QED  BY <1>14, <3>1
  <2> QED  BY <1>18, <2>1, <2>2
<1>19. /\ new \in Frames /\ new.path = caller.path
       /\ FrameOK(new, always, ever, PrintFiles) /\ Opened(new, always, PrintFiles)
  <2>1. Gives(more, Append(caller.path, Head(caller.infos).name), always, ever, PrintFiles)
    BY <1>15, <1>16, <1>18 DEF Gives, child
  <2> QED  BY <1>5, <1>9, <1>14, <1>17, <2>1, PopFrame
<1> HIDE DEF new
<1>20. /\ stack' \in Seq(Frames) /\ Len(stack') = n - 1 /\ DOMAIN stack' = 1..n - 1 /\ stack' # << >>
       /\ \A i \in 1..n - 1 : stack'[i] = IF i = n - 1 THEN new ELSE stack[i]
  <2> DEFINE lower == SubSeq(stack, 1, n - 2)
             m == n - 2
  <2>0. m \in Nat /\ 1 \in Int /\ m \in Int /\ m + 1 = n - 1 /\ 1..m \subseteq 1..n
    BY <1>4
  <2>1. \A i \in 1..m : stack[i] \in Frames
    BY <1>3, <2>0
  <2>2. lower = SubSeq(stack, 1, m)
    OBVIOUS
  <2> HIDE DEF m, lower
  <2>3. /\ lower \in Seq(Frames)
        /\ Len(lower) = IF 1 <= m THEN m - 1 + 1 ELSE 0
        /\ \A i \in 1..m - 1 + 1 : lower[i] = stack[1 + i - 1]
    BY <2>0, <2>1, <2>2, SubSeqProperties
  <2>4. Len(lower) = m /\ \A i \in 1..m : lower[i] = stack[i]
    BY <2>0, <2>3
  <2>5. stack' = Append(lower, new)
    BY <1>13 DEF lower
  <2>6. /\ stack' \in Seq(Frames) /\ stack' # << >> /\ Len(stack') = m + 1
        /\ \A i \in 1..m : stack'[i] = lower[i]
        /\ stack'[m + 1] = new
    BY <1>19, <2>3, <2>4, <2>5, AppendProperties
  <2>7. DOMAIN stack' = 1..m + 1
    BY <2>6, LenProperties
  <2>8. ASSUME NEW i \in 1..m + 1
        PROVE  stack'[i] = IF i = m + 1 THEN new ELSE stack[i]
    BY <2>0, <2>4, <2>6
  <2> QED  BY <2>0, <2>6, <2>7, <2>8
<1>21. Top' = new
  <2>1. Top' = stack'[Len(stack')] /\ n - 1 \in 1..n - 1
    BY <1>4 DEF Top, Last
  <2> QED  BY <1>20, <2>1
<1>22. PrintFiles' = PrintFiles
  BY <1>1 DEF PrintFiles
<1>0. n = Len(stack)
  OBVIOUS
<1> HIDE DEF n
<1>23. WalkType'
  BY <1>1, <1>20 DEF WalkInv, WalkType
<1>24. TopInv'
  BY <1>1 DEF TopInv
<1>25. PathInv'
  <2> SUFFICES ASSUME NEW i \in 1..n - 1
               PROVE  /\ Len(stack'[i].path) = i - 1
                      /\ i > 1 => LET above == stack'[i - 1]
                                  IN  /\ above.infos # << >> /\ Head(above.infos).node.kind = "dir"
                                      /\ stack'[i].path = Append(above.path, Head(above.infos).name)
    BY <1>20 DEF PathInv
  <2>1. stack'[i].path = stack[i].path
    <3>1. i = n - 1 => stack[i] = caller
      BY DEF caller
    <3> QED  BY <1>19, <1>20, <3>1
  <2>2. i > 1 => stack'[i - 1] = stack[i - 1]
    <3>1. i > 1 => i - 1 \in 1..n - 1 /\ i - 1 # n - 1
      BY <1>3
    <3> QED  BY <1>20, <3>1
  <2>3. i \in DOMAIN stack
    BY <1>3
  <2> QED  BY <2>1, <2>2, <2>3 DEF WalkInv, PathInv
<1>26. FrameInv'
  <2> SUFFICES ASSUME NEW i \in 1..n - 1
               PROVE  /\ InfoOK(stack'[i], always, ever)
                      /\ PointOK(stack'[i], ever, PrintFiles)
                      /\ SortOK(stack'[i]) /\ CoverOK(stack'[i], always, PrintFiles)
    BY <1>1, <1>20, <1>22 DEF FrameInv
  <2>1. CASE i = n - 1
    BY <1>19, <1>20, <2>1 DEF FrameOK, Opened
  <2>2. CASE i # n - 1
    <3>1. stack'[i] = stack[i] /\ i \in DOMAIN stack /\ i < n
      BY <1>3, <1>20, <2>2
    <3> QED  BY <1>0, <3>1 DEF WalkInv, FrameInv
  <2> QED  BY <2>1, <2>2
<1> QED  BY <1>1, <1>23, <1>24, <1>25, <1>26, SameHistory DEF WalkInv

\* The outermost call leaves none under way.
LEMMA ReturnInv ==
  ASSUME WalkInv, Return
  PROVE  WalkInv'
<1>1. << >> \in Seq(Frames) /\ DOMAIN << >> = {}
  BY EmptySeq
<1>2. stack # << >>
  BY DEF WalkInv, WalkType, Return
<1>3. Top.points \in Seq(Points)
  BY <1>2, StackFacts DEF WalkInv, Frames
<1>4. WalkType'
  BY <1>1, <1>3 DEF WalkInv, WalkType, Return, Quiet
<1>5. PathInv' /\ FrameInv' /\ TopInv'
  BY <1>1 DEF Return, PathInv, FrameInv, TopInv
<1> QED  BY <1>4, <1>5, SameHistory DEF WalkInv, Return, Quiet

(* Changes by other processes *)

\* The nodes there can be.
LEMMA NodeFacts ==
  /\ Changes \subseteq Nodes
  /\ \A tree \in Trees : \A p \in DOMAIN tree : tree[p] \in Nodes
<1> DEFINE sets == {{t[q] : q \in DOMAIN t} : t \in Trees}
<1>1. ASSUME NEW tree \in Trees, NEW p \in DOMAIN tree PROVE tree[p] \in Nodes
  <2> DEFINE set == {tree[q] : q \in DOMAIN tree}
  <2>1. tree[p] \in set /\ set \in sets
    OBVIOUS
  <2>2. UNION sets \subseteq Nodes
    BY DEF Nodes
  <2> HIDE DEF set, sets
  <2>3. tree[p] \in UNION sets
    BY <2>1, Zenon
  <2> QED  BY <2>2, <2>3, Zenon
<1>2. Changes \subseteq Nodes
  BY DEF Nodes
<1> QED  BY <1>1, <1>2

\* A change keeps the invariant if it leaves a tree in which what stays is still
\* inside of what it was inside of.
LEMMA BecomesInv ==
  ASSUME WalkInv, NEW tree, Becomes(tree),
         IsTree(tree), \A p \in DOMAIN tree : tree[p] \in Nodes,
         \A p \in DOMAIN tree : <<p, tree[p]>> \in always =>
           \A d \in 0..Len(p) - 1 : tree[SubSeq(p, 1, d)] = fs[SubSeq(p, 1, d)]
  PROVE  WalkInv'
<1>1. /\ fs' = tree /\ always' = always \cap Entries(tree) /\ ever' = ever \cup Entries(tree)
      /\ UNCHANGED <<argc, minusF, walkPc, stack, points>>
  BY DEF Becomes
<1>2. WalkType'
  BY <1>1 DEF WalkInv, WalkType
<1>3. PathInv'
  BY <1>1 DEF WalkInv, PathInv
<1>4. PrintFiles' = PrintFiles /\ Top' = Top
  BY <1>1 DEF PrintFiles, Top
<1>5. always' \subseteq always /\ ever \subseteq ever'
  BY <1>1
<1>6. FrameInv'
  <2> SUFFICES ASSUME NEW i \in DOMAIN stack
               PROVE  /\ InfoOK(stack[i], always', ever')
                      /\ PointOK(stack[i], ever', PrintFiles)
                      /\ i < Len(stack) \/ walkPc = "loop" =>
                           SortOK(stack[i]) /\ CoverOK(stack[i], always', PrintFiles)
    BY <1>1, <1>4 DEF FrameInv
  <2>1. /\ InfoOK(stack[i], always, ever) /\ PointOK(stack[i], ever, PrintFiles)
        /\ i < Len(stack) \/ walkPc = "loop" =>
             SortOK(stack[i]) /\ CoverOK(stack[i], always, PrintFiles)
    BY DEF WalkInv, FrameInv
  <2>2. /\ InfoOK(stack[i], always, ever) => InfoOK(stack[i], always', ever')
        /\ PointOK(stack[i], ever, PrintFiles) => PointOK(stack[i], ever', PrintFiles)
        /\ CoverOK(stack[i], always, PrintFiles) => CoverOK(stack[i], always', PrintFiles)
    BY <1>5, FrameMonotone
  <2> QED  BY <2>1, <2>2
<1>7. TopInv'
  <2>1. StatOK(Top, always) => StatOK(Top, always')
    BY <1>5, FrameMonotone
  <2> QED  BY <1>1, <1>4, <2>1 DEF WalkInv, TopInv
<1>8. HistoryInv'
  <2>1. always' \subseteq Entries(fs') /\ Entries(fs') \subseteq ever'
    BY <1>1
  <2>2. ASSUME NEW e \in always', NEW d \in 0..Len(e[1]) - 1
        PROVE  <<SubSeq(e[1], 1, d), tree[SubSeq(e[1], 1, d)]>> \in always'
    <3> DEFINE above == SubSeq(e[1], 1, d)
    <3>1. e \in always /\ e \in Entries(tree)
      BY <1>1
    <3>2. e[1] \in DOMAIN tree /\ e[2] = tree[e[1]] /\ e = <<e[1], e[2]>>
      BY <3>1, EntryFacts
    <3>3. tree[above] = fs[above]
      BY <3>1, <3>2
    <3>4. <<above, fs[above]>> \in always
      BY <3>1 DEF WalkInv, HistoryInv
    <3>5. above \in DOMAIN tree
      BY <3>2 DEF IsTree
    <3>6. <<above, tree[above]>> \in Entries(tree)
      BY <3>5, EntryFacts
    <3> QED  BY <1>1, <3>3, <3>4, <3>6
  <2> QED  BY <1>1, <2>1, <2>2 DEF HistoryInv
<1> QED  BY <1>2, <1>3, <1>6, <1>7, <1>8 DEF WalkInv

\* The beginnings of a beginning are beginnings.
LEMMA PrefixFacts ==
  ASSUME NEW path \in Seq(Names), NEW p \in Seq(Names), NEW d \in 0..Len(p) - 1
  PROVE  /\ SubSeq(p, 1, d) \in Seq(Names) /\ Len(SubSeq(p, 1, d)) = d
         /\ IsPrefix(path, SubSeq(p, 1, d)) => IsPrefix(path, p)
         /\ path = SubSeq(p, 1, d) => IsPrefix(path, p)
<1> DEFINE q == SubSeq(p, 1, d)
           n == Len(path)
<1>1. Len(p) \in Nat /\ n \in Nat /\ d \in Nat /\ d < Len(p) /\ d \in Int /\ 1 \in Int
  BY LenProperties
<1>2. \A i \in 1..Len(p) : p[i] \in Names
  BY ElementOfSeq
<1>3. \A i \in 1..d : p[i] \in Names
  BY <1>1, <1>2
<1>4. /\ q \in Seq(Names) /\ Len(q) = (IF 1 <= d THEN d - 1 + 1 ELSE 0)
      /\ \A i \in 1..d - 1 + 1 : q[i] = p[1 + i - 1]
  BY <1>1, <1>3, SubSeqProperties
<1>5. q \in Seq(Names) /\ Len(q) = d /\ \A i \in 1..d : q[i] = p[i]
  BY <1>1, <1>4
<1> HIDE DEF q, n
<1>6. ASSUME n <= d, \A i \in 1..n : path[i] = p[i]
      PROVE  IsPrefix(path, p)
  <2>1. \A i \in 1..n : p[i] \in Names /\ path[i] \in Names
    BY <1>1, <1>2, <1>6, ElementOfSeq DEF n
  <2>2. /\ SubSeq(p, 1, n) \in Seq(Names)
        /\ Len(SubSeq(p, 1, n)) = (IF 1 <= n THEN n - 1 + 1 ELSE 0)
        /\ \A i \in 1..n - 1 + 1 : SubSeq(p, 1, n)[i] = p[1 + i - 1]
    BY <1>1, <2>1, SubSeqProperties
  <2>3. Len(SubSeq(p, 1, n)) = n /\ \A i \in 1..n : SubSeq(p, 1, n)[i] = path[i]
    BY <1>1, <1>6, <2>2
  <2>4. SubSeq(p, 1, n) = path
    BY <2>2, <2>3, SeqEqual DEF n
  <2>5. SubSeq(path, 1, n) = path
    BY SubSeqFull DEF n
  <2> QED  BY <1>1, <1>6, <2>4, <2>5 DEF IsPrefix, n
<1>7. ASSUME IsPrefix(path, q) PROVE IsPrefix(path, p)
  <2>1. n <= d /\ SubSeq(path, 1, n) = SubSeq(q, 1, n) /\ SubSeq(path, 1, n) = path
    BY <1>5, <1>7, SubSeqFull DEF IsPrefix, n
  <2>2. \A i \in 1..n : q[i] \in Names
    BY <1>1, <1>5, <2>1, ElementOfSeq
  <2>3. \A i \in 1..n - 1 + 1 : SubSeq(q, 1, n)[i] = q[1 + i - 1]
    BY <1>1, <2>2, SubSeqProperties
  <2>4. \A i \in 1..n : path[i] = p[i]
    BY <1>1, <1>5, <2>1, <2>3
  <2> QED  BY <1>6, <2>1, <2>4
<1>8. ASSUME path = q PROVE IsPrefix(path, p)
  BY <1>1, <1>5, <1>6, <1>8 DEF n
<1> QED  BY <1>5, <1>7, <1>8 DEF q

\* What is left after a path is removed was not below it.
LEMMA RemovePathInv ==
  ASSUME WalkInv, RemovePath
  PROVE  WalkInv'
<1>1. PICK path \in DOMAIN fs : Becomes([p \in DOMAIN fs \ Subtree(path) |-> fs[p]])
  BY DEF RemovePath
<1> DEFINE tree == [p \in DOMAIN fs \ Subtree(path) |-> fs[p]]
<1>2. IsTree(fs) /\ (\A p \in DOMAIN fs : fs[p] \in Nodes) /\ path \in Seq(Names)
  BY DEF WalkInv, WalkType, IsTree
<1>3. ASSUME NEW p \in DOMAIN tree, NEW d \in 0..Len(p) - 1
      PROVE  SubSeq(p, 1, d) \in DOMAIN tree /\ tree[SubSeq(p, 1, d)] = fs[SubSeq(p, 1, d)]
  <2>1. p \in DOMAIN fs /\ ~IsPrefix(path, p)
    BY DEF Subtree
  <2>2. p \in Seq(Names) /\ SubSeq(p, 1, d) \in DOMAIN fs
    BY <1>2, <2>1 DEF IsTree
  <2>3. ~IsPrefix(path, SubSeq(p, 1, d))
    BY <1>2, <2>1, <2>2, PrefixFacts
  <2> QED  BY <2>2, <2>3 DEF Subtree
<1>4. DOMAIN tree \subseteq DOMAIN fs /\ \A p \in DOMAIN tree : tree[p] = fs[p]
  OBVIOUS
<1>5. Becomes(tree)
  BY <1>1
<1> HIDE DEF tree
<1>6. IsTree(tree) /\ \A p \in DOMAIN tree : tree[p] \in Nodes
  BY <1>2, <1>3, <1>4 DEF IsTree
<1> QED  BY <1>3, <1>5, <1>6, BecomesInv

\* What is put at a path is in a directory, and replaces what was below the path.
LEMMA PutPathInv ==
  ASSUME WalkInv, PutPath
  PROVE  WalkInv'
<1>1. PICK parent \in DOMAIN fs, name \in Names, node \in Changes :
        /\ fs[parent].kind = "dir"
        /\ LET path == Append(parent, name)
           IN  Becomes([p \in (DOMAIN fs \ Subtree(path)) \cup {path} |->
                          IF p = path THEN node ELSE fs[p]])
  BY DEF PutPath
<1> DEFINE path == Append(parent, name)
           tree == [p \in (DOMAIN fs \ Subtree(path)) \cup {path} |->
                      IF p = path THEN node ELSE fs[p]]
<1>2. IsTree(fs) /\ (\A p \in DOMAIN fs : fs[p] \in Nodes) /\ parent \in Seq(Names)
  BY DEF WalkInv, WalkType, IsTree
<1>3. path \in Seq(Names) /\ Len(path) = Len(parent) + 1 /\ Len(parent) \in Nat
      /\ \A i \in 1..Len(parent) : path[i] = parent[i]
  BY <1>2, AppendProperties, LenProperties
<1>4. ASSUME NEW p \in DOMAIN tree, p # path, NEW d \in 0..Len(p) - 1
      PROVE  /\ p \in DOMAIN fs /\ p \in Seq(Names)
             /\ SubSeq(p, 1, d) \in DOMAIN tree /\ SubSeq(p, 1, d) # path
             /\ tree[SubSeq(p, 1, d)] = fs[SubSeq(p, 1, d)] /\ fs[SubSeq(p, 1, d)].kind = "dir"
  <2>1. p \in DOMAIN fs /\ ~IsPrefix(path, p)
    BY <1>4 DEF Subtree
  <2>2. p \in Seq(Names) /\ SubSeq(p, 1, d) \in DOMAIN fs /\ fs[SubSeq(p, 1, d)].kind = "dir"
    BY <1>2, <2>1 DEF IsTree
  <2>3. ~IsPrefix(path, SubSeq(p, 1, d)) /\ SubSeq(p, 1, d) # path
    BY <1>3, <2>1, <2>2, PrefixFacts
  <2> QED  BY <2>1, <2>2, <2>3 DEF Subtree
<1>5. ASSUME NEW d \in 0..Len(path) - 1
      PROVE  /\ SubSeq(path, 1, d) \in DOMAIN tree /\ SubSeq(path, 1, d) # path
             /\ tree[SubSeq(path, 1, d)] = fs[SubSeq(path, 1, d)] /\ fs[SubSeq(path, 1, d)].kind = "dir"
  <2> DEFINE q == SubSeq(path, 1, d)
  <2>1. q \in Seq(Names) /\ Len(q) = d /\ d < Len(path) /\ d \in Nat
    BY <1>3, PrefixFacts
  <2>2. q # path /\ ~IsPrefix(path, q)
    BY <1>3, <2>1 DEF IsPrefix
  <2>3. q \in DOMAIN fs /\ fs[q].kind = "dir"
    <3>1. CASE d = Len(parent)
      <4>1. SubSeq(path, 1, Len(parent)) = parent
        <5> DEFINE n == Len(parent)
        <5>1. n \in Int /\ 1 \in Int /\ n \in Nat /\ \A i \in 1..n : path[i] \in Names
          BY <1>2, <1>3, ElementOfSeq
        <5>2. \A i \in 1..n : path[i] = parent[i]
          BY <1>3
        <5>3. n = Len(parent)
          OBVIOUS
        <5> HIDE DEF n, path
        <5>4. /\ SubSeq(path, 1, n) \in Seq(Names)
              /\ Len(SubSeq(path, 1, n)) = (IF 1 <= n THEN n - 1 + 1 ELSE 0)
              /\ \A i \in 1..n - 1 + 1 : SubSeq(path, 1, n)[i] = path[1 + i - 1]
          BY <5>1, SubSeqProperties
        <5>5. Len(SubSeq(path, 1, n)) = n /\ \A i \in 1..n : SubSeq(path, 1, n)[i] = parent[i]
          BY <5>1, <5>2, <5>4
        <5>6. SubSeq(path, 1, n) = parent
          BY <1>2, <5>3, <5>4, <5>5, SeqEqual
        <5> QED  BY <5>3, <5>6
      <4> QED  BY <1>1, <3>1, <4>1
    <3>2. CASE d # Len(parent)
      <4>1. d \in 0..Len(parent) - 1
        BY <1>3, <2>1, <3>2
      <4>2. SubSeq(parent, 1, d) \in DOMAIN fs /\ fs[SubSeq(parent, 1, d)].kind = "dir"
        BY <1>2, <4>1 DEF IsTree
      <4>3. SubSeq(parent, 1, d) = q
        <5>1. /\ d \in Int /\ 1 \in Int /\ 1..d \subseteq 1..Len(parent) /\ 1..d \subseteq 1..Len(path)
          BY <1>3, <4>1
        <5>2. \A i \in 1..d : parent[i] \in Names /\ path[i] \in Names /\ path[i] = parent[i]
          BY <1>2, <1>3, <5>1, ElementOfSeq
        <5> HIDE DEF path
        <5>3. /\ SubSeq(parent, 1, d) \in Seq(Names)
              /\ Len(SubSeq(parent, 1, d)) = (IF 1 <= d THEN d - 1 + 1 ELSE 0)
              /\ \A i \in 1..d - 1 + 1 : SubSeq(parent, 1, d)[i] = parent[1 + i - 1]
          BY <5>1, <5>2, SubSeqProperties
        <5>4. \A i \in 1..d - 1 + 1 : SubSeq(path, 1, d)[i] = path[1 + i - 1]
          BY <5>1, <5>2, SubSeqProperties
        <5>5. Len(SubSeq(parent, 1, d)) = d /\ \A i \in 1..d : SubSeq(parent, 1, d)[i] = q[i]
          BY <2>1, <5>2, <5>3, <5>4
        <5> QED  BY <2>1, <5>3, <5>5, SeqEqual
      <4> QED  BY <4>2, <4>3
    <3> QED  BY <3>1, <3>2
  <2>4. q \in DOMAIN tree /\ tree[q] = fs[q]
    BY <2>2, <2>3 DEF Subtree
  <2> QED  BY <2>2, <2>3, <2>4
<1>6. Becomes(tree)
  BY <1>1
<1>7. \A p \in DOMAIN tree : p = path \/ (p \in DOMAIN fs /\ p \in Seq(Names) /\ tree[p] = fs[p])
  BY <1>2 DEF IsTree
<1>8. path \in DOMAIN tree /\ tree[path] = node
  OBVIOUS
<1> HIDE DEF tree, path
<1>9. IsTree(tree)
  <2> SUFFICES ASSUME NEW p \in DOMAIN tree
               PROVE  p \in Seq(Names) /\ \A d \in 0..Len(p) - 1 :
                        SubSeq(p, 1, d) \in DOMAIN tree /\ tree[SubSeq(p, 1, d)].kind = "dir"
    BY DEF IsTree
  <2>1. p \in Seq(Names)
    BY <1>3, <1>7
  <2>2. ASSUME NEW d \in 0..Len(p) - 1
        PROVE  SubSeq(p, 1, d) \in DOMAIN tree /\ tree[SubSeq(p, 1, d)].kind = "dir"
    <3>1. CASE p = path
      <4>1. d \in 0..Len(path) - 1
        BY <3>1
      <4> QED  BY <1>5, <3>1, <4>1
    <3>2. CASE p # path
      <4>1. SubSeq(p, 1, d) \in DOMAIN tree /\ tree[SubSeq(p, 1, d)] = fs[SubSeq(p, 1, d)]
            /\ fs[SubSeq(p, 1, d)].kind = "dir"
        BY <1>4, <3>2
      <4> QED  BY <4>1
    <3> QED  BY <3>1, <3>2
  <2> QED  BY <2>1, <2>2
<1>10. \A p \in DOMAIN tree : tree[p] \in Nodes
  BY <1>2, <1>7, <1>8, NodeFacts
<1>11. \A p \in DOMAIN tree : <<p, tree[p]>> \in always =>
         \A d \in 0..Len(p) - 1 : tree[SubSeq(p, 1, d)] = fs[SubSeq(p, 1, d)]
  BY <1>4, <1>5
<1> QED  BY <1>6, <1>9, <1>10, <1>11, BecomesInv

(* The theorems *)

\* Nothing is under way, and the history begins.
LEMMA WalkInvInit == WalkInit => WalkInv
<1> SUFFICES ASSUME WalkInit PROVE WalkInv
  OBVIOUS
<1>1. fs \in Trees /\ IsTree(fs) /\ walkPc = "start" /\ stack = << >> /\ points = << >>
      /\ always = Entries(fs) /\ ever = Entries(fs) /\ argc \in 1..4 /\ minusF \in BOOLEAN
  <2>1. fs \in Trees
    BY DEF WalkInit
  <2>2. IsTree(fs)
    BY <2>1, TreesAssumption
  <2> QED  BY <2>1, <2>2 DEF WalkInit
<1>2. \A p \in DOMAIN fs : fs[p] \in Nodes
  BY <1>1, NodeFacts
<1>3. << >> \in Seq(Frames) /\ << >> \in Seq(Points) /\ DOMAIN << >> = {}
  BY EmptySeq
<1>4. WalkType
  BY <1>1, <1>2, <1>3 DEF WalkType
<1>5. PathInv /\ FrameInv /\ TopInv
  BY <1>1, <1>3 DEF PathInv, FrameInv, TopInv
<1>6. HistoryInv
  <2>1. ASSUME NEW e \in always, NEW d \in 0..Len(e[1]) - 1
        PROVE  <<SubSeq(e[1], 1, d), fs[SubSeq(e[1], 1, d)]>> \in always
    <3>1. e[1] \in DOMAIN fs
      BY <1>1, EntryFacts
    <3>2. SubSeq(e[1], 1, d) \in DOMAIN fs
      BY <1>1, <3>1 DEF IsTree
    <3> QED  BY <1>1, <3>2, EntryFacts
  <2> QED  BY <1>1, <2>1 DEF HistoryInv
<1> QED  BY <1>4, <1>5, <1>6 DEF WalkInv

\* Every step keeps the invariant.
LEMMA WalkInvStep == WalkInv /\ [WalkNext]_walkVars => WalkInv'
<1> SUFFICES ASSUME WalkInv, [WalkNext]_walkVars PROVE WalkInv'
  OBVIOUS
<1>1. CASE Usage
  BY <1>1, UsageInv
<1>2. CASE CallInspectDir
  BY <1>2, CallInv
<1>3. CASE Lstat
  BY <1>3, LstatInv
<1>4. CASE LstatError \/ ReaddirError
  BY <1>4, FailInv DEF LstatError, ReaddirError
<1>5. CASE Readdir
  BY <1>5, ReaddirInv
<1>6. CASE StatName
  BY <1>6, StatNameInv
<1>7. CASE SortFiles
  BY <1>7, SortFilesInv
<1>8. CASE Descend
  BY <1>8, DescendInv
<1>9. CASE TakeFile
  BY <1>9, TakeFileInv
<1>10. CASE Ascend
  BY <1>10, AscendInv
<1>11. CASE Return
  BY <1>11, ReturnInv
<1>12. CASE RemovePath
  BY <1>12, RemovePathInv
<1>13. CASE PutPath
  BY <1>13, PutPathInv
<1>14. CASE UNCHANGED walkVars
  <2>1. UNCHANGED <<fs, stack, points, walkPc, always, ever, argc, minusF>>
    BY <1>14 DEF walkVars
  <2>2. WalkType' /\ TopInv'
    BY <2>1 DEF WalkInv, WalkType, TopInv, Top
  <2> QED  BY <2>1, <2>2, SameStack, SameHistory DEF WalkInv
<1> QED  BY <1>1, <1>2, <1>3, <1>4, <1>5, <1>6, <1>7, <1>8, <1>9, <1>10, <1>11, <1>12, <1>13,
            <1>14 DEF WalkNext

\* An error in a directory below the first one means that it has changed since it
\* was looked up.
LEMMA FailMeansChange ==
  ASSUME WalkInv, stack # << >>, ~IsDir(Top.path)
  PROVE  ever # always \/ ~IsDir(Root)
<1> DEFINE n == Len(stack)
<1>1. /\ Top \in Frames /\ Top = stack[n] /\ n \in Nat \ {0} /\ DOMAIN stack = 1..n
      /\ \A i \in DOMAIN stack : stack[i] \in Frames
  BY StackFacts DEF WalkInv
<1>2. Top.path \in Seq(Names) /\ Len(Top.path) = n - 1
  <2>1. n \in DOMAIN stack
    BY <1>1
  <2> QED  BY <1>1, <2>1 DEF WalkInv, PathInv, Frames
<1>3. CASE n = 1
  <2>1. Top.path = Root
    BY <1>2, <1>3, EmptySeq DEF Root
  <2> QED  BY <2>1
<1>4. CASE n # 1
  <2> DEFINE caller == stack[n - 1]
             node == Head(caller.infos).node
  <2>1. n \in DOMAIN stack /\ n > 1 /\ n - 1 \in DOMAIN stack
    BY <1>1, <1>4
  <2>2. caller.infos # << >> /\ node.kind = "dir" /\ Top.path = Append(caller.path, Head(caller.infos).name)
    BY <1>1, <2>1 DEF WalkInv, PathInv
  <2>3. caller.infos \in Seq(Infos)
    BY <1>1, <2>1 DEF Frames
  <2>4. 1 \in DOMAIN caller.infos /\ Head(caller.infos) = caller.infos[1]
    BY <2>2, <2>3, TailFacts
  <2>5. <<Top.path, node>> \in ever
    BY <2>1, <2>2, <2>4 DEF WalkInv, FrameInv, InfoOK
  <2>6. ASSUME ever = always PROVE IsDir(Top.path)
    <3>1. /\ <<Top.path, node>>[1] = Top.path /\ <<Top.path, node>>[2] = node
          /\ <<Top.path, node>> \in always
      BY <2>5, <2>6
    <3>2. Top.path \in DOMAIN fs /\ node = fs[Top.path]
      BY <3>1, PathsThere DEF WalkInv
    <3> QED  BY <2>2, <3>2 DEF IsDir
  <2> QED  BY <2>6
<1> QED  BY <1>3, <1>4

\* What the outermost call returns.
LEMMA ReturnFinds ==
  ASSUME WalkInv, Return
  PROVE  WalkFindsWhatWasThere'
<1> DEFINE f == stack[1]
           listed == {<<points'[k].path, points'[k].node>> : k \in DOMAIN points'}
<1>1. /\ walkPc = "loop" /\ Top.infos = << >> /\ Len(stack) = 1 /\ points' = Top.points
      /\ walkPc' = "returned" /\ always' = always /\ ever' = ever
      /\ UNCHANGED <<argc, minusF, fs>>
  BY DEF Return, Quiet
<1>2. stack # << >>
  BY <1>1 DEF WalkInv, WalkType
<1>3. Top = f /\ 1 \in DOMAIN stack /\ f \in Frames
  BY <1>1, <1>2, StackFacts DEF WalkInv
<1>4. f.path = Root /\ f.infos = << >> /\ DOMAIN f.infos = {} /\ points' = f.points
  <2>1. f.path \in Seq(Names) /\ Len(f.path) = 0
    BY <1>3 DEF WalkInv, PathInv, Frames
  <2> QED  BY <1>1, <1>3, <2>1, EmptySeq DEF Root
<1>5. PointOK(f, ever, PrintFiles) /\ CoverOK(f, always, PrintFiles)
  BY <1>1, <1>3 DEF WalkInv, FrameInv
<1>6. PrintFiles' = PrintFiles
  BY <1>1 DEF PrintFiles
<1> HIDE DEF f
<1>7. ASSUME NEW p \in Seq(Names) PROVE Under(Root, p) <=> p # Root
  BY EmptySeq, LenProperties DEF Under, Root
<1>8. f.points \in Seq(Points) /\ \A k \in DOMAIN f.points : f.points[k] \in Points
  <2>1. f.points \in Seq(Points)
    BY <1>3 DEF Frames
  <2> QED  BY <2>1, LenProperties, ElementOfSeq
<1>9. ASSUME NEW e \in always, e[1] # Root, e[2].kind = "dir" \/ PrintFiles
      PROVE  \E k \in DOMAIN points' : e = <<points'[k].path, points'[k].node>>
  <2>1. e[1] \in Seq(Names) /\ e = <<e[1], e[2]>>
    BY PathsThere DEF WalkInv
  <2>2. Under(f.path, e[1])
    BY <1>4, <1>7, <1>9, <2>1
  <2>3. PICK k \in DOMAIN f.points : f.points[k] = Point(e[1], e[2])
    BY <1>4, <1>5, <1>9, <2>2 DEF CoverOK
  <2> QED  BY <1>4, <2>1, <2>3 DEF Point
<1>10. ASSUME NEW k \in DOMAIN points'
       PROVE  LET e == <<points'[k].path, points'[k].node>>
              IN  e \in ever /\ e[1] # Root /\ (e[2].kind = "dir" \/ PrintFiles)
  <2>1. /\ <<f.points[k].path, f.points[k].node>> \in ever
        /\ f.points[k].node.kind = "dir" \/ PrintFiles
        /\ Under(f.path, f.points[k].path) /\ f.points[k].path \in Seq(Names)
    BY <1>4, <1>5, <1>8 DEF PointOK, Points
  <2> QED  BY <1>4, <1>7, <2>1
<1>11. \A j, k \in DOMAIN points' : j < k => Before(points'[j].path, points'[k].path)
  BY <1>4, <1>5 DEF PointOK
<1>12. Shown(always)' \subseteq listed
  BY <1>1, <1>6, <1>9 DEF Shown
<1>13. listed \subseteq Shown(ever)'
  BY <1>1, <1>6, <1>10 DEF Shown
<1> QED  BY <1>1, <1>11, <1>12, <1>13 DEF WalkFindsWhatWasThere

\* The walk returns and fails as it should.
LEMMA WalkFindsStep ==
  WalkInv /\ WalkFindsWhatWasThere /\ [WalkNext]_walkVars => WalkFindsWhatWasThere'
<1> SUFFICES ASSUME WalkInv, WalkFindsWhatWasThere, [WalkNext]_walkVars
             PROVE  WalkFindsWhatWasThere'
  OBVIOUS
<1>1. CASE Return
  BY <1>1, ReturnFinds
<1>2. CASE LstatError \/ ReaddirError
  <2>1. /\ ~IsDir(Top.path) /\ walkPc \in {"lstat", "readdir"} /\ walkPc' = "panic"
        /\ UNCHANGED <<fs, always, ever>>
    BY <1>2 DEF LstatError, ReaddirError, Fail, Quiet
  <2>2. stack # << >>
    BY <2>1 DEF WalkInv, WalkType
  <2>3. ever # always \/ ~IsDir(Root)
    BY <2>1, <2>2, FailMeansChange
  <2> QED  BY <2>1, <2>3 DEF WalkFindsWhatWasThere, IsDir
<1>3. CASE Usage
  BY <1>3 DEF WalkFindsWhatWasThere, Usage, Quiet
<1>4. CASE \/ CallInspectDir \/ Lstat \/ Readdir \/ StatName \/ SortFiles \/ Descend \/ TakeFile
           \/ Ascend \/ RemovePath \/ PutPath
  <2>1. walkPc' \notin {"returned", "panic"}
    BY <1>4 DEF CallInspectDir, Lstat, Readdir, StatName, SortFiles, Descend, TakeFile, Ascend,
                RemovePath, PutPath, Becomes
  <2> QED  BY <2>1 DEF WalkFindsWhatWasThere
<1>5. CASE UNCHANGED walkVars
  BY <1>5 DEF walkVars, WalkFindsWhatWasThere, Shown, PrintFiles, IsDir
<1> QED  BY <1>1, <1>2, <1>3, <1>4, <1>5 DEF WalkNext

\* Every variable of the walk has its type: the file system stays a tree of known
\* nodes, and calls are under way from the first Lstat to the return or the panic.
THEOREM WalkTypeOK == WalkSpec => []WalkType
<1>1. WalkInv => WalkType
  BY DEF WalkInv
<1> QED  BY <1>1, WalkInvInit, WalkInvStep, PTL DEF WalkSpec

\* For any file system, of any depth, and any changes other processes make to it:
\* InspectDir returns every entry that was there all the time and none that never
\* was, each once and in the order of the printed tree, and main panics on a right
\* number of arguments only if something changed or there was no directory.
THEOREM WalkFinds == WalkSpec => []WalkFindsWhatWasThere
<1>1. WalkInit => WalkFindsWhatWasThere
  BY DEF WalkInit, WalkFindsWhatWasThere
<1> QED  BY <1>1, WalkInvInit, WalkInvStep, WalkFindsStep, PTL DEF WalkSpec

(* The points of a tree *)

\* Every directory between the base and a point is a point of the list.
HasDir(pts, path) == \E l \in DOMAIN pts : pts[l].path = path /\ pts[l].node.kind = "dir"
Closed(pts, base) ==
  \A k \in DOMAIN pts : \A d \in base + 1..Len(pts[k].path) - 1 :
    HasDir(pts, SubSeq(pts[k].path, 1, d))

Above(f) == Closed(f.points, Len(f.path))

\* The directories of every call's points, and of those that were returned.
ListInv ==
  /\ \A i \in DOMAIN stack : Above(stack[i])
  /\ Closed(points, 0)
  /\ \A k \in DOMAIN points : Len(points[k].path) > 0

\* A list stays closed when closed points are appended.
LEMMA ClosedConcat ==
  ASSUME NEW listed \in Seq(Points), NEW more \in Seq(Points), NEW base \in Nat,
         Closed(listed, base), Closed(more, base)
  PROVE  Closed(listed \o more, base)
<1> DEFINE both == listed \o more
<1>1. /\ \A k \in DOMAIN both :
           \/ k \in DOMAIN listed /\ both[k] = listed[k]
           \/ k - Len(listed) \in DOMAIN more /\ both[k] = more[k - Len(listed)]
      /\ \A k \in DOMAIN listed : k \in DOMAIN both /\ both[k] = listed[k]
      /\ \A k \in DOMAIN more : \E l \in DOMAIN both : both[l] = more[k]
  BY ConcatFacts
<1> HIDE DEF both
<1> SUFFICES ASSUME NEW k \in DOMAIN both, NEW d \in base + 1..Len(both[k].path) - 1
             PROVE  HasDir(both, SubSeq(both[k].path, 1, d))
  BY DEF Closed, both
<1>2. CASE k \in DOMAIN listed /\ both[k] = listed[k]
  <2>1. HasDir(listed, SubSeq(listed[k].path, 1, d))
    BY <1>2 DEF Closed
  <2> QED  BY <1>1, <1>2, <2>1 DEF HasDir
<1>3. CASE k - Len(listed) \in DOMAIN more /\ both[k] = more[k - Len(listed)]
  <2> DEFINE m == k - Len(listed)
  <2>1. m \in DOMAIN more /\ both[k] = more[m]
    BY <1>3
  <2> HIDE DEF m
  <2>2. d \in base + 1..Len(more[m].path) - 1
    BY <2>1
  <2>3. HasDir(more, SubSeq(more[m].path, 1, d))
    BY <2>1, <2>2 DEF Closed
  <2>4. PICK j \in DOMAIN more : more[j].path = SubSeq(more[m].path, 1, d) /\ more[j].node.kind = "dir"
    BY <2>3 DEF HasDir
  <2>5. PICK l \in DOMAIN both : both[l] = more[j]
    BY <1>1
  <2> QED  BY <2>1, <2>4, <2>5 DEF HasDir
<1> QED  BY <1>1, <1>2, <1>3

\* A directory before the points inside it.
DirWith(q, below) == <<q>> \o below

\* A directory and the points inside it, place by place.
LEMMA DirFirst ==
  ASSUME NEW q \in Points, NEW below \in Seq(Points), NEW more, more = DirWith(q, below)
  PROVE  /\ more \in Seq(Points)
         /\ \A k \in DOMAIN more :
              \/ k = 1 /\ more[k] = q
              \/ k \in Nat /\ k - 1 \in DOMAIN below /\ more[k] = below[k - 1]
         /\ \E k \in DOMAIN more : more[k] = q
         /\ \A k \in DOMAIN below : \E l \in DOMAIN more : more[l] = below[k]
         /\ \A k \in DOMAIN below : k \in Nat \ {0}
<1> DEFINE one == <<q>>
<1>1. one \in Seq(Points)
  OBVIOUS
<1>2. Len(one) = 1 /\ DOMAIN one = {1} /\ one[1] = q
  OBVIOUS
<1>3. more = one \o below
  BY DEF DirWith
<1> HIDE DEF one
<1>4. /\ one \o below \in Seq(Points)
      /\ \A k \in DOMAIN (one \o below) :
           \/ k \in DOMAIN one /\ (one \o below)[k] = one[k]
           \/ k - Len(one) \in DOMAIN below /\ (one \o below)[k] = below[k - Len(one)]
      /\ \A k \in DOMAIN one :
           k \in DOMAIN (one \o below) /\ (one \o below)[k] = one[k]
      /\ \A k \in DOMAIN below :
           \E l \in DOMAIN (one \o below) : (one \o below)[l] = below[k]
      /\ DOMAIN (one \o below) \subseteq Nat
      /\ \A k \in DOMAIN below : k \in Nat \ {0}
  BY <1>1, ConcatFacts
<1> QED  BY <1>2, <1>3, <1>4

\* The beginning of a path below another one.
LEMMA BeginningFacts ==
  ASSUME NEW p \in Seq(Names), NEW d \in 0..Len(p)
  PROVE  /\ SubSeq(p, 1, d) \in Seq(Names) /\ Len(SubSeq(p, 1, d)) = d
         /\ \A c \in 1..d : SubSeq(p, 1, d)[c] = p[c]
<1>1. d \in Nat /\ Len(p) \in Nat /\ d - 1 + 1 = d /\ (d < 1 => d = 0)
  BY LenProperties
<1>2. \A c \in 1..d : p[c] \in Names
  BY <1>1, ElementOfSeq
<1>3. /\ SubSeq(p, 1, d) \in Seq(Names)
      /\ Len(SubSeq(p, 1, d)) = IF 1 <= d THEN d - 1 + 1 ELSE 0
      /\ \A c \in 1..d - 1 + 1 : SubSeq(p, 1, d)[c] = p[1 + c - 1]
  BY <1>1, <1>2, SubSeqProperties
<1> QED  BY <1>1, <1>3

\* Closed below a child, closed with the child.
LEMMA ClosedChild ==
  ASSUME NEW q \in Points, NEW below \in Seq(Points), q.node.kind = "dir",
         NEW base \in Nat, Len(q.path) = base + 1,
         Closed(below, base + 1), \A k \in DOMAIN below : Under(q.path, below[k].path)
  PROVE  Closed(DirWith(q, below), base)
<1> DEFINE more == DirWith(q, below)
<1>0. more = DirWith(q, below)
  OBVIOUS
<1> HIDE DEF more
<1>1. /\ more \in Seq(Points)
      /\ \A k \in DOMAIN more :
           \/ k = 1 /\ more[k] = q
           \/ k \in Nat /\ k - 1 \in DOMAIN below /\ more[k] = below[k - 1]
      /\ \E k \in DOMAIN more : more[k] = q
      /\ \A k \in DOMAIN below : \E l \in DOMAIN more : more[l] = below[k]
      /\ \A k \in DOMAIN below : k \in Nat \ {0}
  BY <1>0, DirFirst
<1> SUFFICES ASSUME NEW k \in DOMAIN more, NEW d \in base + 1..Len(more[k].path) - 1
             PROVE  HasDir(more, SubSeq(more[k].path, 1, d))
  BY DEF Closed, more
<1>2. PICK m \in DOMAIN below : more[k] = below[m]
  <2>1. Len(q.path) - 1 = base
    OBVIOUS
  <2>2. more[k] # q
    BY <2>1
  <2> QED  BY <1>1, <2>2
<1> DEFINE p == below[m].path
<1>3. below[m] \in Points /\ p \in Seq(Names) /\ q.path \in Seq(Names)
  <2>1. m \in 1..Len(below)
    BY <1>2, LenProperties
  <2>2. below[m] \in Points
    BY <2>1, ElementOfSeq
  <2> QED  BY <2>2 DEF Points
<1>4. CASE d = base + 1
  <2>1. /\ SubSeq(p, 1, d) \in Seq(Names) /\ Len(SubSeq(p, 1, d)) = d
        /\ \A c \in 1..d : SubSeq(p, 1, d)[c] = p[c]
    <3>1. Len(p) \in Nat /\ d \in 0..Len(p)
      BY <1>2, <1>3, LenProperties
    <3> QED  BY <1>3, <3>1, BeginningFacts
  <2>2. Under(q.path, p)
    OBVIOUS
  <2>3. SubSeq(p, 1, d) = q.path
    BY <1>3, <1>4, <2>1, <2>2, SeqEqual DEF Under
  <2> QED  BY <1>1, <1>2, <2>3 DEF HasDir
<1>5. CASE d # base + 1
  <2>1. d \in base + 1 + 1..Len(p) - 1
    BY <1>2, <1>3, <1>5, LenProperties
  <2>2. HasDir(below, SubSeq(p, 1, d))
    BY <1>2, <2>1 DEF Closed
  <2> QED  BY <1>1, <1>2, <2>2 DEF HasDir
<1> QED  BY <1>4, <1>5

\* The calls keep closed points when the innermost one gets a new frame.
LEMMA TopKeepsAbove ==
  ASSUME WalkType, ListInv, NEW new, SetTop(new), Above(new)
  PROVE  \A i \in DOMAIN stack' : Above(stack'[i])
<1>1. stack' = [stack EXCEPT ![Len(stack)] = new]
  BY DEF SetTop
<1>2. DOMAIN stack' = DOMAIN stack
      /\ \A i \in DOMAIN stack : stack'[i] = IF i = Len(stack) THEN new ELSE stack[i]
  BY <1>1
<1> QED  BY <1>2 DEF ListInv

\* No points, nothing to be closed.
LEMMA EmptyClosed == \A base : Closed(<< >>, base)
  BY DEF Closed

\* A file is in the directory itself, so it asks for no other point.
LEMMA TakeFileList == WalkInv /\ ListInv /\ TakeFile => ListInv'
<1> SUFFICES ASSUME WalkInv, ListInv, TakeFile PROVE ListInv'
  OBVIOUS
<1> DEFINE child == Append(Top.path, NextInfo.name)
           more == IF PrintFiles THEN <<Point(child, NextInfo.node)>> ELSE << >>
<1>1. /\ UNCHANGED points /\ Top.infos # << >>
      /\ SetTop([Top EXCEPT !.infos = Tail(@), !.points = WithFile(@, child, NextInfo.node)])
      /\ walkPc = "loop"
  BY DEF TakeFile
<1>2. stack # << >>
  BY <1>1 DEF WalkInv, WalkType
<1>3. Top \in Frames /\ Top = stack[Len(stack)] /\ Len(stack) \in DOMAIN stack
  BY <1>2, StackFacts DEF WalkInv
<1>4. Top.path \in Seq(Names) /\ Top.infos \in Seq(Infos) /\ Top.points \in Seq(Points)
  BY <1>3 DEF Frames
<1>5. NextInfo \in Infos
  BY <1>1, <1>4, TailFacts DEF NextInfo
<1>6. /\ child \in Seq(Names) /\ Len(child) = Len(Top.path) + 1 /\ Len(Top.path) \in Nat
      /\ Point(child, NextInfo.node) \in Points /\ Point(child, NextInfo.node).path = child
  BY <1>4, <1>5, UnderAppend, LenProperties DEF Infos, Points, Point
<1>7. more \in Seq(Points) /\ WithFile(Top.points, child, NextInfo.node) = Top.points \o more
  <2>1. CASE PrintFiles
    BY <1>4, <1>6, <2>1, AppendIsConcat DEF WithFile
  <2>2. CASE ~PrintFiles
    BY <1>4, <2>2, EmptySeq, ConcatEmptySeq DEF WithFile
  <2> QED  BY <2>1, <2>2
<1>8. Closed(more, Len(Top.path))
  <2>1. \A k \in DOMAIN more : more[k].path = child
    BY <1>6
  <2> HIDE DEF more, child
  <2> QED  BY <1>6, <2>1 DEF Closed
<1>9. Closed(Top.points, Len(Top.path))
  BY <1>3 DEF ListInv, Above
<1>10. Closed(Top.points \o more, Len(Top.path))
  <2> HIDE DEF more
  <2> QED  BY <1>4, <1>6, <1>7, <1>8, <1>9, ClosedConcat
<1> DEFINE new == [Top EXCEPT !.infos = Tail(@), !.points = WithFile(@, child, NextInfo.node)]
<1>11. new.points = Top.points \o more /\ new.path = Top.path
  BY <1>3, <1>7 DEF Frames
<1>12. Above(new) /\ SetTop(new)
  BY <1>1, <1>10, <1>11 DEF Above
<1> HIDE DEF new
<1>13. \A i \in DOMAIN stack' : Above(stack'[i])
  BY <1>12, TopKeepsAbove DEF WalkInv
<1> QED  BY <1>1, <1>13 DEF ListInv

\* The points of a call that returns get their directory in front of them.
LEMMA AscendList == WalkInv /\ ListInv /\ Ascend => ListInv'
<1> SUFFICES ASSUME WalkInv, ListInv, Ascend PROVE ListInv'
  OBVIOUS
<1> DEFINE n == Len(stack)
           caller == stack[n - 1]
           node == Head(caller.infos).node
           q == Point(Top.path, node)
           new == [caller EXCEPT !.infos = Tail(caller.infos),
                     !.points = caller.points \o <<q>> \o Top.points]
<1>1. /\ UNCHANGED points /\ walkPc = "loop" /\ n > 1
      /\ stack' = Append(SubSeq(stack, 1, n - 2), new)
  BY DEF Ascend
<1>2. stack # << >>
  BY <1>1 DEF WalkInv, WalkType
<1>3. /\ Top \in Frames /\ Top = stack[n] /\ n \in Nat /\ DOMAIN stack = 1..n
      /\ \A i \in DOMAIN stack : stack[i] \in Frames
  BY <1>2, StackFacts DEF WalkInv
<1>4. n \in 1..n /\ n - 1 \in 1..n /\ n - 1 < n /\ n - 2 \in Nat /\ n - 2 + 1 = n - 1
  BY <1>1, <1>3
<1>5. /\ caller \in Frames /\ caller.infos # << >> /\ node.kind = "dir"
      /\ Len(Top.path) = Len(caller.path) + 1
  BY <1>1, <1>3, <1>4 DEF WalkInv, PathInv
<1>6. /\ caller.path \in Seq(Names) /\ caller.infos \in Seq(Infos) /\ caller.points \in Seq(Points)
      /\ Top.points \in Seq(Points) /\ Top.path \in Seq(Names) /\ Len(caller.path) \in Nat
  BY <1>3, <1>5, LenProperties DEF Frames
<1>7. q \in Points /\ q.path = Top.path /\ q.node = node
  <2>1. Head(caller.infos) \in Infos
    BY <1>5, <1>6, TailFacts
  <2> QED  BY <1>6, <2>1 DEF Infos, Point, Points
<1>8. Closed(caller.points, Len(caller.path)) /\ Closed(Top.points, Len(Top.path))
  BY <1>3, <1>4 DEF ListInv, Above
<1>9. \A k \in DOMAIN Top.points : Under(Top.path, Top.points[k].path)
  BY <1>3, <1>4 DEF WalkInv, FrameInv, PointOK
<1> HIDE DEF q, node, caller, n
<1>10. DirWith(q, Top.points) \in Seq(Points) /\ Closed(DirWith(q, Top.points), Len(caller.path))
  <2> DEFINE below == Top.points
             base == Len(caller.path)
  <2>1. /\ q \in Points /\ below \in Seq(Points) /\ q.node.kind = "dir" /\ base \in Nat
        /\ Len(q.path) = base + 1 /\ Closed(below, base + 1)
        /\ \A k \in DOMAIN below : Under(q.path, below[k].path)
    BY <1>5, <1>6, <1>7, <1>8, <1>9
  <2> HIDE DEF below, base
  <2>2. DirWith(q, below) \in Seq(Points) /\ Closed(DirWith(q, below), base)
    BY <2>1, ClosedChild, DirFirst
  <2> QED  BY <2>2 DEF below, base
<1>11. Closed(caller.points \o DirWith(q, Top.points), Len(caller.path))
  BY <1>6, <1>8, <1>10, ClosedConcat
<1>12. new.points = caller.points \o DirWith(q, Top.points) /\ new.path = caller.path
  <2>1. (caller.points \o <<q>>) \o Top.points = caller.points \o (<<q>> \o Top.points)
    <3> DEFINE one == <<q>>
               below == Top.points
               listed == caller.points
    <3>1. one \in Seq(Points) /\ below \in Seq(Points) /\ listed \in Seq(Points)
      BY <1>6, <1>7
    <3> HIDE DEF one, below, listed
    <3>2. (listed \o one) \o below = listed \o (one \o below)
      BY <3>1, ConcatAssociative
    <3> QED  BY <3>2 DEF one, below, listed
  <2> QED  BY <1>5, <2>1 DEF Frames, DirWith
<1>13. Above(new)
  BY <1>11, <1>12 DEF Above
<1>14. \A i \in DOMAIN stack' : stack'[i] = new \/ (i \in DOMAIN stack /\ stack'[i] = stack[i])
  <2> DEFINE m == n - 2
             lower == SubSeq(stack, 1, m)
  <2>1. m \in Nat /\ m \in 0..Len(stack) /\ stack \in Seq(Frames)
    BY <1>3, <1>4 DEF n, WalkInv, WalkType
  <2>2. lower = [i \in 1..m |-> stack[i]]
    BY <2>1
  <2>3. stack' = Append(lower, new)
    BY <1>1
  <2> HIDE DEF m, new, lower
  <2>4. \A i \in DOMAIN stack' : stack'[i] = new \/ (i \in 1..m /\ stack'[i] = stack[i])
    BY <2>1, <2>2, <2>3
  <2> QED  BY <1>3, <2>1, <2>4 DEF n
<1> HIDE DEF new
<1>15. \A i \in DOMAIN stack' : Above(stack'[i])
  BY <1>13, <1>14 DEF ListInv
<1> QED  BY <1>1, <1>15 DEF ListInv

\* A call begins without points.
LEMMA DescendList == WalkInv /\ ListInv /\ Descend => ListInv'
<1> SUFFICES ASSUME WalkInv, ListInv, Descend PROVE ListInv'
  OBVIOUS
<1> DEFINE new == Frame(Append(Top.path, NextInfo.name))
<1>1. UNCHANGED points /\ stack' = Append(stack, new) /\ stack \in Seq(Frames)
  BY DEF Descend, WalkInv, WalkType
<1>2. new.points = << >>
  BY DEF Frame
<1>3. Above(new)
  BY <1>2, EmptyClosed DEF Above
<1> HIDE DEF new
<1>4. \A i \in DOMAIN stack' : stack'[i] = new \/ (i \in DOMAIN stack /\ stack'[i] = stack[i])
  BY <1>1
<1> QED  BY <1>1, <1>3, <1>4 DEF ListInv

\* The outermost call returns its points.
LEMMA ReturnList == WalkInv /\ ListInv /\ Return => ListInv'
<1> SUFFICES ASSUME WalkInv, ListInv, Return PROVE ListInv'
  OBVIOUS
<1>1. stack' = << >> /\ points' = Top.points /\ walkPc = "loop" /\ Len(stack) = 1
  BY DEF Return
<1>2. stack # << >>
  BY <1>1 DEF WalkInv, WalkType
<1>3. Top \in Frames /\ Top = stack[Len(stack)] /\ Len(stack) \in DOMAIN stack
  BY <1>2, StackFacts DEF WalkInv
<1>4. Len(Top.path) = 0 /\ Top.points \in Seq(Points)
  BY <1>1, <1>3 DEF WalkInv, PathInv, Frames
<1>5. Closed(Top.points, 0)
  BY <1>3, <1>4 DEF ListInv, Above
<1>6. \A k \in DOMAIN Top.points : Len(Top.points[k].path) > 0
  BY <1>3, <1>4 DEF WalkInv, FrameInv, PointOK, Under
<1> QED  BY <1>1, <1>5, <1>6 DEF ListInv

\* There are no points before the walk.
LEMMA InitList == WalkInit => ListInv
  BY EmptyClosed DEF WalkInit, ListInv

\* A frame that keeps its points and its path stays closed.
LEMMA SamePointsList ==
  ASSUME WalkInv, ListInv, stack # << >>, UNCHANGED points, NEW new, SetTop(new),
         new.points = Top.points, new.path = Top.path
  PROVE  ListInv'
<1>1. Top = stack[Len(stack)] /\ Len(stack) \in DOMAIN stack
  BY StackFacts DEF WalkInv
<1>2. Above(new)
  BY <1>1 DEF ListInv, Above
<1>3. \A i \in DOMAIN stack' : Above(stack'[i])
  BY <1>2, TopKeepsAbove DEF WalkInv
<1> QED  BY <1>3 DEF ListInv

\* Every step of the walk keeps the listing of a tree.
LEMMA NextList == WalkInv /\ ListInv /\ [WalkNext]_walkVars => ListInv'
<1> SUFFICES ASSUME WalkInv, ListInv, [WalkNext]_walkVars PROVE ListInv'
  OBVIOUS
<1>0. walkPc \in {"readdir", "stat"} => stack # << >> /\ Top \in Frames
  BY StackFacts DEF WalkInv, WalkType
<1>1. CASE Usage \/ Lstat \/ RemovePath \/ PutPath \/ UNCHANGED walkVars
  <2>1. UNCHANGED <<stack, points>>
    BY <1>1 DEF Usage, Lstat, RemovePath, PutPath, Becomes, walkVars
  <2> QED  BY <2>1 DEF ListInv
<1>2. CASE LstatError \/ ReaddirError
  BY <1>2 DEF LstatError, ReaddirError, Fail, ListInv
<1>3. CASE CallInspectDir
  <2>1. stack' = <<Frame(Root)>> /\ UNCHANGED points
    BY <1>3 DEF CallInspectDir
  <2>2. Above(Frame(Root))
    BY EmptyClosed DEF Above, Frame
  <2> QED  BY <2>1, <2>2 DEF ListInv
<1>4. CASE Readdir
  <2> DEFINE new == [Top EXCEPT !.names = {name \in Names : Append(Top.path, name) \in DOMAIN fs}]
  <2>1. SetTop(new) /\ UNCHANGED points /\ stack # << >>
    BY <1>0, <1>4 DEF Readdir
  <2>2. new.points = Top.points /\ new.path = Top.path
    BY <1>0, <1>4 DEF Readdir, Frames
  <2> HIDE DEF new
  <2> QED  BY <2>1, <2>2, SamePointsList
<1>5. CASE StatName
  <2>1. PICK name \in Top.names :
          LET path == Append(Top.path, name)
          IN  SetTop([Top EXCEPT !.names = @ \ {name},
                                 !.infos = IF path \in DOMAIN fs
                                           THEN Append(@, [name |-> name, node |-> fs[path]]) ELSE @])
    BY <1>5 DEF StatName
  <2> DEFINE path == Append(Top.path, name)
             new == [Top EXCEPT !.names = @ \ {name},
                                !.infos = IF path \in DOMAIN fs
                                          THEN Append(@, [name |-> name, node |-> fs[path]]) ELSE @]
  <2>2. SetTop(new) /\ UNCHANGED points /\ stack # << >>
    BY <1>0, <1>5, <2>1 DEF StatName
  <2>3. new.points = Top.points /\ new.path = Top.path
    BY <1>0, <1>5 DEF StatName, Frames
  <2> HIDE DEF new
  <2> QED  BY <2>2, <2>3, SamePointsList
<1>6. CASE SortFiles
  <2>1. PICK infos \in Sorted(Top.infos) : SetTop([Top EXCEPT !.infos = infos])
    BY <1>6 DEF SortFiles
  <2> DEFINE new == [Top EXCEPT !.infos = infos]
  <2>2. SetTop(new) /\ UNCHANGED points /\ stack # << >>
    BY <1>0, <1>6, <2>1 DEF SortFiles
  <2>3. new.points = Top.points /\ new.path = Top.path
    BY <1>0, <1>6 DEF SortFiles, Frames
  <2> HIDE DEF new
  <2> QED  BY <2>2, <2>3, SamePointsList
<1> QED  BY <1>1, <1>2, <1>3, <1>4, <1>5, <1>6, DescendList, TakeFileList, AscendList, ReturnList
         DEF WalkNext

(* The order of paths *)

\* A strict prefix, place by place.
LEMMA StrictUnder ==
  ASSUME NEW p \in Seq(Names), NEW q \in Seq(Names), IsStrictPrefix(p, q)
  PROVE  Under(p, q)
<1>1. Len(p) \in Nat /\ Len(q) \in Nat /\ p # q /\ Len(p) <= Len(q)
      /\ SubSeq(p, 1, Len(p)) = SubSeq(q, 1, Len(p))
  BY LenProperties DEF IsStrictPrefix, IsPrefix
<1>2. \A d \in 1..Len(p) : p[d] = q[d]
  <2>1. Len(p) \in 0..Len(p) /\ Len(p) \in 0..Len(q)
    BY <1>1
  <2>2. /\ \A d \in 1..Len(p) : SubSeq(p, 1, Len(p))[d] = p[d]
        /\ \A d \in 1..Len(p) : SubSeq(q, 1, Len(p))[d] = q[d]
    BY <2>1, BeginningFacts
  <2> QED  BY <1>1, <2>2
<1>3. Len(p) # Len(q)
  BY <1>1, <1>2, SeqEqual
<1> QED  BY <1>1, <1>2, <1>3 DEF Under

\* The first place where two paths part.
Parts(p, q, d) ==
  /\ d \in 1..Len(p) /\ d \in 1..Len(q) /\ \A c \in 1..d - 1 : p[c] = q[c]
  /\ Rank[p[d]] \in Int /\ Rank[q[d]] \in Int /\ Rank[p[d]] < Rank[q[d]]

\* Of two paths in order, one is below the other or they part somewhere.
LEMMA BeforeCases ==
  ASSUME NEW p \in Seq(Names), NEW q \in Seq(Names), Before(p, q)
  PROVE  Under(p, q) \/ \E d \in Nat : Parts(p, q, d)
<1>1. CASE IsStrictPrefix(p, q)
  BY <1>1, StrictUnder
<1>2. CASE \E d \in DOMAIN p \cap DOMAIN q :
             (\A c \in 1..d - 1 : p[c] = q[c]) /\ Rank[p[d]] < Rank[q[d]]
  <2>1. PICK d \in DOMAIN p \cap DOMAIN q :
          (\A c \in 1..d - 1 : p[c] = q[c]) /\ Rank[p[d]] < Rank[q[d]]
    BY <1>2
  <2>2. d \in 1..Len(p) /\ d \in 1..Len(q) /\ d \in Nat
    BY LenProperties
  <2>3. Rank[p[d]] \in Int /\ Rank[q[d]] \in Int
    BY <2>2, ElementOfSeq, RankAssumption
  <2> QED  BY <2>1, <2>2, <2>3 DEF Parts
<1> QED  BY <1>1, <1>2 DEF Before

\* Nothing stands before itself, nor before a directory it is in.
LEMMA NotBefore ==
  ASSUME NEW p \in Seq(Names), NEW q \in Seq(Names), p = q \/ Under(p, q)
  PROVE  ~Before(q, p)
<1>1. Len(p) \in Nat /\ Len(q) \in Nat
  BY LenProperties
<1>2. ~Under(q, p)
  BY <1>1 DEF Under
<1>3. ASSUME NEW d \in Nat, Parts(q, p, d) PROVE FALSE
  <2>1. p[d] = q[d]
    BY <1>3 DEF Parts, Under
  <2> QED  BY <1>3, <2>1 DEF Parts
<1> QED  BY <1>2, <1>3, BeforeCases

\* What stands between a directory and something in it is in it, too.
LEMMA BetweenIsUnder ==
  ASSUME NEW p \in Seq(Names), NEW q \in Seq(Names), NEW r \in Seq(Names),
         Before(p, q), Before(q, r) \/ q = r, Under(p, r)
  PROVE  Under(p, q)
<1> SUFFICES ASSUME ~Under(p, q) PROVE FALSE
  OBVIOUS
<1>1. PICK d \in Nat : Parts(p, q, d)
  BY BeforeCases
<1>2. Len(p) \in Nat /\ Len(q) \in Nat /\ Len(r) \in Nat
  BY LenProperties
<1>3. \A c \in 1..d : r[c] = p[c]
  <2>1. d \in 1..Len(p)
    BY <1>1 DEF Parts
  <2>2. 1..d \subseteq 1..Len(p)
    BY <1>2, <2>1
  <2>3. \A c \in 1..Len(p) : r[c] = p[c]
    BY DEF Under
  <2> QED  BY <2>2, <2>3
<1>4. q # r /\ Before(q, r)
  BY <1>1, <1>3 DEF Parts
<1>5. d \in 1..Len(q)
  BY <1>1 DEF Parts
<1>6. CASE Under(q, r)
  <2>1. r[d] = q[d]
    BY <1>5, <1>6 DEF Under
  <2> QED  BY <1>1, <1>3, <2>1 DEF Parts
<1>7. ASSUME NEW e \in Nat, Parts(q, r, e) PROVE FALSE
  <2>1. CASE e < d
    <3>1. p[e] = q[e] /\ r[e] = p[e]
      BY <1>1, <1>3, <1>7, <2>1 DEF Parts
    <3> QED  BY <1>7, <3>1 DEF Parts
  <2>2. CASE e = d
    BY <1>1, <1>3, <1>7, <2>2 DEF Parts
  <2>3. CASE d < e
    <3>1. q[d] = r[d]
      BY <1>1, <1>7, <2>3 DEF Parts
    <3> QED  BY <1>1, <1>3, <3>1 DEF Parts
  <2> QED  BY <2>1, <2>2, <2>3
<1> QED  BY <1>4, <1>6, <1>7, BeforeCases

\* The parts of a path that is not empty.
LEMMA FrontFacts ==
  ASSUME NEW p \in Seq(Names), Len(p) > 0
  PROVE  /\ Len(p) \in Nat /\ Front(p) \in Seq(Names) /\ Len(Front(p)) = Len(p) - 1
         /\ \A c \in 1..Len(p) - 1 : Front(p)[c] = p[c]
         /\ Last(p) = p[Len(p)] /\ Last(p) \in Names
         /\ Under(Front(p), p)
<1>1. Len(p) \in Nat /\ Len(p) - 1 \in 0..Len(p) /\ Len(p) \in 1..Len(p)
  BY LenProperties
<1>2. /\ Front(p) \in Seq(Names) /\ Len(Front(p)) = Len(p) - 1
      /\ \A c \in 1..Len(p) - 1 : Front(p)[c] = p[c]
  BY <1>1, BeginningFacts DEF Front
<1>3. p[Len(p)] \in Names
  BY <1>1, ElementOfSeq
<1> QED  BY <1>1, <1>2, <1>3 DEF Under, Last

\* Paths in one directory stand in the order of their last names.
LEMMA SiblingOrder ==
  ASSUME NEW p \in Seq(Names), NEW q \in Seq(Names), Len(p) > 0, Len(q) > 0,
         Len(p) = Len(q), Front(p) = Front(q), Before(p, q)
  PROVE  /\ Rank[Last(p)] \in Int /\ Rank[Last(q)] \in Int
         /\ Rank[Last(p)] < Rank[Last(q)]
<1>1. /\ Len(p) \in Nat /\ \A c \in 1..Len(p) - 1 : p[c] = q[c]
      /\ Last(p) = p[Len(p)] /\ Last(q) = q[Len(p)]
  <2>1. \A c \in 1..Len(p) - 1 : Front(p)[c] = p[c]
    BY FrontFacts
  <2>2. \A c \in 1..Len(q) - 1 : Front(q)[c] = q[c]
    BY FrontFacts
  <2> QED  BY <2>1, <2>2, LenProperties DEF Last
<1>2. ~Under(p, q)
  BY <1>1 DEF Under
<1>3. PICK d \in Nat : Parts(p, q, d)
  BY <1>2, BeforeCases
<1>4. d = Len(p)
  BY <1>1, <1>3 DEF Parts
<1> QED  BY <1>1, <1>3, <1>4 DEF Parts

(* What the walk returned to StringifyPoints *)

\* What the walk returned to StringifyPoints.
Listed(pts) ==
  /\ pts \in Seq(Points)
  /\ \A k \in DOMAIN pts : Len(pts[k].path) > 0
  /\ Closed(pts, 0)
  /\ \A j, k \in DOMAIN pts : j < k => Before(pts[j].path, pts[k].path)

\* No point comes after a path in its directory (IsLast).
LastIn(pts, path) ==
  \A k \in DOMAIN pts :
    Len(pts[k].path) = Len(path) /\ Front(pts[k].path) = Front(path)
      => Rank[Last(pts[k].path)] <= Rank[Last(path)]

\* What the points are made of.
LEMMA ListedFacts ==
  ASSUME NEW pts, Listed(pts)
  PROVE  /\ Len(pts) \in Nat /\ DOMAIN pts = 1..Len(pts)
         /\ \A k \in DOMAIN pts : /\ k \in Nat \ {0} /\ pts[k].path \in Seq(Names)
                                  /\ Len(pts[k].path) \in Nat \ {0}
<1>1. pts \in Seq(Points) /\ \A k \in DOMAIN pts : Len(pts[k].path) > 0
  BY DEF Listed
<1>2. Len(pts) \in Nat /\ DOMAIN pts = 1..Len(pts)
  BY <1>1, LenProperties
<1>3. ASSUME NEW k \in DOMAIN pts
      PROVE  k \in Nat \ {0} /\ pts[k].path \in Seq(Names) /\ Len(pts[k].path) \in Nat \ {0}
  <2>1. pts[k] \in Points
    BY <1>1, <1>2, ElementOfSeq
  <2>2. pts[k].path \in Seq(Names)
    BY <2>1 DEF Points
  <2>3. Len(pts[k].path) \in Nat /\ Len(pts[k].path) > 0
    BY <1>1, <2>2, LenProperties
  <2> QED  BY <1>2, <2>2, <2>3
<1> QED  BY <1>2, <1>3

\* No path is listed twice.
LEMMA ListedOnce ==
  ASSUME NEW pts, Listed(pts), NEW j \in DOMAIN pts, NEW k \in DOMAIN pts,
         pts[j].path = pts[k].path
  PROVE  j = k
<1>1. /\ j \in Nat /\ k \in Nat /\ pts[j].path \in Seq(Names) /\ pts[k].path \in Seq(Names)
  BY ListedFacts
<1>2. ~Before(pts[j].path, pts[k].path) /\ ~Before(pts[k].path, pts[j].path)
  BY <1>1, NotBefore
<1>3. ~(j < k) /\ ~(k < j)
  BY <1>2 DEF Listed
<1> QED  BY <1>1, <1>3

\* The directories a point is in come before it.
LEMMA DirListed ==
  ASSUME NEW pts, Listed(pts), NEW k \in DOMAIN pts, NEW d \in 1..Len(pts[k].path) - 1
  PROVE  \E a \in DOMAIN pts : /\ a < k /\ pts[a].path = SubSeq(pts[k].path, 1, d)
                               /\ pts[a].node.kind = "dir"
<1>1. /\ k \in Nat /\ pts[k].path \in Seq(Names) /\ Len(pts[k].path) \in Nat
  BY ListedFacts
<1>2. d \in 0 + 1..Len(pts[k].path) - 1 /\ d \in 0..Len(pts[k].path) /\ d < Len(pts[k].path)
      /\ d \in Nat
  BY <1>1
<1>3. HasDir(pts, SubSeq(pts[k].path, 1, d))
  BY <1>2 DEF Listed, Closed
<1>4. PICK a \in DOMAIN pts : pts[a].path = SubSeq(pts[k].path, 1, d) /\ pts[a].node.kind = "dir"
  BY <1>3 DEF HasDir
<1>5. a \in Nat /\ pts[a].path \in Seq(Names)
  BY ListedFacts
<1>6. Under(pts[a].path, pts[k].path)
  <2>1. /\ Len(SubSeq(pts[k].path, 1, d)) = d
        /\ \A c \in 1..d : SubSeq(pts[k].path, 1, d)[c] = pts[k].path[c]
    BY <1>1, <1>2, BeginningFacts
  <2> QED  BY <1>2, <1>4, <2>1 DEF Under
<1>7. ~Before(pts[k].path, pts[a].path) /\ ~(pts[k].path = pts[a].path)
  <2>1. ~Before(pts[k].path, pts[a].path)
    BY <1>1, <1>5, <1>6, NotBefore
  <2> QED  BY <1>1, <1>6, <2>1 DEF Under
<1>8. ~(k < a) /\ k # a
  BY <1>7 DEF Listed
<1> QED  BY <1>1, <1>4, <1>5, <1>8

\* What is in a directory is listed together, right after it.
LEMMA ListedTogether ==
  ASSUME NEW pts, Listed(pts), NEW j \in DOMAIN pts, NEW m \in DOMAIN pts, NEW k \in DOMAIN pts,
         j < m, m <= k, Under(pts[j].path, pts[k].path)
  PROVE  Under(pts[j].path, pts[m].path)
<1>1. /\ m \in Nat /\ k \in Nat /\ pts[j].path \in Seq(Names) /\ pts[m].path \in Seq(Names)
      /\ pts[k].path \in Seq(Names)
  BY ListedFacts
<1>2. Before(pts[j].path, pts[m].path)
  BY DEF Listed
<1>3. Before(pts[m].path, pts[k].path) \/ pts[m].path = pts[k].path
  <2>1. m < k \/ m = k
    BY <1>1
  <2> QED  BY <2>1 DEF Listed
<1> QED  BY <1>1, <1>2, <1>3, BetweenIsUnder

\* The last entry of a directory is the one after which no other is listed.
LEMMA LastListed ==
  ASSUME NEW pts, Listed(pts), NEW k \in DOMAIN pts
  PROVE  LastIn(pts, pts[k].path) <=>
           \A m \in DOMAIN pts : Front(pts[m].path) = Front(pts[k].path) => m <= k
<1> DEFINE p == pts[k].path
<1>1. k \in Nat /\ p \in Seq(Names) /\ Len(p) > 0 /\ Len(Front(p)) = Len(p) - 1 /\ Len(p) \in Nat
      /\ Rank[Last(p)] \in Int
  <2>1. k \in Nat /\ p \in Seq(Names) /\ Len(p) \in Nat \ {0}
    BY ListedFacts
  <2>2. Len(p) > 0
    BY <2>1
  <2>3. Len(Front(p)) = Len(p) - 1 /\ Last(p) \in Names
    BY <2>1, <2>2, FrontFacts
  <2> QED  BY <2>1, <2>2, <2>3, RankAssumption
<1>2. ASSUME NEW m \in DOMAIN pts, Front(pts[m].path) = Front(p)
      PROVE  /\ m \in Nat /\ Len(pts[m].path) = Len(p)
             /\ m < k => Rank[Last(pts[m].path)] <= Rank[Last(p)]
             /\ k < m => ~(Rank[Last(pts[m].path)] <= Rank[Last(p)])
  <2> DEFINE q == pts[m].path
  <2>1. m \in Nat /\ q \in Seq(Names) /\ Len(q) \in Nat \ {0}
    BY ListedFacts
  <2>2. Len(q) > 0
    BY <2>1
  <2>3. Len(Front(q)) = Len(q) - 1
    BY <2>1, <2>2, FrontFacts
  <2>4. Len(q) = Len(p) /\ Front(q) = Front(p)
    BY <1>1, <1>2, <2>1, <2>3
  <2>5. m < k => Before(q, p)
    BY DEF Listed
  <2>6. k < m => Before(p, q)
    BY DEF Listed
  <2> HIDE DEF p, q
  <2>7. Before(q, p) => /\ Rank[Last(q)] \in Int /\ Rank[Last(p)] \in Int
                        /\ Rank[Last(q)] < Rank[Last(p)]
    BY <1>1, <2>1, <2>2, <2>4, SiblingOrder
  <2>8. Before(p, q) => /\ Rank[Last(q)] \in Int /\ Rank[Last(p)] \in Int
                        /\ Rank[Last(p)] < Rank[Last(q)]
    BY <1>1, <2>1, <2>2, <2>4, SiblingOrder
  <2>9. m < k => Rank[Last(q)] <= Rank[Last(p)]
    BY <2>5, <2>7
  <2>10. k < m => ~(Rank[Last(q)] <= Rank[Last(p)])
    BY <2>6, <2>8
  <2> QED  BY <2>1, <2>4, <2>9, <2>10 DEF q
<1> HIDE DEF p
<1>3. ASSUME LastIn(pts, p), NEW m \in DOMAIN pts, Front(pts[m].path) = Front(p) PROVE m <= k
  <2>1. Rank[Last(pts[m].path)] <= Rank[Last(p)]
    BY <1>2, <1>3 DEF LastIn
  <2>2. m \in Nat /\ ~(k < m)
    BY <1>2, <1>3, <2>1
  <2> QED  BY <1>1, <2>2
<1>4. ASSUME \A m \in DOMAIN pts : Front(pts[m].path) = Front(p) => m <= k PROVE LastIn(pts, p)
  <2> SUFFICES ASSUME NEW m \in DOMAIN pts, Front(pts[m].path) = Front(p)
               PROVE  Rank[Last(pts[m].path)] <= Rank[Last(p)]
    BY DEF LastIn
  <2>1. m \in Nat /\ m <= k
    BY <1>2, <1>4
  <2>2. CASE m = k
    BY <1>1, <2>2 DEF p
  <2>3. CASE m < k
    BY <1>2, <2>3
  <2> QED  BY <1>1, <2>1, <2>2, <2>3
<1> QED  BY <1>3, <1>4 DEF p

(* The calls of StringifyPoints *)

\* The types of a prefix and of a call.
Marks == {"tab", "bar"}
Calls == [dir : Seq(Names), prefix : Seq(Marks), at : Nat]

\* A prefix below a path.
Bars(pts, prefix, path, n) ==
  /\ Len(prefix) = n
  /\ \A d \in 1..n : prefix[d] = IF LastIn(pts, SubSeq(path, 1, d)) THEN "tab" ELSE "bar"

\* The i-th call when n lines are drawn: its directory is drawn, and of the points in
\* it exactly those it has looked at.
CallOK(pts, c, i, n) ==
  /\ Len(c.dir) = i - 1 /\ Bars(pts, c.prefix, c.dir, i - 1) /\ c.at <= n
  /\ i > 1 => \E a \in 1..n : pts[a].path = c.dir
  /\ \A k \in DOMAIN pts : k > c.at /\ Front(pts[k].path) = c.dir => k > n

\* A directory that is drawn, but not all that is in it, has a call.
OpenOK(pts, calls, n) ==
  \A j \in 1..n, k \in n + 1..Len(pts) :
    Under(pts[j].path, pts[k].path) => \E i \in DOMAIN calls : calls[i].dir = pts[j].path

\* The calls that are under way when n lines are drawn.
Drawing(pts, calls, n) ==
  /\ Listed(pts) /\ calls \in Seq(Calls) /\ calls # << >> /\ n \in 0..Len(pts)
  /\ \A i \in DOMAIN calls : CallOK(pts, calls[i], i, n)
  /\ OpenOK(pts, calls, n)

\* The points a call has not looked at (Rest).
Below(pts, c) == {k \in DOMAIN pts : k > c.at /\ Front(pts[k].path) = c.dir}

\* The innermost call.
LEMMA DrawerFacts ==
  ASSUME NEW pts, NEW calls, NEW n, Drawing(pts, calls, n)
  PROVE  /\ Len(calls) \in Nat \ {0} /\ DOMAIN calls = 1..Len(calls)
         /\ \A i \in DOMAIN calls : calls[i] \in Calls /\ Len(calls[i].dir) = i - 1
         /\ Last(calls) = calls[Len(calls)] /\ Last(calls) \in Calls
         /\ CallOK(pts, Last(calls), Len(calls), n)
         /\ n \in Nat /\ n <= Len(pts) /\ Last(calls).at \in Nat
         /\ Last(calls).dir \in Seq(Names)
<1>1. calls \in Seq(Calls) /\ calls # << >>
  BY DEF Drawing
<1>2. Len(calls) \in Nat \ {0} /\ DOMAIN calls = 1..Len(calls)
  BY <1>1, LenProperties, EmptySeq
<1>3. \A i \in DOMAIN calls : calls[i] \in Calls
  BY <1>1, <1>2, ElementOfSeq
<1>4. \A i \in DOMAIN calls : Len(calls[i].dir) = i - 1
  BY DEF Drawing, CallOK
<1>5. Len(calls) \in DOMAIN calls /\ Last(calls) = calls[Len(calls)]
  BY <1>2 DEF Last
<1>6. CallOK(pts, Last(calls), Len(calls), n)
  BY <1>5 DEF Drawing
<1>7. n \in Nat /\ n <= Len(pts)
  BY ListedFacts DEF Drawing
<1>8. Last(calls) \in Calls
  BY <1>3, <1>5
<1>9. Last(calls).at \in Nat /\ Last(calls).dir \in Seq(Names)
  BY <1>8 DEF Calls
<1> QED  BY <1>2, <1>3, <1>4, <1>5, <1>6, <1>7, <1>8, <1>9

\* Of what is not drawn yet below the directory of the innermost call, the child of that
\* directory is not drawn either.
LEMMA ChildNotDrawn ==
  ASSUME NEW pts, NEW calls, NEW n, Drawing(pts, calls, n),
         NEW m \in n + 1..Len(pts), Under(Last(calls).dir, pts[m].path)
  PROVE  \E b \in Below(pts, Last(calls)) : b <= m
<1> DEFINE c == Last(calls)
           size == Len(calls)
           p == pts[m].path
<1>1. /\ size \in Nat \ {0} /\ c.dir \in Seq(Names) /\ c.at \in Nat /\ c.at <= n /\ n \in Nat
      /\ Len(c.dir) = size - 1
  BY DrawerFacts DEF CallOK
<1>2. Listed(pts) /\ OpenOK(pts, calls, n)
  BY DEF Drawing
<1>3. m \in DOMAIN pts /\ m \in Nat /\ p \in Seq(Names) /\ Len(p) \in Nat /\ m > n /\ m > c.at
  <2>1. m \in DOMAIN pts /\ m \in Nat /\ m > n
    BY <1>1, <1>2, ListedFacts
  <2> QED  BY <1>1, <1>2, <2>1, ListedFacts
<1>4. Len(p) >= size /\ \A d \in 1..size - 1 : p[d] = c.dir[d]
  BY <1>1, <1>3 DEF Under
<1>5. SubSeq(p, 1, size - 1) = c.dir
  <2>1. size - 1 \in 0..Len(p)
    BY <1>1, <1>3, <1>4
  <2>2. /\ SubSeq(p, 1, size - 1) \in Seq(Names) /\ Len(SubSeq(p, 1, size - 1)) = size - 1
        /\ \A d \in 1..size - 1 : SubSeq(p, 1, size - 1)[d] = p[d]
    BY <1>3, <2>1, BeginningFacts
  <2> HIDE DEF p, c, size
  <2> QED  BY <1>1, <1>4, <2>2, SeqEqual
<1>6. CASE Len(p) = size
  <2>1. Front(p) = c.dir
    BY <1>5, <1>6 DEF Front
  <2> QED  BY <1>3, <2>1 DEF Below
<1>7. CASE Len(p) # size
  <2>1. size \in 1..Len(p) - 1
    BY <1>1, <1>3, <1>4, <1>7
  <2>2. PICK b \in DOMAIN pts : b < m /\ pts[b].path = SubSeq(p, 1, size)
    BY <1>2, <1>3, <2>1, DirListed
  <2>3. /\ b \in Nat /\ pts[b].path \in Seq(Names) /\ Len(pts[b].path) = size
        /\ \A d \in 1..size : pts[b].path[d] = p[d]
    <3>1. size \in 0..Len(p)
      BY <1>1, <1>3, <1>4
    <3>2. /\ SubSeq(p, 1, size) \in Seq(Names) /\ Len(SubSeq(p, 1, size)) = size
          /\ \A d \in 1..size : SubSeq(p, 1, size)[d] = p[d]
      BY <1>3, <3>1, BeginningFacts
    <3>3. b \in Nat
      BY <1>2, ListedFacts
    <3> QED  BY <2>2, <3>2, <3>3
  <2>4. Under(pts[b].path, p)
    BY <2>1, <2>3 DEF Under
  <2>5. Front(pts[b].path) = c.dir
    <3>1. size - 1 \in 0..size /\ size - 1 \in 0..Len(p)
      BY <1>1, <1>3, <1>4
    <3>2. /\ Front(pts[b].path) \in Seq(Names) /\ Len(Front(pts[b].path)) = size - 1
          /\ \A d \in 1..size - 1 : Front(pts[b].path)[d] = pts[b].path[d]
      <4>1. Len(pts[b].path) > 0
        BY <1>1, <2>3
      <4> QED  BY <2>3, <4>1, FrontFacts
    <3>3. \A d \in 1..size - 1 : d \in 1..size /\ p[d] = c.dir[d]
      <4>1. size \in Nat
        BY <1>1
      <4>2. \A d \in 1..size - 1 : d \in 1..size
        <5> HIDE DEF size
        <5> QED  BY <4>1
      <4>3. \A d \in 1..size - 1 : p[d] = c.dir[d]
        BY <1>1, <1>4
      <4> HIDE DEF size, p, c
      <4> QED  BY <4>2, <4>3
    <3>4. \A d \in 1..size - 1 : Front(pts[b].path)[d] = c.dir[d]
      <4> HIDE DEF size, p, c
      <4> QED  BY <2>3, <3>2, <3>3
    <3> HIDE DEF c, size, p
    <3> QED  BY <1>1, <3>2, <3>4, SeqEqual
  <2>6. b > n
    <3> SUFFICES ASSUME b \in 1..n PROVE FALSE
      <4>1. b # 0
        BY <1>2, ListedFacts
      <4> QED  BY <1>1, <2>3, <4>1
    <3>1. PICK i \in DOMAIN calls : calls[i].dir = pts[b].path
      BY <1>2, <2>4 DEF OpenOK
    <3>2. i \in 1..size /\ Len(calls[i].dir) = i - 1
      BY DrawerFacts
    <3> QED  BY <1>1, <2>3, <3>1, <3>2
  <2>7. b \in Below(pts, c)
    <3>1. b > c.at
      BY <1>1, <2>3, <2>6
    <3> HIDE DEF c
    <3> QED  BY <2>2, <2>5, <3>1 DEF Below
  <2>8. b <= m
    BY <1>3, <2>2, <2>3
  <2> QED  BY <2>7, <2>8
<1> QED  BY <1>6, <1>7

\* The point a call comes to is the next one in the list.
LEMMA NextDrawn ==
  ASSUME NEW pts, NEW calls, NEW n, Drawing(pts, calls, n),
         NEW k \in Below(pts, Last(calls)), \A j \in Below(pts, Last(calls)) : k <= j
  PROVE  k = n + 1 /\ k \in DOMAIN pts /\ Front(pts[k].path) = Last(calls).dir
<1> DEFINE c == Last(calls)
           size == Len(calls)
<1>1. /\ size \in Nat \ {0} /\ c.dir \in Seq(Names) /\ n \in Nat /\ CallOK(pts, c, size, n)
  BY DrawerFacts
<1>2. Listed(pts) /\ Len(pts) \in Nat /\ DOMAIN pts = 1..Len(pts)
  BY ListedFacts DEF Drawing
<1>3. k \in DOMAIN pts /\ k > c.at /\ Front(pts[k].path) = c.dir
  BY DEF Below
<1>4. k > n /\ k \in Nat
  BY <1>1, <1>2, <1>3 DEF CallOK
<1>5. n + 1 \in n + 1..Len(pts) /\ n + 1 \in DOMAIN pts /\ n + 1 <= k
  BY <1>1, <1>2, <1>3, <1>4
<1>6. Under(c.dir, pts[n + 1].path)
  <2>1. CASE size = 1
    <3>1. Len(c.dir) = 0
      BY <1>1, <2>1 DEF CallOK
    <3>2. Len(pts[n + 1].path) \in Nat \ {0}
      BY <1>2, <1>5, ListedFacts
    <3> QED  BY <3>1, <3>2 DEF Under
  <2>2. CASE size # 1
    <3>1. PICK a \in 1..n : pts[a].path = c.dir
      <4>1. size > 1
        <5>1. size \in Nat \ {0}
          BY <1>1
        <5> HIDE DEF size
        <5> QED  BY <2>2, <5>1
      <4>2. size > 1 => \E a \in 1..n : pts[a].path = c.dir
        <5> HIDE DEF size, c
        <5> QED  BY <1>1 DEF CallOK
      <4> QED  BY <4>1, <4>2
    <3>2. Under(pts[a].path, pts[k].path)
      <4>1. pts[k].path \in Seq(Names) /\ Len(pts[k].path) > 0
        BY <1>2, <1>3, ListedFacts
      <4> QED  BY <1>3, <3>1, <4>1, FrontFacts
    <3>3. a \in DOMAIN pts /\ a < n + 1
      BY <1>1, <1>2, <1>5
    <3>4. Under(pts[a].path, pts[n + 1].path)
      BY <1>2, <1>3, <1>5, <3>2, <3>3, ListedTogether
    <3> QED  BY <3>1, <3>4
  <2> QED  BY <2>1, <2>2
<1>7. PICK b \in Below(pts, c) : b <= n + 1
  BY <1>5, <1>6, ChildNotDrawn
<1>8. k <= b /\ b \in Nat
  <2>1. b \in DOMAIN pts
    BY <1>7 DEF Below
  <2> QED  BY <1>2, <1>7, <2>1
<1>9. k = n + 1
  BY <1>1, <1>4, <1>5, <1>7, <1>8
<1> QED  BY <1>3, <1>9

\* One point left means that it is the last one in its directory.
LEMMA AtEndIsLast ==
  ASSUME NEW pts, NEW c, Listed(pts), c.at \in Nat,
         NEW k \in Below(pts, c), \A j \in Below(pts, c) : k <= j
  PROVE  AtEnd(Below(pts, c)) <=> LastIn(pts, pts[k].path)
<1> DEFINE rest == Below(pts, c)
<1>1. Len(pts) \in Nat /\ DOMAIN pts = 1..Len(pts)
  BY ListedFacts
<1>2. k \in DOMAIN pts /\ k > c.at /\ Front(pts[k].path) = c.dir
  BY DEF Below
<1>3. IsFiniteSet(rest)
  <2>1. IsFiniteSet(1..Len(pts))
    BY <1>1, FS_Interval
  <2>2. rest \in SUBSET (1..Len(pts))
    BY <1>1 DEF Below
  <2> HIDE DEF rest
  <2> QED  BY <2>1, <2>2, FS_Subset
<1>4. AtEnd(rest) <=> \E x : rest = {x}
  <2> HIDE DEF rest
  <2> QED  BY <1>3, FS_Singleton DEF AtEnd
<1>5. (\E x : rest = {x}) <=> \A m \in rest : m = k
  <2>1. k \in rest
    OBVIOUS
  <2> HIDE DEF rest
  <2> QED  BY <2>1
<1>6. (\A m \in rest : m = k) <=> \A m \in DOMAIN pts : Front(pts[m].path) = Front(pts[k].path) => m <= k
  <2>1. ASSUME \A m \in rest : m = k, NEW m \in DOMAIN pts, Front(pts[m].path) = Front(pts[k].path)
        PROVE  m <= k
    <3>1. k \in Nat /\ m \in Nat
      BY <1>1, <1>2
    <3>2. m > c.at => m \in rest
      BY <1>2, <2>1 DEF Below
    <3> HIDE DEF rest
    <3> QED  BY <1>2, <2>1, <3>1, <3>2
  <2>2. ASSUME \A m \in DOMAIN pts : Front(pts[m].path) = Front(pts[k].path) => m <= k,
               NEW m \in rest
        PROVE  m = k
    <3>1. m \in DOMAIN pts /\ Front(pts[m].path) = Front(pts[k].path) /\ k <= m
      BY <1>2 DEF Below
    <3>2. m <= k /\ m \in Nat /\ k \in Nat
      BY <1>1, <1>2, <2>2, <3>1
    <3> QED  BY <3>1, <3>2
  <2> QED  BY <2>1, <2>2
<1>7. LastIn(pts, pts[k].path) <=>
        \A m \in DOMAIN pts : Front(pts[m].path) = Front(pts[k].path) => m <= k
  BY <1>2, LastListed
<1> QED  BY <1>4, <1>5, <1>6, <1>7

(* Prefixes, and the calls after a step *)

\* What the recursive call for a path adds to the prefix.
Mark(pts, path) == IF LastIn(pts, path) THEN "tab" ELSE "bar"

\* The beginnings of a path are those of its directory, and the path.
LEMMA SubFront ==
  ASSUME NEW p \in Seq(Names), Len(p) > 0
  PROVE  /\ \A d \in 1..Len(p) - 1 : SubSeq(p, 1, d) = SubSeq(Front(p), 1, d)
         /\ SubSeq(p, 1, Len(p)) = p
<1>1. /\ Len(p) \in Nat /\ Front(p) \in Seq(Names) /\ Len(Front(p)) = Len(p) - 1
      /\ \A c \in 1..Len(p) - 1 : Front(p)[c] = p[c]
  BY FrontFacts
<1>2. ASSUME NEW d \in 1..Len(p) - 1 PROVE SubSeq(p, 1, d) = SubSeq(Front(p), 1, d)
  <2> DEFINE q == Front(p)
  <2>1. d \in 0..Len(p) /\ d \in 0..Len(q) /\ 1..d \subseteq 1..Len(p) - 1
    BY <1>1
  <2>2. /\ SubSeq(p, 1, d) \in Seq(Names) /\ Len(SubSeq(p, 1, d)) = d
        /\ \A c \in 1..d : SubSeq(p, 1, d)[c] = p[c]
    BY <2>1, BeginningFacts
  <2>3. q \in Seq(Names) /\ \A c \in 1..d : q[c] = p[c]
    BY <1>1, <2>1
  <2> HIDE DEF q
  <2>4. /\ SubSeq(q, 1, d) \in Seq(Names) /\ Len(SubSeq(q, 1, d)) = d
        /\ \A c \in 1..d : SubSeq(q, 1, d)[c] = q[c]
    BY <2>1, <2>3, BeginningFacts
  <2>5. SubSeq(p, 1, d) = SubSeq(q, 1, d)
    BY <2>2, <2>3, <2>4, SeqEqual
  <2> QED  BY <2>5 DEF q
<1>3. SubSeq(p, 1, Len(p)) = p
  <2>1. Len(p) \in 0..Len(p)
    BY <1>1
  <2>2. /\ SubSeq(p, 1, Len(p)) \in Seq(Names) /\ Len(SubSeq(p, 1, Len(p))) = Len(p)
        /\ \A c \in 1..Len(p) : SubSeq(p, 1, Len(p))[c] = p[c]
    BY <2>1, BeginningFacts
  <2> QED  BY <2>2, SeqEqual
<1> QED  BY <1>2, <1>3

\* The prefix of a directory is that of the lines in it.
LEMMA BarsOfChild ==
  ASSUME NEW pts, NEW p \in Seq(Names), Len(p) > 0, NEW prefix \in Seq(Marks),
         Bars(pts, prefix, Front(p), Len(p) - 1)
  PROVE  /\ Bars(pts, prefix, p, Len(p) - 1)
         /\ Append(prefix, Mark(pts, p)) \in Seq(Marks)
         /\ Bars(pts, Append(prefix, Mark(pts, p)), p, Len(p))
<1> DEFINE n == Len(p)
           mark == Mark(pts, p)
           more == Append(prefix, mark)
<1>1. /\ \A d \in 1..n - 1 : SubSeq(p, 1, d) = SubSeq(Front(p), 1, d)
      /\ SubSeq(p, 1, n) = p /\ n \in Nat
  BY SubFront, LenProperties
<1>2. Bars(pts, prefix, p, n - 1)
  BY <1>1 DEF Bars
<1>3. mark \in Marks
  BY DEF Mark, Marks
<1>4. Len(prefix) = n - 1
  BY DEF Bars
<1> HIDE DEF mark
<1>5. /\ more \in Seq(Marks) /\ Len(more) = n - 1 + 1 /\ more[n - 1 + 1] = mark
      /\ \A d \in 1..n - 1 : more[d] = prefix[d]
  <2>1. /\ Append(prefix, mark) \in Seq(Marks)
        /\ Len(Append(prefix, mark)) = Len(prefix) + 1
        /\ \A d \in 1..Len(prefix) : Append(prefix, mark)[d] = prefix[d]
        /\ Append(prefix, mark)[Len(prefix) + 1] = mark
    BY <1>3, AppendProperties
  <2> QED  BY <1>4, <2>1
<1> HIDE DEF more
<1>6. Len(more) = n /\ more[n] = mark /\ \A d \in 1..n : d = n \/ d \in 1..n - 1
  <2>1. n - 1 + 1 = n /\ \A d \in 1..n : d = n \/ d \in 1..n - 1
    <3>1. n \in Nat
      BY <1>1
    <3> HIDE DEF n
    <3> QED  BY <3>1
  <2> QED  BY <1>5, <2>1
<1>7. ASSUME NEW d \in 1..n
      PROVE  more[d] = IF LastIn(pts, SubSeq(p, 1, d)) THEN "tab" ELSE "bar"
  <2>1. CASE d = n
    <3>1. SubSeq(p, 1, d) = p /\ more[d] = mark
      BY <1>1, <1>6, <2>1
    <3> QED  BY <3>1 DEF mark, Mark
  <2>2. CASE d \in 1..n - 1
    <3>1. more[d] = prefix[d]
      BY <1>5, <2>2
    <3>2. prefix[d] = IF LastIn(pts, SubSeq(p, 1, d)) THEN "tab" ELSE "bar"
      BY <1>2, <2>2 DEF Bars
    <3> QED  BY <3>1, <3>2
  <2> QED  BY <1>6, <2>1, <2>2
<1>8. Bars(pts, more, p, n)
  BY <1>6, <1>7 DEF Bars
<1> QED  BY <1>2, <1>5, <1>8 DEF more, mark

\* The calls after the innermost one has looked at a point.
Looked(calls, caller, callees) == Append(Front(calls), caller) \o callees

\* Which calls those are, place by place.
LookedOK(calls, caller, callee, callees, new) ==
  /\ new \in Seq(Calls) /\ new # << >>
  /\ \A i \in DOMAIN new : \/ i \in 1..Len(calls) - 1 /\ new[i] = calls[i]
                           \/ i = Len(calls) /\ new[i] = caller
                           \/ i = Len(calls) + 1 /\ callees # << >> /\ new[i] = callee
  /\ \A i \in 1..Len(calls) - 1 : i \in DOMAIN new /\ new[i] = calls[i]
  /\ Len(calls) \in DOMAIN new /\ new[Len(calls)] = caller
  /\ callees # << >> => Len(calls) + 1 \in DOMAIN new /\ new[Len(calls) + 1] = callee

\* The innermost call is replaced, and one is put on top for a directory.
LEMMA LookedFacts ==
  ASSUME NEW calls \in Seq(Calls), calls # << >>, NEW caller \in Calls, NEW callee \in Calls,
         NEW callees, callees = << >> \/ callees = <<callee>>,
         NEW new, new = Looked(calls, caller, callees)
  PROVE  LookedOK(calls, caller, callee, callees, new)
<1> DEFINE n == Len(calls)
           lower == Front(calls)
           up == Append(lower, caller)
<1>1. n \in Nat \ {0} /\ \A i \in 1..n : calls[i] \in Calls
  BY LenProperties, EmptySeq, ElementOfSeq
<1>2. /\ lower \in Seq(Calls) /\ Len(lower) = n - 1 /\ \A i \in 1..n - 1 : lower[i] = calls[i]
  <2>1. lower = [i \in 1..n - 1 |-> calls[i]]
    BY <1>1 DEF Front
  <2> QED  BY <1>1, <2>1
<1> HIDE DEF lower, n
<1>3. /\ up \in Seq(Calls) /\ Len(up) = n /\ up[n] = caller /\ \A i \in 1..n - 1 : up[i] = calls[i]
  BY <1>1, <1>2
<1> HIDE DEF up
<1>4. new = up \o callees
  BY DEF Looked, up, lower
<1>5. CASE callees = << >>
  <2>1. new = up
    BY <1>3, <1>4, <1>5
  <2>2. DOMAIN up = 1..n /\ n \in 1..n /\ \A i \in 1..n : i = n \/ i \in 1..n - 1
    BY <1>1, <1>3
  <2>3. up # << >>
    BY <1>1, <1>3
  <2>4. \A i \in 1..n - 1 : i \in DOMAIN new /\ new[i] = calls[i]
    <3>1. 1..n - 1 \subseteq 1..n
      BY <1>1
    <3> QED  BY <1>3, <2>1, <2>2, <3>1
  <2>5. n \in DOMAIN new /\ new[n] = caller
    BY <1>3, <2>1, <2>2
  <2>6. \A i \in DOMAIN new : i \in 1..n - 1 \/ i = n
    BY <2>1, <2>2
  <2> QED  BY <1>3, <1>5, <2>1, <2>3, <2>4, <2>5, <2>6 DEF n, LookedOK
<1>6. CASE callees # << >>
  <2>1. new = Append(up, callee)
    BY <1>3, <1>4, <1>6
  <2>2. /\ new \in Seq(Calls) /\ Len(new) = n + 1 /\ new[n + 1] = callee
        /\ \A i \in 1..n : new[i] = up[i]
    BY <1>1, <1>3, <2>1
  <2>3. /\ DOMAIN new = 1..n + 1 /\ n \in 1..n /\ n \in 1..n + 1 /\ n + 1 \in 1..n + 1 /\ new # << >>
        /\ \A i \in 1..n + 1 : i = n + 1 \/ i = n \/ i \in 1..n - 1
        /\ 1..n - 1 \subseteq 1..n /\ 1..n \subseteq 1..n + 1
    BY <1>1, <2>2
  <2>4. \A i \in 1..n - 1 : i \in DOMAIN new /\ new[i] = calls[i]
    BY <1>3, <2>2, <2>3
  <2>5. new[n] = caller
    BY <1>3, <2>2, <2>3
  <2> QED  BY <1>6, <2>2, <2>3, <2>4, <2>5 DEF n, LookedOK
<1> QED  BY <1>5, <1>6

\* When the innermost call returns, nothing below its directory is left to be drawn.
LEMMA NothingLeft ==
  ASSUME NEW pts, NEW calls, NEW n, Drawing(pts, calls, n), Below(pts, Last(calls)) = {},
         NEW m \in n + 1..Len(pts)
  PROVE  ~Under(Last(calls).dir, pts[m].path)
  BY ChildNotDrawn

\* A call that has looked at all of its directory may return.
LEMMA PopDrawing ==
  ASSUME NEW pts, NEW calls, NEW n, Drawing(pts, calls, n), Len(calls) > 1,
         Below(pts, Last(calls)) = {}
  PROVE  Drawing(pts, Front(calls), n)
<1> DEFINE size == Len(calls)
           lower == Front(calls)
<1>1. /\ size \in Nat \ {0} /\ DOMAIN calls = 1..size /\ Last(calls) = calls[size]
      /\ \A i \in DOMAIN calls : calls[i] \in Calls
  BY DrawerFacts
<1>2. /\ lower \in Seq(Calls) /\ lower # << >> /\ DOMAIN lower = 1..size - 1
      /\ \A i \in 1..size - 1 : lower[i] = calls[i] /\ i \in DOMAIN calls
  <2>1. lower = [i \in 1..size - 1 |-> calls[i]]
    BY <1>1 DEF Front
  <2>2. \A i \in 1..size - 1 : i \in DOMAIN calls /\ calls[i] \in Calls
    BY <1>1
  <2>3. size - 1 \in Nat /\ size - 1 # 0
    BY <1>1
  <2> DEFINE m == size - 1
  <2>4. m \in Nat /\ m # 0 /\ lower = [i \in 1..m |-> calls[i]] /\ \A i \in 1..m : calls[i] \in Calls
    BY <2>1, <2>2, <2>3
  <2> HIDE DEF m, lower
  <2>5. /\ lower \in Seq(Calls) /\ DOMAIN lower = 1..m /\ Len(lower) = m
        /\ \A i \in 1..m : lower[i] = calls[i]
    BY <2>4
  <2>6. lower # << >>
    BY <2>4, <2>5
  <2> QED  BY <2>2, <2>5, <2>6 DEF m
<1> HIDE DEF lower
<1>3. \A i \in DOMAIN lower : CallOK(pts, lower[i], i, n)
  BY <1>2 DEF Drawing
<1>4. OpenOK(pts, lower, n)
  <2> SUFFICES ASSUME NEW j \in 1..n, NEW k \in n + 1..Len(pts), Under(pts[j].path, pts[k].path)
               PROVE  \E i \in DOMAIN lower : lower[i].dir = pts[j].path
    BY DEF OpenOK
  <2>1. PICK i \in DOMAIN calls : calls[i].dir = pts[j].path
    BY DEF Drawing, OpenOK
  <2>2. i # size
    BY <1>1, <2>1, NothingLeft
  <2>3. i \in 1..size - 1
    <3>1. i \in 1..size
      BY <1>1
    <3> QED  BY <1>1, <2>2, <3>1
  <2> QED  BY <1>2, <2>1, <2>3
<1> QED  BY <1>2, <1>3, <1>4 DEF Drawing, lower

\* The innermost call looks at its next point and calls itself for a directory.
LEMMA LookDrawing ==
  ASSUME NEW pts, NEW calls, NEW n, Drawing(pts, calls, n),
         NEW k \in Below(pts, Last(calls)), \A j \in Below(pts, Last(calls)) : k <= j,
         NEW caller, caller = Call(Last(calls).dir, Last(calls).prefix, k),
         NEW callee,
         callee = Call(pts[k].path, Append(Last(calls).prefix, Mark(pts, pts[k].path)), k),
         NEW callees, callees = << >> \/ callees = <<callee>>, callees = << >> <=> pts[k].node.kind # "dir",
         NEW new, new = Looked(calls, caller, callees)
  PROVE  Drawing(pts, new, n + 1)
<1> DEFINE c == Last(calls)
           size == Len(calls)
           p == pts[k].path
<1>1. /\ size \in Nat \ {0} /\ DOMAIN calls = 1..size /\ c = calls[size] /\ c \in Calls
      /\ n \in Nat /\ CallOK(pts, c, size, n)
      /\ \A i \in DOMAIN calls : Len(calls[i].dir) = i - 1
  BY DrawerFacts
<1>2. k = n + 1 /\ k \in DOMAIN pts /\ Front(p) = c.dir
  BY NextDrawn
<1>3. Listed(pts) /\ Len(pts) \in Nat /\ DOMAIN pts = 1..Len(pts) /\ OpenOK(pts, calls, n)
      /\ calls \in Seq(Calls) /\ calls # << >>
  BY ListedFacts DEF Drawing
<1>4. p \in Seq(Names) /\ Len(p) > 0 /\ Len(p) \in Nat
  BY <1>2, <1>3, ListedFacts
<1>5. Len(p) = size /\ Len(c.dir) = size - 1
  <2>1. Len(Front(p)) = Len(p) - 1
    BY <1>4, FrontFacts
  <2>2. Len(c.dir) = size - 1
    BY <1>1 DEF CallOK
  <2>3. size \in Nat /\ Len(p) \in Nat /\ Len(Front(p)) = Len(c.dir)
    BY <1>1, <1>2, <1>4
  <2> HIDE DEF size, c, p
  <2> QED  BY <2>1, <2>2, <2>3
<1>6. Bars(pts, c.prefix, c.dir, size - 1) /\ c.prefix \in Seq(Marks) /\ c.dir \in Seq(Names)
  BY <1>1 DEF CallOK, Calls
<1> DEFINE more == Append(c.prefix, Mark(pts, p))
<1>7. more \in Seq(Marks) /\ Bars(pts, more, p, size)
  BY <1>2, <1>4, <1>5, <1>6, BarsOfChild
<1> HIDE DEF more
<1>8. /\ caller \in Calls /\ caller.dir = c.dir /\ caller.prefix = c.prefix /\ caller.at = k
      /\ callee \in Calls /\ callee.dir = p /\ callee.prefix = more /\ callee.at = k
  <2>1. k \in Nat
    BY <1>1, <1>2
  <2>2. callee = Call(p, more, k)
    BY DEF more
  <2> QED  BY <1>4, <1>6, <1>7, <2>1, <2>2 DEF Call, Calls
<1>9. /\ new \in Seq(Calls) /\ new # << >>
      /\ \A i \in DOMAIN new : \/ i \in 1..size - 1 /\ new[i] = calls[i]
                               \/ i = size /\ new[i] = caller
                               \/ i = size + 1 /\ callees # << >> /\ new[i] = callee
      /\ \A i \in 1..size - 1 : i \in DOMAIN new /\ new[i] = calls[i]
      /\ size \in DOMAIN new /\ new[size] = caller
      /\ callees # << >> => size + 1 \in DOMAIN new /\ new[size + 1] = callee
  <2>1. calls \in Seq(Calls) /\ calls # << >> /\ caller \in Calls /\ callee \in Calls
    BY <1>3, <1>8
  <2>2. LookedOK(calls, caller, callee, callees, new)
    BY <2>1, LookedFacts
  <2> QED  BY <2>2 DEF LookedOK
<1> HIDE DEF c, size, p
<1>10. \A m \in DOMAIN pts : m > n => m = k \/ m > n + 1
  BY <1>1, <1>2, <1>3
<1>11. ASSUME NEW i \in 1..size - 1 PROVE CallOK(pts, calls[i], i, n + 1)
  <2>1. CallOK(pts, calls[i], i, n) /\ i \in Nat /\ i < size /\ Len(calls[i].dir) = i - 1
    <3>1. i \in DOMAIN calls
      BY <1>1
    <3> QED  BY <1>1, <3>1 DEF Drawing
  <2>2. calls[i].at <= n + 1
    <3>1. calls[i].at <= n /\ calls[i].at \in Nat
      <4>1. calls[i] \in Calls
        BY <1>1, DrawerFacts
      <4> QED  BY <2>1, <4>1 DEF CallOK, Calls
    <3> QED  BY <1>1, <3>1
  <2>3. i > 1 => \E a \in 1..n + 1 : pts[a].path = calls[i].dir
    <3>1. 1..n \subseteq 1..n + 1
      BY <1>1
    <3> QED  BY <2>1, <3>1 DEF CallOK
  <2>4. ASSUME NEW m \in DOMAIN pts, m > calls[i].at, Front(pts[m].path) = calls[i].dir
        PROVE  m > n + 1
    <3>1. m > n
      BY <2>1, <2>4 DEF CallOK
    <3>2. m # k
      <4>1. Front(pts[k].path) = c.dir
        BY <1>2 DEF p
      <4>2. Len(calls[i].dir) # Len(c.dir)
        BY <1>1, <1>5, <2>1
      <4> QED  BY <2>4, <4>1, <4>2
    <3> QED  BY <1>10, <3>1, <3>2
  <2> QED  BY <2>1, <2>2, <2>3, <2>4 DEF CallOK
<1>12. CallOK(pts, caller, size, n + 1)
  <2>1. caller.at <= n + 1
    BY <1>1, <1>2, <1>8
  <2>2. size > 1 => \E a \in 1..n + 1 : pts[a].path = caller.dir
    <3>1. 1..n \subseteq 1..n + 1
      BY <1>1
    <3> QED  BY <1>1, <1>8, <3>1 DEF CallOK
  <2>3. \A m \in DOMAIN pts : m > caller.at => m > n + 1
    BY <1>2, <1>8
  <2> QED  BY <1>5, <1>6, <1>8, <2>1, <2>2, <2>3 DEF CallOK
<1>13. CallOK(pts, callee, size + 1, n + 1)
  <2>1. size + 1 - 1 = size /\ callee.at <= n + 1 /\ n + 1 \in 1..n + 1
    BY <1>1, <1>2, <1>8
  <2>2. pts[n + 1].path = callee.dir
    BY <1>2, <1>8 DEF p
  <2>3. \A m \in DOMAIN pts : m > callee.at => m > n + 1
    BY <1>2, <1>8
  <2>4. Len(callee.dir) = size /\ Bars(pts, callee.prefix, callee.dir, size)
    BY <1>5, <1>7, <1>8
  <2> QED  BY <2>1, <2>2, <2>3, <2>4 DEF CallOK
<1>14. \A i \in DOMAIN new : CallOK(pts, new[i], i, n + 1)
  BY <1>9, <1>11, <1>12, <1>13
<1>15. OpenOK(pts, new, n + 1)
  <2> SUFFICES ASSUME NEW j \in 1..n + 1, NEW m \in n + 1 + 1..Len(pts),
                      Under(pts[j].path, pts[m].path)
               PROVE  \E i \in DOMAIN new : new[i].dir = pts[j].path
    BY DEF OpenOK
  <2>1. /\ j = n + 1 \/ j \in 1..n
        /\ m \in n + 1..Len(pts) /\ m \in DOMAIN pts /\ k < m
    BY <1>1, <1>2, <1>3
  <2>2. CASE j \in 1..n
    <3>1. PICK i \in DOMAIN calls : calls[i].dir = pts[j].path
      BY <1>3, <2>1, <2>2 DEF OpenOK
    <3>2. i \in 1..size - 1 \/ i = size
      BY <1>1, <3>1
    <3>3. CASE i = size
      BY <1>1, <1>8, <1>9, <3>1, <3>3
    <3>4. CASE i \in 1..size - 1
      BY <1>9, <3>1, <3>4
    <3> QED  BY <3>2, <3>3, <3>4
  <2>3. CASE j = n + 1
    <3>1. Under(p, pts[m].path)
      BY <1>2, <2>3 DEF p
    <3>2. /\ pts[m].path \in Seq(Names) /\ Len(pts[m].path) \in Nat /\ size < Len(pts[m].path)
          /\ \A d \in 1..size : pts[m].path[d] = p[d]
      <4>1. pts[m].path \in Seq(Names) /\ Len(pts[m].path) \in Nat
        BY <1>3, <2>1, ListedFacts
      <4> QED  BY <1>5, <3>1, <4>1 DEF Under
    <3>3. size \in 1..Len(pts[m].path) - 1 /\ size \in 0..Len(pts[m].path)
      BY <1>1, <3>2
    <3>4. PICK a \in DOMAIN pts : pts[a].path = SubSeq(pts[m].path, 1, size) /\ pts[a].node.kind = "dir"
      BY <1>3, <2>1, <3>3, DirListed
    <3>5. SubSeq(pts[m].path, 1, size) = p
      <4>1. /\ SubSeq(pts[m].path, 1, size) \in Seq(Names) /\ Len(SubSeq(pts[m].path, 1, size)) = size
            /\ \A d \in 1..size : SubSeq(pts[m].path, 1, size)[d] = pts[m].path[d]
        BY <3>2, <3>3, BeginningFacts
      <4>2. \A d \in 1..size : SubSeq(pts[m].path, 1, size)[d] = p[d]
        BY <3>2, <4>1
      <4> QED  BY <1>4, <1>5, <4>1, <4>2, SeqEqual
    <3>6. a = k
      BY <1>2, <1>3, <3>4, <3>5, ListedOnce DEF p
    <3>7. callees # << >>
      BY <3>4, <3>6
    <3>8. new[size + 1].dir = pts[j].path /\ size + 1 \in DOMAIN new
      BY <1>2, <1>8, <1>9, <2>3, <3>7 DEF p
    <3> QED  BY <3>8
  <2> QED  BY <2>1, <2>2, <2>3
<1>16. n + 1 \in 0..Len(pts)
  BY <1>1, <1>2, <1>3
<1> QED  BY <1>3, <1>9, <1>14, <1>15, <1>16 DEF Drawing

(* The lines *)

\* The lines of a text.
TextLines ==
  [prefix : Seq(Marks), head : {"corner", "tee"}, name : Names,
   size : {-1} \cup {node.size : node \in Nodes}]

\* The line of a point.
LineOK(pts, l, point) ==
  /\ l.name = Last(point.path)
  /\ l.size = IF point.node.kind = "dir" THEN -1 ELSE point.node.size
  /\ l.head = IF LastIn(pts, point.path) THEN "corner" ELSE "tee"
  /\ Bars(pts, l.prefix, point.path, Len(point.path) - 1)

\* The lines are those of the first points.
Drawn(pts, lines) ==
  /\ lines \in Seq(TextLines)
  /\ \A m \in DOMAIN lines : m \in DOMAIN pts /\ LineOK(pts, lines[m], pts[m])

\* The path that is read from a line is that of its point.
LEMMA PathIsRead ==
  ASSUME NEW pts, Listed(pts), NEW lines, Drawn(pts, lines), NEW k \in DOMAIN lines
  PROVE  PathOf(k, lines) = pts[k].path
<1> DEFINE p == pts[k].path
           Starts(d) == {j \in 1..k : Len(lines[j].prefix) = d - 1}
<1>1. /\ Len(lines) \in Nat /\ DOMAIN lines = 1..Len(lines)
      /\ Len(pts) \in Nat /\ DOMAIN pts = 1..Len(pts)
  BY LenProperties, ListedFacts DEF Drawn
<1>2. k \in Nat \ {0} /\ k \in DOMAIN pts /\ \A j \in 1..k : j \in DOMAIN lines /\ j \in DOMAIN pts
  BY <1>1 DEF Drawn
<1>3. ASSUME NEW j \in DOMAIN lines
      PROVE  /\ Len(lines[j].prefix) = Len(pts[j].path) - 1 /\ Len(pts[j].path) \in Nat \ {0}
             /\ lines[j].name = pts[j].path[Len(pts[j].path)]
             /\ j \in DOMAIN pts
  <2>1. j \in DOMAIN pts /\ LineOK(pts, lines[j], pts[j])
    BY DEF Drawn
  <2>2. Len(pts[j].path) \in Nat \ {0}
    BY <2>1, ListedFacts
  <2> QED  BY <2>1, <2>2 DEF LineOK, Bars, Last
<1>4. p \in Seq(Names) /\ Len(p) \in Nat \ {0} /\ Len(lines[k].prefix) + 1 = Len(p)
  <2>1. p \in Seq(Names) /\ Len(p) \in Nat \ {0}
    BY <1>2, ListedFacts
  <2>2. Len(lines[k].prefix) = Len(p) - 1
    BY <1>3
  <2> HIDE DEF p
  <2> QED  BY <2>1, <2>2
<1>5. ASSUME NEW d \in 1..Len(p)
      PROVE  lines[Max(Starts(d))].name = p[d]
  <2>1. PICK a \in 1..k : /\ Len(pts[a].path) = d /\ pts[a].path[d] = p[d]
                          /\ \A j \in 1..k : Len(pts[j].path) = d => j <= a
    <3>1. CASE d = Len(p)
      BY <1>2, <3>1
    <3>2. CASE d # Len(p)
      <4>1. d \in 1..Len(p) - 1 /\ d \in 0..Len(p) /\ d \in 1..d
        BY <1>4, <3>2
      <4>2. PICK a \in DOMAIN pts : a < k /\ pts[a].path = SubSeq(p, 1, d)
        BY <1>2, <4>1, DirListed
      <4>3. a \in 1..k
        BY <1>1, <1>2, <4>2
      <4>4. /\ pts[a].path \in Seq(Names) /\ Len(pts[a].path) = d
            /\ \A c \in 1..d : pts[a].path[c] = p[c]
        BY <1>4, <4>1, <4>2, BeginningFacts
      <4>5. Under(pts[a].path, p)
        BY <1>4, <4>1, <4>4 DEF Under
      <4>6. ASSUME NEW j \in 1..k, Len(pts[j].path) = d PROVE j <= a
        <5>1. a < j => Under(pts[a].path, pts[j].path)
          BY <1>2, <4>5, ListedTogether
        <5>2. ~Under(pts[a].path, pts[j].path)
          BY <4>4, <4>6 DEF Under
        <5> QED  BY <4>3, <5>1, <5>2
      <4> QED  BY <4>1, <4>3, <4>4, <4>6
    <3> QED  BY <3>1, <3>2
  <2>2. \A j \in 1..k : j \in Starts(d) <=> Len(pts[j].path) = d
    <3>1. ASSUME NEW j \in 1..k PROVE Len(lines[j].prefix) = d - 1 <=> Len(pts[j].path) = d
      <4>1. Len(lines[j].prefix) = Len(pts[j].path) - 1 /\ Len(pts[j].path) \in Nat \ {0}
        BY <1>2, <1>3
      <4>2. d \in Nat
        BY <1>4
      <4> QED  BY <4>1, <4>2
    <3> QED  BY <3>1
  <2>3. Max(Starts(d)) = a
    <3>1. a \in Starts(d) /\ \A j \in Starts(d) : a >= j
      <4>1. a \in Starts(d)
        BY <2>1, <2>2
      <4>2. \A j \in Starts(d) : j \in 1..k /\ j <= a
        BY <2>1, <2>2
      <4> QED  BY <4>1, <4>2
    <3>2. \A j \in Starts(d) : j \in Nat
      OBVIOUS
    <3> DEFINE S == Starts(d)
    <3>3. a \in S /\ S \subseteq Nat /\ \A j \in S : a >= j
      BY <3>1, <3>2
    <3> HIDE DEF S, Starts
    <3>4. Max(S) = CHOOSE x \in S : \A y \in S : x >= y
      BY DEF Max
    <3>5. Max(S) \in S /\ \A y \in S : Max(S) >= y
      BY <3>3, <3>4
    <3>6. Max(S) = a
      <4> DEFINE x == Max(S)
      <4>1. x \in Nat /\ a \in Nat /\ x >= a /\ a >= x
        BY <3>3, <3>5
      <4> HIDE DEF x
      <4>2. x = a
        BY <4>1
      <4> QED  BY <4>2 DEF x
    <3> QED  BY <3>6 DEF S
  <2>4. lines[a].name = pts[a].path[Len(pts[a].path)]
    BY <1>2, <1>3
  <2> QED  BY <2>1, <2>3, <2>4
<1>6. PathOf(k, lines) = [d \in 1..Len(p) |-> lines[Max(Starts(d))].name]
  BY <1>4 DEF PathOf
<1>7. p = [d \in 1..Len(p) |-> p[d]]
  <2> HIDE DEF p
  <2> QED  BY <1>4
<1> HIDE DEF Starts, p
<1>8. [d \in 1..Len(p) |-> lines[Max(Starts(d))].name] = [d \in 1..Len(p) |-> p[d]]
  BY <1>5
<1> QED  BY <1>6, <1>7, <1>8 DEF p

(* The text *)

\* The lines, the calls that make them and the text, once the walk has returned.
DrawInv ==
  /\ Drawn(points, drawn)
  /\ drawing # << >> =>
       walkPc = "returned" /\ written = << >> /\ Drawing(points, drawing, Len(drawn))
  /\ written # << >> =>
       /\ walkPc = "returned" /\ drawing = << >>
       /\ written = <<drawn>> /\ Len(drawn) = Len(points)
  /\ drawing = << >> /\ written = << >> => drawn = << >>

\* What the walk returned is a list of a tree.
LEMMA ReturnedListed ==
  ASSUME WalkInv, WalkFindsWhatWasThere, ListInv, walkPc = "returned"
  PROVE  Listed(points)
  BY DEF WalkInv, WalkType, WalkFindsWhatWasThere, ListInv, Listed

\* The outermost call begins, at the directory that is printed.
LEMMA CallDraws ==
  ASSUME Listed(points), DrawInv, CallStringify
  PROVE  DrawInv'
<1> DEFINE c == Call(Root, << >>, 0)
<1>1. /\ walkPc = "returned" /\ drawing = << >> /\ written = << >> /\ drawing' = <<c>>
      /\ UNCHANGED <<walkPc, points, drawn, written>>
  BY DEF CallStringify, walkVars
<1>2. drawn = << >> /\ drawn' = << >> /\ Len(drawn) = 0
  BY <1>1 DEF DrawInv
<1>3. c \in Calls /\ c.dir = << >> /\ c.prefix = << >> /\ c.at = 0
  BY DEF Call, Calls, Root
<1> HIDE DEF c
<1>4. /\ <<c>> \in Seq(Calls) /\ <<c>> # << >> /\ DOMAIN <<c>> = {1} /\ <<c>>[1] = c
  BY <1>3
<1>5. CallOK(points, c, 1, 0)
  <2>1. Bars(points, << >>, << >>, 0)
    BY DEF Bars
  <2>2. \A k \in DOMAIN points : k > 0
    BY ListedFacts
  <2> QED  BY <1>3, <2>1, <2>2 DEF CallOK
<1>6. Drawing(points, <<c>>, 0)
  <2>1. 0 \in 0..Len(points)
    BY ListedFacts
  <2>2. OpenOK(points, <<c>>, 0)
    BY DEF OpenOK
  <2> QED  BY <1>4, <1>5, <2>1, <2>2 DEF Drawing
<1>7. Drawn(points, drawn)
  BY DEF DrawInv
<1>8. Drawn(points', drawn') /\ Drawing(points', drawing', Len(drawn'))
  BY <1>1, <1>2, <1>6, <1>7
<1> QED  BY <1>1, <1>4, <1>8 DEF DrawInv

\* A line more is a line right.
LEMMA DrawnAppend ==
  ASSUME NEW pts, NEW lines, Drawn(pts, lines), NEW l \in TextLines,
         NEW k, k = Len(lines) + 1, k \in DOMAIN pts, LineOK(pts, l, pts[k])
  PROVE  Drawn(pts, Append(lines, l)) /\ Len(Append(lines, l)) = Len(lines) + 1
<1> DEFINE more == Append(lines, l)
<1>1. lines \in Seq(TextLines)
  BY DEF Drawn
<1>2. /\ more \in Seq(TextLines) /\ Len(more) = Len(lines) + 1 /\ more[Len(lines) + 1] = l
      /\ \A m \in 1..Len(lines) : more[m] = lines[m]
      /\ DOMAIN lines = 1..Len(lines) /\ DOMAIN more = 1..Len(lines) + 1 /\ Len(lines) \in Nat
  BY <1>1, AppendProperties, LenProperties
<1> HIDE DEF more
<1>3. ASSUME NEW m \in DOMAIN more PROVE m \in DOMAIN pts /\ LineOK(pts, more[m], pts[m])
  <2>1. m = k \/ m \in DOMAIN lines
    BY <1>2
  <2>2. CASE m = k
    BY <1>2, <2>2
  <2>3. CASE m \in DOMAIN lines
    <3>1. more[m] = lines[m] /\ m \in DOMAIN pts /\ LineOK(pts, lines[m], pts[m])
      BY <1>2, <2>3 DEF Drawn
    <3> QED  BY <3>1
  <2> QED  BY <2>1, <2>2, <2>3
<1> QED  BY <1>2, <1>3 DEF Drawn, more

\* One turn of the loop draws the line of the next point in the list.
LEMMA PointDraws ==
  ASSUME Listed(points), DrawInv, DrawPoint
  PROVE  DrawInv'
<1> DEFINE c == Drawer
           n == Len(drawn)
<1>1. drawing # << >> /\ UNCHANGED <<walkPc, points, written>>
  BY DEF DrawPoint, walkVars
<1>2. /\ walkPc = "returned" /\ written = << >> /\ Drawing(points, drawing, n)
      /\ Drawn(points, drawn)
  BY <1>1 DEF DrawInv
<1>3. Rest = Below(points, c) /\ c = Last(drawing)
  BY DEF Rest, Below, Drawer
<1> HIDE DEF c
<1>4. PICK k \in Rest :
        LET prefix == Drawer.prefix
            caller == Call(Drawer.dir, prefix, k)
            callee == Call(points[k].path, Append(prefix, IF AtEnd(Rest) THEN "tab" ELSE "bar"), k)
        IN  /\ \A j \in Rest : k <= j
            /\ drawn' = Append(drawn, Line(prefix, IF AtEnd(Rest) THEN "corner" ELSE "tee", points[k]))
            /\ drawing' = Append(Front(drawing), caller) \o
                            (IF points[k].node.kind = "dir" THEN <<callee>> ELSE << >>)
  BY DEF DrawPoint
<1> DEFINE p == points[k].path
           caller == Call(c.dir, c.prefix, k)
           callee == Call(p, Append(c.prefix, Mark(points, p)), k)
           callees == IF points[k].node.kind = "dir" THEN <<callee>> ELSE << >>
           l == Line(c.prefix, IF LastIn(points, p) THEN "corner" ELSE "tee", points[k])
<1>5. /\ k \in Below(points, c) /\ \A j \in Below(points, c) : k <= j
  BY <1>3, <1>4
<1>6. c \in Calls /\ c.at \in Nat
  <2>1. Last(drawing) \in Calls /\ Last(drawing).at \in Nat
    BY <1>2, DrawerFacts
  <2> QED  BY <1>3, <2>1
<1>7. AtEnd(Rest) <=> LastIn(points, p)
  BY <1>3, <1>5, <1>6, AtEndIsLast
<1>8. drawn' = Append(drawn, l) /\ drawing' = Looked(drawing, caller, callees)
  BY <1>4, <1>7 DEF Looked, Mark, c
<1>9. k = n + 1 /\ k \in DOMAIN points /\ Front(p) = c.dir
  BY <1>2, <1>3, <1>5, NextDrawn
<1>10. p \in Seq(Names) /\ Len(p) > 0 /\ Len(p) \in Nat /\ points[k] \in Points
  <2>1. points[k] \in Points
    BY <1>9, LenProperties, ElementOfSeq DEF Listed
  <2> QED  BY <1>9, <2>1, ListedFacts
<1>11. /\ l \in TextLines /\ LineOK(points, l, points[k])
  <2>1. Last(p) \in Names /\ Len(c.dir) = Len(p) - 1
    BY <1>9, <1>10, FrontFacts
  <2>2. c.prefix \in Seq(Marks) /\ Bars(points, c.prefix, c.dir, Len(p) - 1)
    <3>1. CallOK(points, c, Len(drawing), n) /\ Len(drawing) \in Nat
      BY <1>2, <1>3, DrawerFacts
    <3>2. Bars(points, c.prefix, c.dir, Len(drawing) - 1) /\ Len(c.dir) = Len(drawing) - 1
      BY <3>1 DEF CallOK
    <3>3. Len(drawing) - 1 = Len(p) - 1
      BY <2>1, <3>2
    <3> QED  BY <1>6, <3>2, <3>3 DEF Calls
  <2>3. Bars(points, c.prefix, p, Len(p) - 1)
    <3> HIDE DEF p
    <3> QED  BY <1>9, <1>10, <2>2, BarsOfChild
  <2>4. /\ l.prefix = c.prefix /\ l.name = Last(p)
        /\ l.head = IF LastIn(points, p) THEN "corner" ELSE "tee"
        /\ l.size = IF points[k].node.kind = "dir" THEN -1 ELSE points[k].node.size
    BY DEF Line
  <2>5. l.size \in {-1} \cup {node.size : node \in Nodes}
    <3>1. points[k].node \in Nodes
      BY <1>10 DEF Points
    <3> QED  BY <2>4, <3>1
  <2>6. l = [prefix |-> l.prefix, head |-> l.head, name |-> l.name, size |-> l.size]
    BY DEF Line
  <2>7. LineOK(points, l, points[k])
    BY <2>3, <2>4 DEF LineOK
  <2>8. l.head \in {"corner", "tee"} /\ l.name \in Names /\ l.prefix \in Seq(Marks)
    BY <2>1, <2>2, <2>4
  <2> HIDE DEF l
  <2>9. l \in TextLines
    BY <2>5, <2>6, <2>8 DEF TextLines
  <2> QED  BY <2>7, <2>9
<1>12. Drawn(points, drawn') /\ Len(drawn') = n + 1
  <2> HIDE DEF l
  <2> QED  BY <1>2, <1>8, <1>9, <1>11, DrawnAppend
<1>13. Drawing(points, drawing', n + 1)
  <2>1. /\ callees = << >> \/ callees = <<callee>>
        /\ callees = << >> <=> points[k].node.kind # "dir"
    OBVIOUS
  <2>2. /\ caller = Call(Last(drawing).dir, Last(drawing).prefix, k)
        /\ callee = Call(points[k].path, Append(Last(drawing).prefix, Mark(points, points[k].path)), k)
    BY <1>3
  <2>3. k \in Below(points, Last(drawing)) /\ \A j \in Below(points, Last(drawing)) : k <= j
    BY <1>3, <1>5
  <2> HIDE DEF caller, callee, callees, n
  <2> QED  BY <1>2, <1>8, <2>1, <2>2, <2>3, LookDrawing
<1>14. drawing' # << >>
  BY <1>13 DEF Drawing
<1>15. Drawn(points', drawn') /\ Drawing(points', drawing', Len(drawn'))
  BY <1>1, <1>12, <1>13
<1> QED  BY <1>1, <1>2, <1>14, <1>15 DEF DrawInv

\* A call for a directory returns.
LEMMA ReturnDraws ==
  ASSUME Listed(points), DrawInv, StringifyReturns
  PROVE  DrawInv'
<1>1. /\ Len(drawing) > 1 /\ Rest = {} /\ drawing' = Front(drawing)
      /\ UNCHANGED <<walkPc, points, drawn, written>>
  BY DEF StringifyReturns, walkVars
<1>2. drawing # << >>
  BY <1>1
<1>3. /\ walkPc = "returned" /\ written = << >> /\ Drawing(points, drawing, Len(drawn))
      /\ Drawn(points, drawn)
  BY <1>2 DEF DrawInv
<1>4. Below(points, Last(drawing)) = {}
  BY <1>1 DEF Rest, Below, Drawer
<1>5. Drawing(points, drawing', Len(drawn))
  BY <1>1, <1>3, <1>4, PopDrawing
<1>6. drawing' # << >>
  BY <1>5 DEF Drawing
<1>7. Drawn(points', drawn') /\ Drawing(points', drawing', Len(drawn'))
  BY <1>1, <1>3, <1>5
<1> QED  BY <1>1, <1>3, <1>6, <1>7 DEF DrawInv

\* The outermost call has drawn every point when it returns.
LEMMA WriteDraws ==
  ASSUME Listed(points), DrawInv, Write
  PROVE  DrawInv'
<1>1. /\ Len(drawing) = 1 /\ Rest = {} /\ drawing' = << >> /\ written' = <<drawn>>
      /\ UNCHANGED <<walkPc, points, drawn>>
  BY DEF Write, walkVars
<1>2. drawing # << >>
  BY <1>1
<1>3. /\ walkPc = "returned" /\ Drawing(points, drawing, Len(drawn)) /\ Drawn(points, drawn)
  BY <1>2 DEF DrawInv
<1> DEFINE n == Len(drawn)
           c == Last(drawing)
<1>4. Below(points, c) = {}
  BY <1>1 DEF Rest, Below, Drawer
<1>5. n \in Nat /\ n <= Len(points) /\ Len(points) \in Nat /\ Len(c.dir) = 0
  <2>1. n \in Nat /\ n <= Len(points) /\ CallOK(points, c, Len(drawing), n)
    BY <1>3, DrawerFacts
  <2> QED  BY <1>1, <2>1, ListedFacts DEF CallOK
<1>6. n = Len(points)
  <2> SUFFICES ASSUME n # Len(points) PROVE FALSE
    OBVIOUS
  <2>1. n + 1 \in n + 1..Len(points) /\ n + 1 \in DOMAIN points
    BY <1>5, ListedFacts
  <2>2. Under(c.dir, points[n + 1].path)
    <3>1. Len(points[n + 1].path) \in Nat \ {0}
      BY <2>1, ListedFacts
    <3> QED  BY <1>5, <3>1 DEF Under
  <2> HIDE DEF n, c
  <2>3. ~Under(c.dir, points[n + 1].path)
    BY <1>3, <1>4, <2>1, NothingLeft DEF n, c
  <2> QED  BY <2>2, <2>3
<1>7. Drawn(points', drawn')
  BY <1>1, <1>3
<1> QED  BY <1>1, <1>3, <1>6, <1>7 DEF DrawInv

\* The walk has nothing to do any more once it has returned.
LEMMA WalkKeepsDraw ==
  ASSUME DrawInv, [WalkNext]_walkVars, UNCHANGED textVars
  PROVE  DrawInv'
<1>1. UNCHANGED <<drawing, drawn, written>>
  BY DEF textVars
<1>2. CASE drawing = << >> /\ written = << >>
  <2>1. drawn' = << >> /\ drawing' = << >> /\ written' = << >>
    BY <1>1, <1>2 DEF DrawInv
  <2>2. << >> \in Seq(TextLines) /\ DOMAIN << >> = {}
    OBVIOUS
  <2>3. Drawn(points', << >>)
    BY <2>2 DEF Drawn
  <2>4. Drawn(points', drawn')
    BY <2>1, <2>3
  <2> QED  BY <2>1, <2>4 DEF DrawInv
<1>3. CASE drawing # << >> \/ written # << >>
  <2>1. walkPc = "returned"
    BY <1>3 DEF DrawInv
  <2>2. UNCHANGED <<walkPc, points>>
    BY <2>1 DEF WalkNext, walkVars, Usage, CallInspectDir, Lstat, LstatError, Readdir, ReaddirError,
                StatName, SortFiles, Descend, TakeFile, Ascend, Return, RemovePath, PutPath, Becomes
  <2> QED  BY <1>1, <2>2 DEF DrawInv
<1> QED  BY <1>2, <1>3

\* The invariant of the whole program.
TreeInv == WalkInv /\ WalkFindsWhatWasThere /\ ListInv /\ DrawInv

\* Nothing is drawn before the walk.
LEMMA TreeInvInit == TreeInit => TreeInv
<1> SUFFICES ASSUME TreeInit PROVE TreeInv
  OBVIOUS
<1>1. WalkInit /\ drawing = << >> /\ drawn = << >> /\ written = << >>
  BY DEF TreeInit
<1>2. WalkInv /\ WalkFindsWhatWasThere /\ ListInv
  <2>1. WalkFindsWhatWasThere
    BY <1>1 DEF WalkInit, WalkFindsWhatWasThere
  <2> QED  BY <1>1, <2>1, WalkInvInit, InitList
<1>3. Drawn(points, << >>)
  <2>1. << >> \in Seq(TextLines) /\ DOMAIN << >> = {}
    OBVIOUS
  <2> QED  BY <2>1 DEF Drawn
<1>4. DrawInv
  BY <1>1, <1>3 DEF DrawInv
<1> QED  BY <1>2, <1>4 DEF TreeInv

\* Every step of the walk and of the drawing keeps the invariant.
LEMMA TreeInvStep == TreeInv /\ [TreeNext]_treeVars => TreeInv'
<1> SUFFICES ASSUME TreeInv, [TreeNext]_treeVars PROVE TreeInv'
  OBVIOUS
<1>1. [WalkNext]_walkVars
  BY DEF TreeNext, treeVars, CallStringify, DrawPoint, StringifyReturns, Write
<1>2. WalkInv' /\ WalkFindsWhatWasThere' /\ ListInv'
  BY <1>1, WalkInvStep, WalkFindsStep, NextList DEF TreeInv
<1>3. CASE CallStringify \/ DrawPoint \/ StringifyReturns \/ Write
  <2>1. walkPc = "returned"
    <3>1. CallStringify \/ drawing # << >>
      BY <1>3 DEF DrawPoint, StringifyReturns, Write
    <3> QED  BY <3>1 DEF CallStringify, TreeInv, DrawInv
  <2>2. Listed(points)
    BY <2>1, ReturnedListed DEF TreeInv
  <2>3. DrawInv'
    BY <1>3, <2>2, CallDraws, PointDraws, ReturnDraws, WriteDraws DEF TreeInv
  <2> QED  BY <1>2, <2>3 DEF TreeInv
<1>4. CASE ~(CallStringify \/ DrawPoint \/ StringifyReturns \/ Write)
  <2>1. UNCHANGED textVars
    BY <1>4 DEF TreeNext, treeVars
  <2>2. DrawInv'
    BY <1>1, <2>1, WalkKeepsDraw DEF TreeInv
  <2> QED  BY <1>2, <2>2 DEF TreeInv
<1> QED  BY <1>3, <1>4

\* The text that is written.
LEMMA TreeInvDraws == TreeInv => LinesDrawTree
<1> SUFFICES ASSUME TreeInv, written # << >> PROVE LinesDrawTree
  BY DEF LinesDrawTree
<1>1. walkPc = "returned" /\ written = <<drawn>> /\ Len(drawn) = Len(points) /\ Drawn(points, drawn)
  BY DEF TreeInv, DrawInv
<1>2. Listed(points)
  BY <1>1, ReturnedListed DEF TreeInv
<1>3. ASSUME NEW k \in DOMAIN drawn
      PROVE  LET path == points[k].path
                 node == points[k].node
             IN  /\ PathOf(k, drawn) = path
                 /\ drawn[k].size = IF node.kind = "dir" THEN -1 ELSE node.size
                 /\ drawn[k].head = IF IsLast(path) THEN "corner" ELSE "tee"
                 /\ \A d \in 1..Len(path) - 1 :
                      drawn[k].prefix[d] = IF IsLast(SubSeq(path, 1, d)) THEN "tab" ELSE "bar"
  <2>1. PathOf(k, drawn) = points[k].path
    BY <1>1, <1>2, PathIsRead
  <2>2. LineOK(points, drawn[k], points[k])
    BY <1>1 DEF Drawn
  <2>3. ASSUME NEW path PROVE IsLast(path) <=> LastIn(points, path)
    BY DEF IsLast, LastIn
  <2> QED  BY <2>1, <2>2, <2>3 DEF LineOK, Bars
<1>4. DOMAIN written = {1} /\ written[1] = drawn
  BY <1>1
<1> QED  BY <1>1, <1>3, <1>4 DEF LinesDrawTree

\* For any file system, of any depth, and any changes other processes make to it: the
\* text that is written has a line for every point the walk returned, in their order,
\* each readable back to its path, with the corners and bars of its directories.
THEOREM TextDrawsTree == TreeSpec => []LinesDrawTree
  BY TreeInvInit, TreeInvStep, TreeInvDraws, PTL DEF TreeSpec

-----------------------------------------------------------------------------
(* I2s *)

(* Parts of data, types and values *)

\* A type has its parts among the types.
LEMMA TypeParts ==
  ASSUME NEW type \in Types
  PROVE  /\ type.kind = "struct" =>
              /\ Len(type.fields) \in Nat /\ DOMAIN type.fields = 1..Len(type.fields)
              /\ \A i \in DOMAIN type.fields : type.fields[i].type \in Types
         /\ type.kind = "slice" => type.elem \in Types
<1>1. ASSUME type.kind = "struct"
      PROVE  /\ Len(type.fields) \in Nat /\ DOMAIN type.fields = 1..Len(type.fields)
             /\ \A i \in DOMAIN type.fields : type.fields[i].type \in Types
  <2> DEFINE fields == type.fields
             S == [name : STRING, type : Types]
  <2>1. fields \in Seq(S)
    BY <1>1, TypesAssumption
  <2>2. \A f \in S : f.type \in Types
    OBVIOUS
  <2> HIDE DEF S, fields
  <2>3. Len(fields) \in Nat /\ DOMAIN fields = 1..Len(fields) /\ \A i \in 1..Len(fields) : fields[i] \in S
    BY <2>1, LenProperties, ElementOfSeq
  <2>4. \A i \in DOMAIN fields : fields[i].type \in Types
    BY <2>2, <2>3
  <2> QED  BY <2>3, <2>4 DEF fields
<1> QED  BY <1>1, TypesAssumption

\* Data has its parts among the data.
LEMMA DataParts ==
  ASSUME NEW d \in Data
  PROVE  /\ d.kind \in {"nil", "float64", "map", "list"} \cup ScalarKinds
         /\ d.kind = "map" => \A name \in DOMAIN d.entries : d.entries[name] \in Data
         /\ d.kind = "list" =>
              /\ Len(d.elems) \in Nat /\ DOMAIN d.elems = 1..Len(d.elems)
              /\ \A i \in DOMAIN d.elems : d.elems[i] \in Data
<1>1. ASSUME d.kind = "list"
      PROVE  /\ Len(d.elems) \in Nat /\ DOMAIN d.elems = 1..Len(d.elems)
             /\ \A i \in DOMAIN d.elems : d.elems[i] \in Data
  <2>1. d.elems \in Seq(Data)
    BY <1>1, DataAssumption
  <2> QED  BY <2>1, LenProperties, ElementOfSeq
<1> QED  BY <1>1, DataAssumption

\* A value is made of the values of its parts.
LEMMA ValueParts ==
  ASSUME NEW type \in Types, NEW value \in Values(type)
  PROVE  /\ type.kind = "struct" =>
              /\ value = Struct([i \in DOMAIN type.fields |-> value.fields[i]])
              /\ \A i \in DOMAIN type.fields : value.fields[i] \in Values(type.fields[i].type)
         /\ type.kind = "slice" =>
              value = Slice(value.elems) /\ value.elems \in Seq(Values(type.elem))
  BY ValuesAssumption

(* What the reference says, case by case *)

\* What Fits says of a struct type.
LEMMA FitsStruct ==
  ASSUME NEW d \in Data, NEW type \in Types, type.kind = "struct"
  PROVE  Fits(d, type) <=> d.kind = "map" /\ \A i \in DOMAIN type.fields : FieldFits(Fits, d, type, i)
<1>1. Fits(d, type) <=> FitsBy(Fits, d, type)
  BY FitsAssumption
<1> QED  BY <1>1 DEF FitsBy

\* What Fits says of a slice type.
LEMMA FitsSlice ==
  ASSUME NEW d \in Data, NEW type \in Types, type.kind = "slice"
  PROVE  Fits(d, type) <=> d.kind = "list" /\ \A i \in DOMAIN d.elems : Fits(d.elems[i], type.elem)
<1>1. Fits(d, type) <=> FitsBy(Fits, d, type)
  BY FitsAssumption
<1> QED  BY <1>1 DEF FitsBy

\* What Fits says of the other types: the kind i2s_impl looks for.
LEMMA FitsScalar ==
  ASSUME NEW d \in Data, NEW type \in Types, type.kind \notin {"struct", "slice"}
  PROVE  Fits(d, type) <=> d.kind \notin {"map", "list", "nil"} /\ type.kind = WantedKind(d)
                           /\ type.kind \in ScalarKinds
<1>1. Fits(d, type) <=> FitsBy(Fits, d, type)
  BY FitsAssumption
<1>2. d.kind \in {"nil", "float64", "map", "list"} \cup ScalarKinds
  BY DataParts
<1>3. FitsBy(Fits, d, type) <=> IF type.kind = "int" THEN d.kind \in {"int", "float64"}
                                ELSE d.kind = type.kind /\ type.kind \in ScalarKinds
  BY DEF FitsBy
<1> QED  BY <1>1, <1>2, <1>3 DEF WantedKind, ScalarKinds

\* What Merged says of a struct.
LEMMA MergedStruct ==
  ASSUME NEW d \in Data, NEW type \in Types, type.kind = "struct", Fits(d, type),
         NEW value \in Values(type)
  PROVE  Merged(d, type, value) =
           Struct([i \in DOMAIN type.fields |->
             Merged(FieldData(d, type, i), type.fields[i].type, value.fields[i])])
<1>1. Merged(d, type, value) = MergedBy(Merged, d, type, value)
  BY MergedAssumption
<1>2. MergedBy(Merged, d, type, value) =
        Struct([i \in DOMAIN type.fields |->
          Merged(FieldData(d, type, i), type.fields[i].type, value.fields[i])])
  BY FitsStruct DEF MergedBy
<1> QED  BY <1>1, <1>2

\* What Merged says of a slice.
LEMMA MergedSlice ==
  ASSUME NEW d \in Data, NEW type \in Types, type.kind = "slice", Fits(d, type),
         NEW value \in Values(type)
  PROVE  Merged(d, type, value) =
           Slice(value.elems \o [i \in DOMAIN d.elems |->
                                   Merged(d.elems[i], type.elem, Zero(type.elem))])
<1>1. Merged(d, type, value) = MergedBy(Merged, d, type, value)
  BY MergedAssumption
<1>2. MergedBy(Merged, d, type, value) =
        Slice(value.elems \o [i \in DOMAIN d.elems |->
                                Merged(d.elems[i], type.elem, Zero(type.elem))])
  BY FitsSlice DEF MergedBy
<1> QED  BY <1>1, <1>2

\* Dropping the fraction gives the whole number the reference asks for.
LEMMA TruncatedIs ==
  ASSUME NEW h \in Int
  PROVE  Truncated(h) = CHOOSE n \in -h..h \cup h..-h : TruncatesTo(h, n)
<1>1. Truncated(h) \in -h..h \cup h..-h /\ TruncatesTo(h, Truncated(h)) /\ Truncated(h) \in Int
  <2>1. CASE h >= 0
    <3>1. h \div 2 \in Int /\ 2 * (h \div 2) <= h /\ h < 2 * (h \div 2) + 2
      OBVIOUS
    <3> QED  BY <2>1, <3>1 DEF Truncated, TruncatesTo
  <2>2. CASE h < 0
    <3> DEFINE g == -h
    <3>1. g \in Nat /\ h = -g
      BY <2>2
    <3> HIDE DEF g
    <3>2. g \div 2 \in Int /\ 2 * (g \div 2) <= g /\ g < 2 * (g \div 2) + 2
      BY <3>1
    <3>3. Truncated(h) = -(g \div 2)
      BY <2>2, <3>1 DEF Truncated, g
    <3> QED  BY <2>2, <3>1, <3>2, <3>3 DEF TruncatesTo
  <2> QED  BY <2>1, <2>2
<1>2. ASSUME NEW n \in Int, TruncatesTo(h, n) PROVE n = Truncated(h)
  <2> DEFINE m == Truncated(h)
  <2>1. m \in Int /\ TruncatesTo(h, m)
    BY <1>1
  <2> HIDE DEF m
  <2>2. n = m
    BY <1>2, <2>1 DEF TruncatesTo
  <2> QED  BY <2>2 DEF m
<1>3. \A n \in -h..h \cup h..-h : n \in Int
  OBVIOUS
<1> QED  BY <1>1, <1>2, <1>3

\* What Merged says of a scalar is what i2s_impl sets.
LEMMA MergedScalar ==
  ASSUME NEW d \in Data, NEW type \in Types, type.kind \notin {"struct", "slice"}, Fits(d, type),
         NEW value \in Values(type)
  PROVE  Merged(d, type, value) =
           Scalar(type.kind, IF d.kind = "float64" THEN Truncated(d.v) ELSE d.v)
<1>1. Merged(d, type, value) = MergedBy(Merged, d, type, value)
  BY MergedAssumption
<1>2. CASE d.kind = "float64"
  <2>1. d.v \in Int
    BY <1>2, DataAssumption
  <2>2. MergedBy(Merged, d, type, value) =
          Scalar("int", CHOOSE n \in -d.v..d.v \cup d.v..-d.v : TruncatesTo(d.v, n))
    BY <1>2 DEF MergedBy
  <2>3. type.kind = "int"
    BY <1>2, FitsScalar DEF WantedKind
  <2> QED  BY <1>1, <1>2, <2>1, <2>2, <2>3, TruncatedIs
<1>3. CASE d.kind # "float64"
  BY <1>1, <1>3 DEF MergedBy
<1> QED  BY <1>2, <1>3

\* The first bad place is the one everything before is good.
LEMMA FirstBadIs ==
  ASSUME NEW n \in Nat, NEW good, NEW bad \in 1..n, bad \notin good, \A j \in 1..bad - 1 : j \in good
  PROVE  FirstBad(n, good) = bad
<1>1. ASSUME NEW i \in 1..n, i \notin good, 1..i - 1 \subseteq good PROVE i = bad
  <2>1. ~(i \in 1..bad - 1) /\ ~(bad \in 1..i - 1)
    BY <1>1
  <2> QED  BY <2>1
<1>2. bad \in 1..n /\ bad \notin good /\ 1..bad - 1 \subseteq good
  OBVIOUS
<1> QED  BY <1>1, <1>2 DEF FirstBad

\* What PartlyMerged says of a struct whose first bad field is known.
LEMMA PartlyStruct ==
  ASSUME NEW d \in Data, NEW type \in Types, type.kind = "struct", d.kind = "map",
         NEW value \in Values(type), NEW bad \in DOMAIN type.fields, ~FieldFits(Fits, d, type, bad),
         \A j \in DOMAIN type.fields : j < bad => FieldFits(Fits, d, type, j)
  PROVE  /\ ~Fits(d, type)
         /\ PartlyMerged(d, type, value) =
              Struct([i \in DOMAIN type.fields |->
                CASE i < bad -> Merged(FieldData(d, type, i), type.fields[i].type, value.fields[i])
                  [] i = bad /\ HasField(d, type, i) ->
                       PartlyMerged(FieldData(d, type, i), type.fields[i].type, value.fields[i])
                  [] OTHER -> value.fields[i]])
<1>1. ~Fits(d, type)
  BY FitsStruct
<1>2. PartlyMerged(d, type, value) = PartlyMergedBy(PartlyMerged, d, type, value)
  BY <1>1, PartlyMergedAssumption
<1> DEFINE n == Len(type.fields)
           good == {i \in DOMAIN type.fields : FieldFits(Fits, d, type, i)}
<1>3. FirstBad(n, good) = bad
  <2>1. n \in Nat /\ DOMAIN type.fields = 1..n
    BY TypeParts
  <2>2. bad \in 1..n /\ bad \notin good /\ \A j \in 1..bad - 1 : j \in good
    BY <2>1
  <2> HIDE DEF n, good
  <2> QED  BY <2>1, <2>2, FirstBadIs
<1> QED  BY <1>1, <1>2, <1>3 DEF PartlyMergedBy

\* What PartlyMerged says of a slice whose first bad element is known.
LEMMA PartlySlice ==
  ASSUME NEW d \in Data, NEW type \in Types, type.kind = "slice", d.kind = "list",
         NEW value \in Values(type), NEW bad \in DOMAIN d.elems, ~Fits(d.elems[bad], type.elem),
         \A j \in 1..bad - 1 : Fits(d.elems[j], type.elem)
  PROVE  /\ ~Fits(d, type)
         /\ PartlyMerged(d, type, value) =
              Slice(value.elems \o [i \in 1..bad - 1 |->
                                      Merged(d.elems[i], type.elem, Zero(type.elem))])
<1>1. ~Fits(d, type)
  BY FitsSlice
<1>2. PartlyMerged(d, type, value) = PartlyMergedBy(PartlyMerged, d, type, value)
  BY <1>1, PartlyMergedAssumption
<1> DEFINE n == Len(d.elems)
           good == {i \in DOMAIN d.elems : Fits(d.elems[i], type.elem)}
<1>3. FirstBad(n, good) = bad
  <2>1. n \in Nat /\ DOMAIN d.elems = 1..n
    BY DataParts
  <2>2. bad \in 1..n /\ bad \notin good /\ \A j \in 1..bad - 1 : j \in good
    BY <2>1
  <2> HIDE DEF n, good
  <2> QED  BY <2>1, <2>2, FirstBadIs
<1> QED  BY <1>1, <1>2, <1>3 DEF PartlyMergedBy

\* Data of another shape leaves a value as it is.
LEMMA PartlyOther ==
  ASSUME NEW d \in Data, NEW type \in Types, NEW value \in Values(type), ~Fits(d, type),
         ~(type.kind = "struct" /\ d.kind = "map"), ~(type.kind = "slice" /\ d.kind = "list")
  PROVE  PartlyMerged(d, type, value) = value
<1>1. PartlyMerged(d, type, value) = PartlyMergedBy(PartlyMerged, d, type, value)
  BY PartlyMergedAssumption
<1> QED  BY <1>1 DEF PartlyMergedBy

(* Sequences of calls *)

\* A sequence of anything.
IsSeq(s) == \E S : s \in Seq(S)

\* The length and the indices of a sequence.
LEMMA IsSeqFacts ==
  ASSUME NEW s, IsSeq(s)
  PROVE  Len(s) \in Nat /\ DOMAIN s = 1..Len(s) /\ (s # << >> <=> Len(s) > 0)
<1> PICK S : s \in Seq(S)
  BY DEF IsSeq
<1> QED  BY LenProperties, EmptySeq

\* The first call.
LEMMA OneIsSeq ==
  ASSUME NEW e
  PROVE  IsSeq(<<e>>) /\ Len(<<e>>) = 1 /\ <<e>>[1] = e
<1>1. <<e>> \in Seq({e})
  OBVIOUS
<1> QED  BY <1>1 DEF IsSeq

\* One more call.
LEMMA AppendIsSeq ==
  ASSUME NEW s, NEW e, IsSeq(s)
  PROVE  /\ IsSeq(Append(s, e)) /\ Len(Append(s, e)) = Len(s) + 1
         /\ \A i \in 1..Len(s) : Append(s, e)[i] = s[i]
         /\ Append(s, e)[Len(s) + 1] = e
<1> PICK S : s \in Seq(S)
  BY DEF IsSeq
<1> DEFINE T == S \cup {e}
<1>1. s \in Seq(T) /\ e \in T
  BY SeqMonotonic
<1> HIDE DEF T
<1>2. Append(s, e) \in Seq(T)
  BY <1>1
<1> QED  BY <1>1, <1>2 DEF IsSeq

\* All but the last two entries, and one entry instead of them.
LEMMA ReturnIsSeq ==
  ASSUME NEW s, NEW e, IsSeq(s), Len(s) > 1
  PROVE  LET t == Append(SubSeq(s, 1, Len(s) - 2), e)
         IN  /\ IsSeq(t) /\ Len(t) = Len(s) - 1
             /\ \A i \in 1..Len(s) - 2 : t[i] = s[i]
             /\ t[Len(s) - 1] = e
<1> PICK S : s \in Seq(S)
  BY DEF IsSeq
<1> DEFINE n == Len(s) - 2
           u == SubSeq(s, 1, n)
<1>1. n \in Nat /\ Len(s) = n + 2
  BY LenProperties
<1> HIDE DEF n
<1>2. \A i \in 1..n : s[i] \in S
  BY <1>1, ElementOfSeq
<1>3. u \in Seq(S) /\ Len(u) = n /\ \A i \in 1..n : u[i] = s[i]
  <2>1. /\ u \in Seq(S) /\ Len(u) = IF 1 <= n THEN n - 1 + 1 ELSE 0
        /\ \A i \in 1..n - 1 + 1 : u[i] = s[1 + i - 1]
    BY <1>1, <1>2, SubSeqProperties
  <2> HIDE DEF u
  <2>2. ASSUME NEW i \in 1..n PROVE u[i] = s[i]
    <3>1. i \in 1..n - 1 + 1 /\ 1 + i - 1 = i
      BY <1>1
    <3> QED  BY <2>1, <3>1
  <2>3. Len(u) = n
    BY <1>1, <2>1
  <2> QED  BY <2>1, <2>2, <2>3
<1>4. IsSeq(u)
  BY <1>3 DEF IsSeq
<1>5. n = Len(s) - 2
  BY <1>1
<1> HIDE DEF u
<1>6. /\ IsSeq(Append(u, e)) /\ Len(Append(u, e)) = n + 1
      /\ \A i \in 1..n : Append(u, e)[i] = u[i]
      /\ Append(u, e)[n + 1] = e
  BY <1>3, <1>4, AppendIsSeq
<1>7. n + 1 = Len(s) - 1
  BY <1>1
<1> QED  BY <1>3, <1>5, <1>6, <1>7 DEF u


(* What a call that is under way has done *)

\* Of a struct: its first at - 1 fields.
StructSoFar(d, type, start, at) ==
  Struct([j \in DOMAIN type.fields |->
    IF j < at THEN Merged(FieldData(d, type, j), type.fields[j].type, start.fields[j])
    ELSE start.fields[j]])

\* Of a slice: what at - 1 elements of the data give, after what it held.
SliceSoFar(d, type, start, at) ==
  Slice(start.elems \o [j \in 1..at - 1 |-> Merged(d.elems[j], type.elem, Zero(type.elem))])

IsStruct(d, type) == d.kind = "map" /\ type.kind = "struct"
IsSlice(d, type) == d.kind = "list" /\ type.kind = "slice"

SoFar(d, type, start, at, value) ==
  /\ IsStruct(d, type) =>
       /\ at <= Len(type.fields) + 1
       /\ \A j \in 1..at - 1 : FieldFits(Fits, d, type, j)
       /\ value = StructSoFar(d, type, start, at)
  /\ IsSlice(d, type) =>
       /\ at <= Len(d.elems) + 1
       /\ \A j \in 1..at - 1 : Fits(d.elems[j], type.elem)
       /\ value = SliceSoFar(d, type, start, at)
  /\ ~IsStruct(d, type) /\ ~IsSlice(d, type) => value = start

\* A call that is right to have failed, with the value it leaves.
Failed(d, type, start, value) == ~Fits(d, type) /\ value = PartlyMerged(d, type, start)

CopyOK(call, start) ==
  /\ call = [data |-> call.data, type |-> call.type, value |-> call.value,
             at |-> call.at, failed |-> call.failed]
  /\ call.data \in Data /\ call.type \in Types /\ start \in Values(call.type)
  /\ call.at \in Nat /\ call.at > 0 /\ call.failed \in BOOLEAN
  /\ call.failed => Failed(call.data, call.type, start, call.value)
  /\ ~call.failed => SoFar(call.data, call.type, start, call.at, call.value)

\* A call may return this.
Outcome(d, type, start, ok, value) ==
  /\ ok => Fits(d, type) /\ value = Merged(d, type, start)
  /\ ~ok => Failed(d, type, start, value)

\* A call that has just been made is right.
LEMMA NewCall ==
  ASSUME NEW d \in Data, NEW type \in Types, NEW start \in Values(type)
  PROVE  CopyOK(Impl(d, type, start), start)
<1>1. ASSUME IsStruct(d, type)
      PROVE  1 <= Len(type.fields) + 1 /\ start = StructSoFar(d, type, start, 1)
  <2>1. Len(type.fields) \in Nat /\ DOMAIN type.fields = 1..Len(type.fields)
    BY <1>1, TypeParts DEF IsStruct
  <2>2. start = Struct([i \in DOMAIN type.fields |-> start.fields[i]])
    BY <1>1, ValueParts DEF IsStruct
  <2>3. \A j \in DOMAIN type.fields : ~(j < 1)
    BY <2>1
  <2>4. StructSoFar(d, type, start, 1) = Struct([i \in DOMAIN type.fields |-> start.fields[i]])
    BY <2>3 DEF StructSoFar
  <2>5. 1 <= Len(type.fields) + 1
    BY <2>1
  <2>6. start = StructSoFar(d, type, start, 1)
    BY <2>2, <2>4
  <2> QED  BY <2>5, <2>6
<1>2. ASSUME IsSlice(d, type)
      PROVE  1 <= Len(d.elems) + 1 /\ start = SliceSoFar(d, type, start, 1)
  <2>1. Len(d.elems) \in Nat
    BY <1>2, DataParts DEF IsSlice
  <2>2. start = Slice(start.elems) /\ start.elems \in Seq(Values(type.elem))
    BY <1>2, ValueParts DEF IsSlice
  <2>3. [j \in 1..1 - 1 |-> Merged(d.elems[j], type.elem, Zero(type.elem))] = << >>
    OBVIOUS
  <2>4. start.elems \o << >> = start.elems
    BY <2>2, ConcatEmptySeq
  <2> QED  BY <2>1, <2>2, <2>3, <2>4 DEF SliceSoFar
<1>3. SoFar(d, type, start, 1, start)
  <2>1. \A j : j \notin 1..1 - 1
    OBVIOUS
  <2> QED  BY <1>1, <1>2, <2>1 DEF SoFar
<1> QED  BY <1>3 DEF CopyOK, Impl

\* Data of another shape or kind than the type does not fit it.
LEMMA NoFit ==
  ASSUME NEW d \in Data, NEW type \in Types, ~IsStruct(d, type), ~IsSlice(d, type),
         d.kind \in {"map", "list", "nil"} \/ type.kind # WantedKind(d)
  PROVE  ~Fits(d, type)
<1>1. CASE type.kind = "struct"
  BY <1>1, FitsStruct DEF IsStruct
<1>2. CASE type.kind = "slice"
  BY <1>2, FitsSlice DEF IsSlice
<1>3. CASE type.kind \notin {"struct", "slice"}
  BY <1>3, FitsScalar
<1> QED  BY <1>1, <1>2, <1>3

\* What makes a call fail is what the reference says it does.
LEMMA ErrorOutcome ==
  ASSUME NEW c, NEW start, CopyOK(c, start), Fails(c)
  PROVE  Outcome(c.data, c.type, start, FALSE, c.value)
<1> DEFINE d == c.data
           type == c.type
<1>1. /\ d \in Data /\ type \in Types /\ start \in Values(type)
      /\ c.at \in Nat /\ c.at > 0 /\ c.failed \in BOOLEAN
      /\ c.failed => Failed(d, type, start, c.value)
      /\ ~c.failed => SoFar(d, type, start, c.at, c.value)
  BY DEF CopyOK
<1>2. CASE c.failed
  BY <1>1, <1>2 DEF Outcome
<1>3. ASSUME ~c.failed, IsStruct(d, type), c.at <= Len(type.fields), Key(c) \notin DOMAIN d.entries
      PROVE  Failed(d, type, start, c.value)
  <2>1. Len(type.fields) \in Nat /\ DOMAIN type.fields = 1..Len(type.fields)
    BY <1>1, <1>3, TypeParts DEF IsStruct
  <2>2. c.at \in DOMAIN type.fields
    BY <1>1, <1>3, <2>1
  <2>3. ~HasField(d, type, c.at)
    BY <1>3 DEF HasField, Key
  <2>4. \A j \in 1..c.at - 1 : FieldFits(Fits, d, type, j)
    BY <1>1, <1>3 DEF SoFar
  <2>5. \A j \in DOMAIN type.fields : j < c.at => FieldFits(Fits, d, type, j)
    BY <1>1, <2>1, <2>4
  <2>6. ~FieldFits(Fits, d, type, c.at)
    BY <2>3 DEF FieldFits
  <2>7. /\ ~Fits(d, type)
        /\ PartlyMerged(d, type, start) =
              Struct([i \in DOMAIN type.fields |->
                CASE i < c.at -> Merged(FieldData(d, type, i), type.fields[i].type, start.fields[i])
                  [] i = c.at /\ HasField(d, type, i) ->
                       PartlyMerged(FieldData(d, type, i), type.fields[i].type, start.fields[i])
                  [] OTHER -> start.fields[i]])
    BY <1>1, <1>3, <2>2, <2>5, <2>6, PartlyStruct DEF IsStruct
  <2>8. c.value = StructSoFar(d, type, start, c.at)
    BY <1>1, <1>3 DEF SoFar
  <2>9. PartlyMerged(d, type, start) = StructSoFar(d, type, start, c.at)
    <3>1. ASSUME NEW i \in DOMAIN type.fields
          PROVE  (CASE i < c.at -> Merged(FieldData(d, type, i), type.fields[i].type, start.fields[i])
                    [] i = c.at /\ HasField(d, type, i) ->
                         PartlyMerged(FieldData(d, type, i), type.fields[i].type, start.fields[i])
                    [] OTHER -> start.fields[i])
                 = IF i < c.at THEN Merged(FieldData(d, type, i), type.fields[i].type, start.fields[i])
                   ELSE start.fields[i]
      BY <1>1, <2>1, <2>3
    <3> QED  BY <2>7, <3>1 DEF StructSoFar
  <2> QED  BY <2>7, <2>8, <2>9 DEF Failed
<1>4. ASSUME ~c.failed, ~IsStruct(d, type), ~IsSlice(d, type)
      PROVE  Failed(d, type, start, c.value)
  <2>1. d.kind \in {"map", "list", "nil"} \/ type.kind # WantedKind(d)
    BY <1>4 DEF Fails, IsStruct, IsSlice
  <2>2. ~Fits(d, type)
    BY <1>1, <1>4, <2>1, NoFit
  <2>3. PartlyMerged(d, type, start) = start
    BY <1>1, <1>4, <2>2, PartlyOther DEF IsStruct, IsSlice
  <2>4. c.value = start
    BY <1>1, <1>4 DEF SoFar
  <2> QED  BY <2>2, <2>3, <2>4 DEF Failed
<1>5. ASSUME ~c.failed, IsSlice(d, type)
      PROVE  FALSE
  BY <1>5 DEF IsSlice, Fails
<1>6. ASSUME ~c.failed, IsStruct(d, type)
      PROVE  c.at <= Len(type.fields) /\ Key(c) \notin DOMAIN d.entries
  BY <1>6 DEF IsStruct, Fails
<1> QED  BY <1>2, <1>3, <1>4, <1>5, <1>6 DEF Outcome

\* A scalar that is set is the one the reference asks for.
LEMMA ScalarOutcome ==
  ASSUME NEW c, NEW start, CopyOK(c, start), ~Fails(c), c.data.kind \notin {"map", "list"}
  PROVE  Outcome(c.data, c.type, start, TRUE,
                 Scalar(c.type.kind, IF c.data.kind = "float64" THEN Truncated(c.data.v)
                                     ELSE c.data.v))
<1> DEFINE d == c.data
           type == c.type
<1>1. d \in Data /\ type \in Types /\ start \in Values(type)
  BY DEF CopyOK
<1>2. d.kind \notin {"map", "list", "nil"} /\ type.kind = WantedKind(d)
  BY DEF Fails
<1>3. type.kind \in ScalarKinds /\ type.kind \notin {"struct", "slice"}
  BY <1>1, <1>2, DataParts DEF WantedKind, ScalarKinds
<1> HIDE DEF d, type
<1>4. Fits(d, type)
  BY <1>1, <1>2, <1>3, FitsScalar
<1>5. Merged(d, type, start) = Scalar(type.kind, IF d.kind = "float64" THEN Truncated(d.v) ELSE d.v)
  BY <1>1, <1>3, <1>4, MergedScalar
<1>6. Outcome(d, type, start, TRUE, Scalar(type.kind, IF d.kind = "float64" THEN Truncated(d.v) ELSE d.v))
  BY <1>4, <1>5 DEF Outcome
<1> QED  BY <1>6 DEF d, type

\* A struct or a slice whose loop has ended.
LEMMA EndOutcome ==
  ASSUME NEW c, NEW start, CopyOK(c, start), ~Fails(c),
         \/ c.data.kind = "map" /\ c.at > Len(c.type.fields)
         \/ c.data.kind = "list" /\ c.at > Len(c.data.elems)
  PROVE  Outcome(c.data, c.type, start, TRUE, c.value)
<1> DEFINE d == c.data
           type == c.type
           at == c.at
<1>1. d \in Data /\ type \in Types /\ start \in Values(type) /\ at \in Nat
  BY DEF CopyOK
<1>2. SoFar(d, type, start, at, c.value)
  BY DEF CopyOK, Fails
<1>3. d.kind = "map" \/ d.kind = "list"
  OBVIOUS
<1>4. /\ d.kind = "map" => IsStruct(d, type) /\ at > Len(type.fields)
      /\ d.kind = "list" => IsSlice(d, type) /\ at > Len(d.elems)
  BY DEF Fails, IsStruct, IsSlice
<1> HIDE DEF d, type, at
<1>5. ASSUME IsStruct(d, type), at > Len(type.fields)
      PROVE  Outcome(d, type, start, TRUE, c.value)
  <2>1. Len(type.fields) \in Nat /\ DOMAIN type.fields = 1..Len(type.fields)
    BY <1>1, <1>5, TypeParts DEF IsStruct
  <2>2. at <= Len(type.fields) + 1 /\ (\A j \in 1..at - 1 : FieldFits(Fits, d, type, j))
        /\ c.value = StructSoFar(d, type, start, at)
    BY <1>2, <1>5 DEF SoFar
  <2>3. at - 1 = Len(type.fields) /\ \A j \in DOMAIN type.fields : j < at
    BY <1>1, <1>5, <2>1, <2>2
  <2>4. Fits(d, type)
    BY <1>1, <1>5, <2>1, <2>2, <2>3, FitsStruct DEF IsStruct
  <2>5. Merged(d, type, start) =
           Struct([i \in DOMAIN type.fields |->
             Merged(FieldData(d, type, i), type.fields[i].type, start.fields[i])])
    BY <1>1, <1>5, <2>4, MergedStruct DEF IsStruct
  <2>6. StructSoFar(d, type, start, at) =
           Struct([i \in DOMAIN type.fields |->
             Merged(FieldData(d, type, i), type.fields[i].type, start.fields[i])])
    BY <2>3 DEF StructSoFar
  <2> QED  BY <2>2, <2>4, <2>5, <2>6 DEF Outcome
<1>6. ASSUME IsSlice(d, type), at > Len(d.elems)
      PROVE  Outcome(d, type, start, TRUE, c.value)
  <2>1. Len(d.elems) \in Nat /\ DOMAIN d.elems = 1..Len(d.elems)
    BY <1>1, <1>6, DataParts DEF IsSlice
  <2>2. at <= Len(d.elems) + 1 /\ (\A j \in 1..at - 1 : Fits(d.elems[j], type.elem))
        /\ c.value = SliceSoFar(d, type, start, at)
    BY <1>2, <1>6 DEF SoFar
  <2>3. at - 1 = Len(d.elems)
    BY <1>1, <1>6, <2>1, <2>2
  <2>4. Fits(d, type)
    BY <1>1, <1>6, <2>1, <2>2, <2>3, FitsSlice DEF IsSlice
  <2>5. Merged(d, type, start) =
           Slice(start.elems \o [i \in DOMAIN d.elems |->
                                   Merged(d.elems[i], type.elem, Zero(type.elem))])
    BY <1>1, <1>6, <2>4, MergedSlice DEF IsSlice
  <2>6. SliceSoFar(d, type, start, at) = Merged(d, type, start)
    BY <2>1, <2>3, <2>5 DEF SliceSoFar
  <2> QED  BY <2>2, <2>4, <2>6 DEF Outcome
<1>7. Outcome(d, type, start, TRUE, c.value)
  BY <1>3, <1>4, <1>5, <1>6
<1> QED  BY <1>7 DEF d, type


(* What a call does with the answer of the call it made *)

\* What the variable of the next call holds when it starts.
Start(c) == IF c.type.kind = "struct" THEN c.value.fields[c.at] ELSE Zero(c.type.elem)

\* A call for a field, or for an element.
Calling(c, d) ==
  /\ ~c.failed
  /\ \/ /\ IsStruct(c.data, c.type) /\ c.at <= Len(c.type.fields)
        /\ HasField(c.data, c.type, c.at)
        /\ d.data = FieldData(c.data, c.type, c.at) /\ d.type = c.type.fields[c.at].type
     \/ /\ IsSlice(c.data, c.type) /\ c.at <= Len(c.data.elems)
        /\ d.data = c.data.elems[c.at] /\ d.type = c.type.elem

\* A field that m2s comes to is still what it was at the start.
LEMMA StartIs ==
  ASSUME NEW c, NEW start, CopyOK(c, start), IsStruct(c.data, c.type), c.at <= Len(c.type.fields),
         ~c.failed
  PROVE  /\ c.at \in DOMAIN c.type.fields
         /\ Start(c) = start.fields[c.at]
         /\ Start(c) \in Values(c.type.fields[c.at].type)
<1> DEFINE d == c.data
           type == c.type
           at == c.at
<1>1. /\ d \in Data /\ type \in Types /\ start \in Values(type) /\ at \in Nat /\ at > 0
      /\ SoFar(d, type, start, at, c.value)
  BY DEF CopyOK
<1>2. IsStruct(d, type) /\ at <= Len(type.fields) /\ Start(c) = c.value.fields[at]
  BY DEF IsStruct, Start
<1> HIDE DEF d, type, at
<1>3. Len(type.fields) \in Nat /\ DOMAIN type.fields = 1..Len(type.fields)
  BY <1>1, <1>2, TypeParts DEF IsStruct
<1>4. at \in DOMAIN type.fields /\ ~(at < at)
  BY <1>1, <1>2, <1>3
<1>5. c.value = StructSoFar(d, type, start, at)
  BY <1>1, <1>2 DEF SoFar
<1>6. c.value.fields[at] = start.fields[at]
  BY <1>4, <1>5 DEF StructSoFar, Struct
<1>7. start.fields[at] \in Values(type.fields[at].type)
  BY <1>1, <1>2, <1>4, ValueParts DEF IsStruct
<1>8. /\ at \in DOMAIN type.fields
      /\ Start(c) = start.fields[at]
      /\ Start(c) \in Values(type.fields[at].type)
  BY <1>2, <1>4, <1>6, <1>7
<1> QED  BY <1>8 DEF d, type, at

\* The value of a struct after field at was written.
LEMMA FieldWritten ==
  ASSUME NEW d, NEW type, NEW start, NEW at \in DOMAIN type.fields, NEW x
  PROVE  Struct([StructSoFar(d, type, start, at).fields EXCEPT ![at] = x]) =
           Struct([j \in DOMAIN type.fields |->
             IF j = at THEN x
             ELSE IF j < at THEN Merged(FieldData(d, type, j), type.fields[j].type, start.fields[j])
             ELSE start.fields[j]])
  BY DEF StructSoFar, Struct

\* A field that went well.
LEMMA StructStep ==
  ASSUME NEW d \in Data, NEW type \in Types, NEW start, NEW at \in DOMAIN type.fields,
         IsStruct(d, type), SoFar(d, type, start, at, StructSoFar(d, type, start, at)),
         FieldFits(Fits, d, type, at)
  PROVE  SoFar(d, type, start, at + 1,
               Struct([StructSoFar(d, type, start, at).fields EXCEPT ![at] =
                         Merged(FieldData(d, type, at), type.fields[at].type, start.fields[at])]))
<1> DEFINE x == Merged(FieldData(d, type, at), type.fields[at].type, start.fields[at])
           value == Struct([StructSoFar(d, type, start, at).fields EXCEPT ![at] = x])
<1>1. Len(type.fields) \in Nat /\ DOMAIN type.fields = 1..Len(type.fields)
  BY TypeParts DEF IsStruct
<1>2. at \in Nat /\ at + 1 <= Len(type.fields) + 1 /\ \A j \in Nat : j < at + 1 <=> j < at \/ j = at
  BY <1>1
<1>3. \A j \in 1..at + 1 - 1 : FieldFits(Fits, d, type, j)
  <2>1. \A j \in 1..at - 1 : FieldFits(Fits, d, type, j)
    BY DEF SoFar
  <2>2. \A j \in 1..at + 1 - 1 : j \in 1..at - 1 \/ j = at
    BY <1>2
  <2> QED  BY <2>1, <2>2
<1>4. value = StructSoFar(d, type, start, at + 1)
  <2>1. value = Struct([j \in DOMAIN type.fields |->
             IF j = at THEN x
             ELSE IF j < at THEN Merged(FieldData(d, type, j), type.fields[j].type, start.fields[j])
             ELSE start.fields[j]])
    BY FieldWritten
  <2>2. \A j \in DOMAIN type.fields : j \in Nat
    BY <1>1
  <2>3. \A j \in DOMAIN type.fields : j < at + 1 <=> j < at \/ j = at
    BY <1>2, <2>2
  <2> QED  BY <2>1, <2>3 DEF StructSoFar
<1>5. ~IsSlice(d, type)
  BY DEF IsStruct, IsSlice
<1> DEFINE next == at + 1
<1>6. /\ next <= Len(type.fields) + 1
      /\ \A j \in 1..next - 1 : FieldFits(Fits, d, type, j)
      /\ value = StructSoFar(d, type, start, next)
  BY <1>2, <1>3, <1>4
<1> HIDE DEF value, next
<1>7. SoFar(d, type, start, next, value)
  BY <1>5, <1>6 DEF SoFar
<1> QED  BY <1>7 DEF value, next

\* A field that went wrong.
LEMMA StructBreaks ==
  ASSUME NEW d \in Data, NEW type \in Types, NEW start \in Values(type), NEW at \in DOMAIN type.fields,
         IsStruct(d, type), SoFar(d, type, start, at, StructSoFar(d, type, start, at)),
         HasField(d, type, at), ~Fits(FieldData(d, type, at), type.fields[at].type)
  PROVE  Failed(d, type, start,
                Struct([StructSoFar(d, type, start, at).fields EXCEPT ![at] =
                  PartlyMerged(FieldData(d, type, at), type.fields[at].type, start.fields[at])]))
<1> DEFINE x == PartlyMerged(FieldData(d, type, at), type.fields[at].type, start.fields[at])
           value == Struct([StructSoFar(d, type, start, at).fields EXCEPT ![at] = x])
<1>1. Len(type.fields) \in Nat /\ DOMAIN type.fields = 1..Len(type.fields)
  BY TypeParts DEF IsStruct
<1>2. ~FieldFits(Fits, d, type, at)
  BY DEF FieldFits
<1>3. \A j \in DOMAIN type.fields : j < at => FieldFits(Fits, d, type, j)
  <2>1. \A j \in 1..at - 1 : FieldFits(Fits, d, type, j)
    BY DEF SoFar
  <2> QED  BY <1>1, <2>1
<1>4. /\ ~Fits(d, type)
      /\ PartlyMerged(d, type, start) =
            Struct([i \in DOMAIN type.fields |->
              CASE i < at -> Merged(FieldData(d, type, i), type.fields[i].type, start.fields[i])
                [] i = at /\ HasField(d, type, i) ->
                     PartlyMerged(FieldData(d, type, i), type.fields[i].type, start.fields[i])
                [] OTHER -> start.fields[i]])
  BY <1>2, <1>3, PartlyStruct DEF IsStruct
<1>5. value = Struct([j \in DOMAIN type.fields |->
             IF j = at THEN x
             ELSE IF j < at THEN Merged(FieldData(d, type, j), type.fields[j].type, start.fields[j])
             ELSE start.fields[j]])
  BY FieldWritten
<1>6. ASSUME NEW i \in DOMAIN type.fields
      PROVE  (CASE i < at -> Merged(FieldData(d, type, i), type.fields[i].type, start.fields[i])
                [] i = at /\ HasField(d, type, i) ->
                     PartlyMerged(FieldData(d, type, i), type.fields[i].type, start.fields[i])
                [] OTHER -> start.fields[i])
             = IF i = at THEN x
               ELSE IF i < at THEN Merged(FieldData(d, type, i), type.fields[i].type, start.fields[i])
               ELSE start.fields[i]
  BY <1>1
<1> HIDE DEF x
<1>7. value = PartlyMerged(d, type, start)
  BY <1>4, <1>5, <1>6
<1> HIDE DEF value
<1>8. Failed(d, type, start, value)
  BY <1>4, <1>7 DEF Failed
<1> QED  BY <1>8 DEF value, x

\* The elements made so far and one more are the elements up to that one.
LEMMA OneMore ==
  ASSUME NEW S, NEW old \in Seq(S), NEW f, NEW n \in Nat, n > 0
  PROVE  Append(old \o [j \in 1..n - 1 |-> f[j]], f[n]) = old \o [j \in 1..n |-> f[j]]
<1> DEFINE T == S \cup {f[j] : j \in 1..n}
           a == [j \in 1..n - 1 |-> f[j]]
           b == [j \in 1..n |-> f[j]]
           e == f[n]
<1>1. old \in Seq(T) /\ e \in T
  BY SeqMonotonic
<1>2. n - 1 \in Nat /\ (\A j \in 1..n : f[j] \in T) /\ \A j \in 1..n - 1 : f[j] \in T
  OBVIOUS
<1>3. a \in Seq(T) /\ b \in Seq(T) /\ Len(a) = n - 1 /\ Len(b) = n
  <2> HIDE DEF T
  <2> QED  BY <1>2, IsASeq
<1>4. \A j \in 1..n : b[j] = IF j <= n - 1 THEN a[j] ELSE e
  OBVIOUS
<1> HIDE DEF T, a, b, e
<1>5. /\ Append(a, e) \in Seq(T) /\ Len(Append(a, e)) = n
      /\ \A j \in 1..n : Append(a, e)[j] = IF j <= n - 1 THEN a[j] ELSE e
  BY <1>1, <1>3
<1>6. b = Append(a, e)
  BY <1>3, <1>4, <1>5, SeqEqual
<1>7. Append(old \o a, e) = old \o Append(a, e)
  <2>1. old \in Seq(T) /\ a \in Seq(T) /\ e \in T
    BY <1>1, <1>3
  <2>2. <<e>> \in Seq(T) /\ old \o a \in Seq(T)
    BY <2>1, ConcatProperties
  <2>3. Append(old \o a, e) = (old \o a) \o <<e>>
    BY <2>1, <2>2, AppendIsConcat
  <2>4. Append(a, e) = a \o <<e>>
    BY <2>1, AppendIsConcat
  <2> QED  BY <2>1, <2>2, <2>3, <2>4, ConcatAssociative
<1>8. Append(old \o a, e) = old \o b
  BY <1>6, <1>7
<1> QED  BY <1>8 DEF a, b, e

\* An element that went well.
LEMMA SliceStep ==
  ASSUME NEW d \in Data, NEW type \in Types, NEW start \in Values(type), NEW at \in DOMAIN d.elems,
         IsSlice(d, type), SoFar(d, type, start, at, SliceSoFar(d, type, start, at)),
         Fits(d.elems[at], type.elem)
  PROVE  SoFar(d, type, start, at + 1,
               Slice(Append(SliceSoFar(d, type, start, at).elems,
                            Merged(d.elems[at], type.elem, Zero(type.elem)))))
<1> DEFINE E(j) == Merged(d.elems[j], type.elem, Zero(type.elem))
           old == start.elems
           value == Slice(Append(SliceSoFar(d, type, start, at).elems, E(at)))
<1>1. Len(d.elems) \in Nat /\ DOMAIN d.elems = 1..Len(d.elems)
  BY DataParts DEF IsSlice
<1>2. at \in Nat /\ at - 1 \in Nat /\ at + 1 <= Len(d.elems) + 1 /\ at + 1 - 1 = at
  BY <1>1
<1>3. \A j \in 1..at + 1 - 1 : Fits(d.elems[j], type.elem)
  <2>1. \A j \in 1..at - 1 : Fits(d.elems[j], type.elem)
    BY DEF SoFar
  <2>2. \A j \in 1..at + 1 - 1 : j \in 1..at - 1 \/ j = at
    BY <1>2
  <2> QED  BY <2>1, <2>2
<1>4. Append(old \o [j \in 1..at - 1 |-> E(j)], E(at)) = old \o [j \in 1..at |-> E(j)]
  <2> DEFINE f == [j \in 1..at |-> E(j)]
  <2>1. old \in Seq(Values(type.elem))
    BY ValueParts DEF IsSlice
  <2>2. Append(old \o [j \in 1..at - 1 |-> f[j]], f[at]) = old \o [j \in 1..at |-> f[j]]
    <3> DEFINE S == Values(type.elem)
    <3>1. old \in Seq(S) /\ at \in Nat /\ at > 0
      BY <1>2, <2>1
    <3> HIDE DEF f, old, S
    <3> QED  BY <3>1, OneMore
  <2>3. f[at] = E(at) /\ \A j \in 1..at - 1 : f[j] = E(j)
    BY <1>2
  <2>4. [j \in 1..at - 1 |-> f[j]] = [j \in 1..at - 1 |-> E(j)]
    BY <2>3
  <2>5. [j \in 1..at |-> f[j]] = [j \in 1..at |-> E(j)]
    OBVIOUS
  <2> HIDE DEF f, E, old
  <2> QED  BY <2>2, <2>3, <2>4, <2>5
<1>5. value = SliceSoFar(d, type, start, at + 1)
  <2>1. SliceSoFar(d, type, start, at).elems = old \o [j \in 1..at - 1 |-> E(j)]
    BY DEF SliceSoFar, Slice
  <2>2. SliceSoFar(d, type, start, at + 1) = Slice(old \o [j \in 1..at |-> E(j)])
    BY <1>2 DEF SliceSoFar
  <2> QED  BY <1>4, <2>1, <2>2
<1>6. ~IsStruct(d, type)
  BY DEF IsStruct, IsSlice
<1> DEFINE next == at + 1
<1>7. /\ next <= Len(d.elems) + 1
      /\ \A j \in 1..next - 1 : Fits(d.elems[j], type.elem)
      /\ value = SliceSoFar(d, type, start, next)
  BY <1>2, <1>3, <1>5
<1> HIDE DEF value, next
<1>8. SoFar(d, type, start, next, value)
  BY <1>6, <1>7 DEF SoFar
<1> QED  BY <1>8 DEF value, next

\* An element that went wrong.
LEMMA SliceBreaks ==
  ASSUME NEW d \in Data, NEW type \in Types, NEW start \in Values(type), NEW at \in DOMAIN d.elems,
         IsSlice(d, type), SoFar(d, type, start, at, SliceSoFar(d, type, start, at)),
         ~Fits(d.elems[at], type.elem)
  PROVE  Failed(d, type, start, SliceSoFar(d, type, start, at))
<1>1. \A j \in 1..at - 1 : Fits(d.elems[j], type.elem)
  BY DEF SoFar
<1> QED  BY <1>1, PartlySlice DEF Failed, SliceSoFar, IsSlice


\* A call is right when its parts are.
LEMMA CallIs ==
  ASSUME NEW d \in Data, NEW type \in Types, NEW start \in Values(type), NEW v,
         NEW at \in Nat, at > 0, NEW failed \in BOOLEAN,
         failed => Failed(d, type, start, v), ~failed => SoFar(d, type, start, at, v)
  PROVE  CopyOK([data |-> d, type |-> type, value |-> v, at |-> at, failed |-> failed], start)
  BY DEF CopyOK

\* A call with three of its parts changed.
LEMMA CallChanged ==
  ASSUME NEW c, NEW d, NEW type, NEW v, NEW a, NEW f, NEW w, NEW at, NEW failed,
         c = [data |-> d, type |-> type, value |-> v, at |-> a, failed |-> f]
  PROVE  [c EXCEPT !.value = w, !.at = at, !.failed = failed] =
           [data |-> d, type |-> type, value |-> w, at |-> at, failed |-> failed]
<1> DEFINE c1 == [data |-> d, type |-> type, value |-> w, at |-> a, failed |-> f]
           c2 == [data |-> d, type |-> type, value |-> w, at |-> at, failed |-> f]
           c3 == [data |-> d, type |-> type, value |-> w, at |-> at, failed |-> failed]
<1>1. [c EXCEPT !.value = w] = c1
  OBVIOUS
<1>2. [c1 EXCEPT !.at = at] = c2
  OBVIOUS
<1>3. [c2 EXCEPT !.failed = failed] = c3
  OBVIOUS
<1>4. [c EXCEPT !.value = w, !.at = at, !.failed = failed] =
        [[[c EXCEPT !.value = w] EXCEPT !.at = at] EXCEPT !.failed = failed]
  OBVIOUS
<1> HIDE DEF c1, c2, c3
<1>5. [[[c EXCEPT !.value = w] EXCEPT !.at = at] EXCEPT !.failed = failed] = c3
  BY <1>1, <1>2, <1>3
<1> QED  BY <1>4, <1>5 DEF c3

\* A call goes on, or stops, with the answer of the call it made.
LEMMA AfterOK ==
  ASSUME NEW c, NEW callee, NEW start, NEW ok \in BOOLEAN, NEW v,
         CopyOK(c, start), Calling(c, callee),
         Outcome(callee.data, callee.type, Start(c), ok, v)
  PROVE  CopyOK(After(c, ok, v), start)
<1> DEFINE d == c.data
           type == c.type
           at == c.at
           next == After(c, ok, v)
<1>1. /\ d \in Data /\ type \in Types /\ start \in Values(type) /\ at \in Nat /\ at > 0
      /\ ~c.failed /\ SoFar(d, type, start, at, c.value)
  BY DEF CopyOK, Calling
<1>2. c = [data |-> d, type |-> type, value |-> c.value, at |-> at, failed |-> c.failed]
  BY DEF CopyOK
<1>3. next = [data |-> d, type |-> type,
              value |-> IF type.kind = "struct" THEN Struct([c.value.fields EXCEPT ![at] = v])
                        ELSE IF ok THEN Slice(Append(c.value.elems, v)) ELSE c.value,
              at |-> IF ok THEN at + 1 ELSE at, failed |-> ~ok]
  <2> DEFINE w == IF type.kind = "struct" THEN Struct([c.value.fields EXCEPT ![at] = v])
                  ELSE IF ok THEN Slice(Append(c.value.elems, v)) ELSE c.value
             a == IF ok THEN at + 1 ELSE at
  <2>1. next = [c EXCEPT !.value = w, !.at = a, !.failed = ~ok]
    BY DEF After
  <2> HIDE DEF w, a
  <2>2. next = [data |-> d, type |-> type, value |-> w, at |-> a, failed |-> ~ok]
    BY <1>2, <2>1, CallChanged
  <2> QED  BY <2>2 DEF w, a
<1>4. CASE IsStruct(d, type)
  <2> DEFINE x == StructSoFar(d, type, start, at)
             y == Struct([x.fields EXCEPT ![at] = v])
  <2>1. /\ at <= Len(type.fields) /\ HasField(d, type, at)
        /\ callee.data = FieldData(d, type, at) /\ callee.type = type.fields[at].type
    BY <1>4 DEF Calling, IsStruct, IsSlice
  <2>2. at \in DOMAIN type.fields /\ Start(c) = start.fields[at]
    BY <1>1, <1>4, <2>1, StartIs
  <2>3. c.value = x /\ type.kind = "struct"
    BY <1>1, <1>4 DEF SoFar, IsStruct
  <2>4. next = [data |-> d, type |-> type, value |-> y, at |-> IF ok THEN at + 1 ELSE at,
                failed |-> ~ok]
    BY <1>3, <2>3
  <2>5. SoFar(d, type, start, at, x)
    BY <1>1, <2>3
  <2>6. CASE ok
    <3>1. Fits(FieldData(d, type, at), type.fields[at].type)
          /\ v = Merged(FieldData(d, type, at), type.fields[at].type, start.fields[at])
      BY <2>1, <2>2, <2>6 DEF Outcome
    <3>2. FieldFits(Fits, d, type, at)
      BY <2>1, <3>1 DEF FieldFits
    <3>3. SoFar(d, type, start, at + 1, y)
      BY <1>1, <1>4, <2>2, <2>5, <3>1, <3>2, StructStep
    <3>4. at + 1 \in Nat /\ at + 1 > 0
      BY <1>1
    <3>5. next = [data |-> d, type |-> type, value |-> y, at |-> at + 1, failed |-> FALSE]
      BY <2>4, <2>6
    <3> HIDE DEF y, d, type, at, next
    <3>6. CopyOK(next, start)
      BY <1>1, <3>3, <3>4, <3>5, CallIs
    <3> QED  BY <3>6 DEF next
  <2>7. CASE ~ok
    <3>1. ~Fits(FieldData(d, type, at), type.fields[at].type)
          /\ v = PartlyMerged(FieldData(d, type, at), type.fields[at].type, start.fields[at])
      BY <2>1, <2>2, <2>7 DEF Outcome, Failed
    <3>2. Failed(d, type, start, y)
      BY <1>1, <1>4, <2>1, <2>2, <2>5, <3>1, StructBreaks
    <3>3. next = [data |-> d, type |-> type, value |-> y, at |-> at, failed |-> TRUE]
      BY <2>4, <2>7
    <3> HIDE DEF y, d, type, at, next
    <3>4. CopyOK(next, start)
      BY <1>1, <3>2, <3>3, CallIs
    <3> QED  BY <3>4 DEF next
  <2> QED  BY <2>6, <2>7
<1>5. CASE IsSlice(d, type)
  <2> DEFINE x == SliceSoFar(d, type, start, at)
             y == IF ok THEN Slice(Append(x.elems, v)) ELSE x
  <2>1. /\ at <= Len(d.elems) /\ callee.data = d.elems[at] /\ callee.type = type.elem
    BY <1>5 DEF Calling, IsStruct, IsSlice
  <2>2. at \in DOMAIN d.elems
    <3>1. Len(d.elems) \in Nat /\ DOMAIN d.elems = 1..Len(d.elems)
      BY <1>1, <1>5, DataParts DEF IsSlice
    <3> QED  BY <1>1, <2>1, <3>1
  <2>3. c.value = x /\ type.kind = "slice"
    BY <1>1, <1>5 DEF SoFar, IsSlice
  <2>4. next = [data |-> d, type |-> type, value |-> y, at |-> IF ok THEN at + 1 ELSE at,
                failed |-> ~ok]
    BY <1>3, <2>3
  <2>5. SoFar(d, type, start, at, x) /\ Start(c) = Zero(type.elem)
    BY <1>1, <2>3 DEF Start
  <2>6. CASE ok
    <3>1. Fits(d.elems[at], type.elem) /\ v = Merged(d.elems[at], type.elem, Zero(type.elem))
      BY <2>1, <2>5, <2>6 DEF Outcome
    <3>2. SoFar(d, type, start, at + 1, y)
      BY <1>1, <1>5, <2>2, <2>5, <2>6, <3>1, SliceStep
    <3>3. at + 1 \in Nat /\ at + 1 > 0
      BY <1>1
    <3>4. next = [data |-> d, type |-> type, value |-> y, at |-> at + 1, failed |-> FALSE]
      BY <2>4, <2>6
    <3> HIDE DEF y, d, type, at, next
    <3>5. CopyOK(next, start)
      BY <1>1, <3>2, <3>3, <3>4, CallIs
    <3> QED  BY <3>5 DEF next
  <2>7. CASE ~ok
    <3>1. ~Fits(d.elems[at], type.elem)
      BY <2>1, <2>7 DEF Outcome, Failed
    <3>2. Failed(d, type, start, y)
      BY <1>1, <1>5, <2>2, <2>5, <2>7, <3>1, SliceBreaks
    <3>3. next = [data |-> d, type |-> type, value |-> y, at |-> at, failed |-> TRUE]
      BY <2>4, <2>7
    <3> HIDE DEF y, d, type, at, next
    <3>4. CopyOK(next, start)
      BY <1>1, <3>2, <3>3, CallIs
    <3> QED  BY <3>4 DEF next
  <2> QED  BY <2>6, <2>7
<1> QED  BY <1>4, <1>5 DEF Calling


(* The invariant *)

\* What the variable of the i-th call held when it started; first is what the
\* caller's variable held.
StartAt(calls, first, i) == IF i = 1 THEN first ELSE Start(calls[i - 1])

CallsOK(calls, first) ==
  \A i \in 1..Len(calls) :
    /\ CopyOK(calls[i], StartAt(calls, first, i))
    /\ i > 1 => Calling(calls[i - 1], calls[i])

DecoderInv ==
  decoding # << >> =>
    /\ result = "none" /\ byPointer
    /\ decoding[1].data = input /\ decoding[1].type = outType
    /\ CallsOK(decoding, before)

CopyInv ==
  /\ outType \in Types /\ byPointer \in BOOLEAN /\ IsSeq(decoding)
  /\ DecoderInv /\ DecodesWhatFits /\ ErrorLeavesPrefix

\* The innermost call calls again.
LEMMA CallsPush ==
  ASSUME NEW calls, NEW first, IsSeq(calls), calls # << >>, CallsOK(calls, first),
         NEW new, Calling(calls[Len(calls)], new), CopyOK(new, Start(calls[Len(calls)]))
  PROVE  /\ IsSeq(Append(calls, new)) /\ CallsOK(Append(calls, new), first)
         /\ Append(calls, new)[1] = calls[1]
<1> DEFINE n == Len(calls)
           t == Append(calls, new)
<1>1. n \in Nat /\ n > 0
  BY IsSeqFacts
<1>2. IsSeq(t) /\ Len(t) = n + 1 /\ (\A i \in 1..n : t[i] = calls[i]) /\ t[n + 1] = new
  BY AppendIsSeq
<1> HIDE DEF t
<1>3. ASSUME NEW i \in 1..n
      PROVE  CopyOK(t[i], StartAt(t, first, i)) /\ (i > 1 => Calling(t[i - 1], t[i]))
  <2>1. t[i] = calls[i] /\ (i > 1 => t[i - 1] = calls[i - 1])
    BY <1>1, <1>2
  <2>2. StartAt(t, first, i) = StartAt(calls, first, i)
    BY <1>1, <2>1 DEF StartAt
  <2>3. CopyOK(calls[i], StartAt(calls, first, i)) /\ (i > 1 => Calling(calls[i - 1], calls[i]))
    BY DEF CallsOK
  <2> QED  BY <2>1, <2>2, <2>3
<1>4. CopyOK(t[n + 1], StartAt(t, first, n + 1)) /\ Calling(t[n + 1 - 1], t[n + 1])
  <2>1. n + 1 - 1 = n /\ n + 1 # 1 /\ n \in 1..n
    BY <1>1
  <2>2. t[n + 1 - 1] = calls[n]
    BY <1>2, <2>1
  <2>3. StartAt(t, first, n + 1) = Start(calls[n])
    BY <2>1, <2>2 DEF StartAt
  <2> QED  BY <1>2, <2>2, <2>3
<1>5. \A i \in 1..Len(t) : i \in 1..n \/ i = n + 1
  BY <1>1, <1>2
<1>6. CallsOK(t, first)
  BY <1>3, <1>4, <1>5 DEF CallsOK
<1>7. t[1] = calls[1]
  BY <1>1, <1>2
<1> QED  BY <1>2, <1>6, <1>7 DEF t

\* The innermost call returns to the one that made it.
LEMMA CallsPop ==
  ASSUME NEW calls, NEW first, IsSeq(calls), Len(calls) > 1, CallsOK(calls, first),
         NEW ok \in BOOLEAN, NEW v,
         Outcome(calls[Len(calls)].data, calls[Len(calls)].type,
                 StartAt(calls, first, Len(calls)), ok, v)
  PROVE  LET n == Len(calls)
             t == Append(SubSeq(calls, 1, n - 2), After(calls[n - 1], ok, v))
         IN  /\ IsSeq(t) /\ t # << >> /\ CallsOK(t, first)
             /\ t[1].data = calls[1].data /\ t[1].type = calls[1].type
<1> DEFINE n == Len(calls)
           c == calls[n - 1]
           e == After(c, ok, v)
           t == Append(SubSeq(calls, 1, n - 2), e)
<1>1. n \in Nat /\ n > 1 /\ n - 1 \in 1..n /\ n \in 1..n /\ n # 1
  BY IsSeqFacts
<1>2. IsSeq(t) /\ Len(t) = n - 1 /\ (\A i \in 1..n - 2 : t[i] = calls[i]) /\ t[n - 1] = e
  <2> HIDE DEF e
  <2> QED  BY ReturnIsSeq
<1>3. CopyOK(c, StartAt(calls, first, n - 1)) /\ Calling(c, calls[n])
  <2>1. /\ CopyOK(calls[n - 1], StartAt(calls, first, n - 1))
        /\ n > 1 => Calling(calls[n - 1], calls[n])
    BY <1>1 DEF CallsOK
  <2> QED  BY <1>1, <2>1
<1>4. StartAt(calls, first, n) = Start(c)
  BY <1>1 DEF StartAt
<1>5. CopyOK(e, StartAt(calls, first, n - 1))
  <2> DEFINE callee == calls[n]
             s == StartAt(calls, first, n - 1)
  <2>1. Outcome(callee.data, callee.type, Start(c), ok, v) /\ Calling(c, callee) /\ CopyOK(c, s)
    BY <1>3, <1>4
  <2> HIDE DEF callee, s, c
  <2>2. CopyOK(After(c, ok, v), s)
    BY <2>1, AfterOK
  <2> QED  BY <2>2 DEF s
<1>6. e.data = c.data /\ e.type = c.type
  <2>1. c = [data |-> c.data, type |-> c.type, value |-> c.value, at |-> c.at, failed |-> c.failed]
    BY <1>3 DEF CopyOK
  <2> HIDE DEF c
  <2> QED  BY <2>1 DEF After
<1> HIDE DEF t, e
<1>7. ASSUME NEW i \in 1..n - 1
      PROVE  CopyOK(t[i], StartAt(t, first, i)) /\ (i > 1 => Calling(t[i - 1], t[i]))
  <2>1. i > 1 => t[i - 1] = calls[i - 1]
    <3>1. i > 1 => i - 1 \in 1..n - 2
      BY <1>1
    <3> QED  BY <1>2, <3>1
  <2>2. StartAt(t, first, i) = StartAt(calls, first, i)
    <3>1. i # 1 => i > 1
      BY <1>1
    <3> QED  BY <2>1, <3>1 DEF StartAt
  <2>3. CopyOK(calls[i], StartAt(calls, first, i)) /\ (i > 1 => Calling(calls[i - 1], calls[i]))
    <3>1. i \in 1..n
      BY <1>1
    <3> QED  BY <3>1 DEF CallsOK
  <2>4. CASE i = n - 1
    <3>1. t[i] = e /\ calls[i] = c
      BY <1>2, <2>4
    <3>2. CopyOK(t[i], StartAt(t, first, i))
      BY <1>5, <2>2, <2>4, <3>1
    <3>3. ASSUME i > 1 PROVE Calling(t[i - 1], t[i])
      <4>1. Calling(calls[i - 1], c)
        BY <2>3, <3>1, <3>3
      <4>2. Calling(calls[i - 1], e)
        <5> HIDE DEF c
        <5> QED  BY <1>6, <4>1 DEF Calling
      <4> QED  BY <2>1, <3>1, <3>3, <4>2
    <3> QED  BY <3>2, <3>3
  <2>5. CASE i # n - 1
    <3>1. i \in 1..n - 2
      BY <1>1, <2>5
    <3>2. t[i] = calls[i]
      BY <1>2, <3>1
    <3> QED  BY <2>1, <2>2, <2>3, <3>2
  <2> QED  BY <2>4, <2>5
<1>8. CallsOK(t, first)
  BY <1>2, <1>7 DEF CallsOK
<1>9. t[1].data = calls[1].data /\ t[1].type = calls[1].type
  <2>1. CASE n = 2
    <3>1. n - 1 = 1
      BY <2>1
    <3> QED  BY <1>2, <1>6, <3>1
  <2>2. CASE n # 2
    <3>1. n \in Nat /\ n > 1
      BY <1>1
    <3>2. 1 \in 1..n - 2
      <4> HIDE DEF n
      <4> QED  BY <2>2, <3>1
    <3>3. t[1] = calls[1]
      <4> HIDE DEF n
      <4> QED  BY <1>2, <3>2
    <3> QED  BY <3>3
  <2> QED  BY <2>1, <2>2
<1>10. t # << >>
  <2>1. Len(t) > 0
    BY <1>1, <1>2
  <2> QED  BY <1>2, <2>1, IsSeqFacts
<1> QED  BY <1>2, <1>8, <1>9, <1>10 DEF t, e

\* Whatever a call returns, the invariant is kept.
LEMMA ReturnsInv ==
  ASSUME CopyInv, Running, NEW ok \in BOOLEAN, NEW v, Returns(ok, v),
         \A start : CopyOK(Decoder, start) => Outcome(Decoder.data, Decoder.type, start, ok, v)
  PROVE  CopyInv'
<1> DEFINE n == Len(decoding)
<1>1. /\ outType' = outType /\ byPointer' = byPointer /\ input' = input /\ before' = before
      /\ decoding # << >>
  BY DEF Running
<1>2. /\ outType \in Types /\ byPointer = TRUE /\ IsSeq(decoding) /\ result = "none"
      /\ decoding[1].data = input /\ decoding[1].type = outType
      /\ CallsOK(decoding, before)
  BY <1>1 DEF CopyInv, DecoderInv
<1>3. n \in Nat /\ n > 0 /\ n \in 1..n /\ Decoder = decoding[n]
  BY <1>1, <1>2, IsSeqFacts DEF Decoder, Last
<1>4. CopyOK(decoding[n], StartAt(decoding, before, n))
  BY <1>2, <1>3 DEF CallsOK
<1>5. Outcome(decoding[n].data, decoding[n].type, StartAt(decoding, before, n), ok, v)
  BY <1>3, <1>4
<1>6. CASE n = 1
  <2>1. decoding' = << >> /\ out' = v /\ result' = IF ok THEN "ok" ELSE "error"
    BY <1>6 DEF Returns
  <2>2. Outcome(input, outType, before, ok, v)
    BY <1>2, <1>5, <1>6 DEF StartAt
  <2>3. IsSeq(decoding') /\ DecoderInv'
    <3>1. << >> \in Seq({})
      OBVIOUS
    <3> QED  BY <2>1, <3>1 DEF IsSeq, DecoderInv
  <2>4. DecodesWhatFits' /\ ErrorLeavesPrefix'
    <3>1. CASE ok
      BY <1>1, <1>2, <2>1, <2>2, <3>1 DEF Outcome, DecodesWhatFits, ErrorLeavesPrefix
    <3>2. CASE ~ok
      BY <1>1, <1>2, <2>1, <2>2, <3>2 DEF Outcome, Failed, DecodesWhatFits, ErrorLeavesPrefix
    <3> QED  BY <3>1, <3>2
  <2> QED  BY <1>1, <1>2, <2>3, <2>4 DEF CopyInv
<1>7. CASE n # 1
  <2> DEFINE t == Append(SubSeq(decoding, 1, n - 2), After(decoding[n - 1], ok, v))
  <2>1. decoding' = t /\ out' = out /\ result' = result
    BY <1>7 DEF Returns
  <2>2. n > 1
    <3>1. n \in Nat /\ n > 0
      BY <1>3
    <3> HIDE DEF n
    <3> QED  BY <1>7, <3>1
  <2>3. /\ IsSeq(t) /\ t # << >> /\ CallsOK(t, before)
        /\ t[1].data = decoding[1].data /\ t[1].type = decoding[1].type
    BY <1>2, <1>5, <2>2, CallsPop
  <2> HIDE DEF t
  <2>4. IsSeq(decoding') /\ DecoderInv'
    BY <1>1, <1>2, <2>1, <2>3 DEF DecoderInv
  <2>5. result' = "none"
    BY <1>2, <2>1
  <2>6. DecodesWhatFits' /\ ErrorLeavesPrefix'
    BY <2>5 DEF DecodesWhatFits, ErrorLeavesPrefix
  <2> QED  BY <1>1, <1>2, <2>4, <2>6 DEF CopyInv
<1> QED  BY <1>6, <1>7

\* Neither does the call that the innermost one makes break it.
LEMMA RecursesInv ==
  ASSUME CopyInv, Running, NEW d, NEW type, NEW start, Recurses(d, type, start),
         \A s : CopyOK(Decoder, s) =>
           /\ d \in Data /\ type \in Types /\ start \in Values(type)
           /\ start = Start(Decoder) /\ Calling(Decoder, Impl(d, type, start))
  PROVE  CopyInv'
<1> DEFINE n == Len(decoding)
           new == Impl(d, type, start)
<1>1. /\ outType' = outType /\ byPointer' = byPointer /\ input' = input /\ before' = before
      /\ decoding # << >> /\ decoding' = Append(decoding, new) /\ result' = result
  BY DEF Running, Recurses
<1>2. /\ outType \in Types /\ byPointer = TRUE /\ IsSeq(decoding) /\ result = "none"
      /\ decoding[1].data = input /\ decoding[1].type = outType
      /\ CallsOK(decoding, before)
  BY <1>1 DEF CopyInv, DecoderInv
<1>3. n \in Nat /\ n > 0 /\ n \in 1..n /\ Decoder = decoding[n]
  BY <1>1, <1>2, IsSeqFacts DEF Decoder, Last
<1>4. CopyOK(Decoder, StartAt(decoding, before, n))
  BY <1>2, <1>3 DEF CallsOK
<1>5. /\ d \in Data /\ type \in Types /\ start \in Values(type) /\ start = Start(Decoder)
      /\ Calling(Decoder, new)
  BY <1>4
<1>6. CopyOK(new, start)
  BY <1>5, NewCall
<1>7. /\ IsSeq(Append(decoding, new)) /\ CallsOK(Append(decoding, new), before)
      /\ Append(decoding, new)[1] = decoding[1]
  <2> HIDE DEF new
  <2> QED  BY <1>1, <1>2, <1>3, <1>5, <1>6, CallsPush
<1> HIDE DEF new
<1>8. IsSeq(decoding') /\ DecoderInv'
  BY <1>1, <1>2, <1>7 DEF DecoderInv
<1>9. result' = "none"
  BY <1>1, <1>2
<1>10. DecodesWhatFits' /\ ErrorLeavesPrefix'
  BY <1>9 DEF DecodesWhatFits, ErrorLeavesPrefix
<1> QED  BY <1>1, <1>2, <1>8, <1>10 DEF CopyInv


\* The call m2s makes for a field.
LEMMA FieldCall ==
  ASSUME NEW c, NEW s, CopyOK(c, s), ~Fails(c), c.data.kind = "map", c.at <= Len(c.type.fields)
  PROVE  LET d == c.data.entries[Key(c)]
             type == c.type.fields[c.at].type
             start == c.value.fields[c.at]
         IN  /\ d \in Data /\ type \in Types /\ start \in Values(type)
             /\ start = Start(c) /\ Calling(c, Impl(d, type, start))
<1> DEFINE d == c.data.entries[Key(c)]
           type == c.type.fields[c.at].type
           start == c.value.fields[c.at]
<1>1. IsStruct(c.data, c.type) /\ ~c.failed /\ Key(c) \in DOMAIN c.data.entries
  BY DEF Fails, IsStruct
<1>2. c.data \in Data /\ c.type \in Types
  BY DEF CopyOK
<1>3. start = Start(c)
  BY <1>1 DEF Start, IsStruct
<1>4. c.at \in DOMAIN c.type.fields /\ Start(c) \in Values(type)
  BY <1>1, StartIs
<1>5. d \in Data
  BY <1>1, <1>2, DataParts DEF IsStruct
<1>6. type \in Types
  BY <1>1, <1>2, <1>4, TypeParts DEF IsStruct
<1>7. HasField(c.data, c.type, c.at) /\ d = FieldData(c.data, c.type, c.at)
  BY <1>1 DEF HasField, FieldData, Key
<1>8. Impl(d, type, start).data = d /\ Impl(d, type, start).type = type
  BY DEF Impl
<1>9. Calling(c, Impl(d, type, start))
  BY <1>1, <1>7, <1>8 DEF Calling
<1> QED  BY <1>3, <1>4, <1>5, <1>6, <1>9

\* The call s2s makes for an element.
LEMMA ElementCall ==
  ASSUME NEW c, NEW s, CopyOK(c, s), ~Fails(c), c.data.kind = "list", c.at <= Len(c.data.elems)
  PROVE  LET d == c.data.elems[c.at]
             type == c.type.elem
             start == Zero(c.type.elem)
         IN  /\ d \in Data /\ type \in Types /\ start \in Values(type)
             /\ start = Start(c) /\ Calling(c, Impl(d, type, start))
<1> DEFINE d == c.data.elems[c.at]
           type == c.type.elem
           start == Zero(c.type.elem)
<1>1. IsSlice(c.data, c.type) /\ ~c.failed
  BY DEF Fails, IsSlice
<1>2. c.data \in Data /\ c.type \in Types /\ c.at \in Nat /\ c.at > 0
  BY DEF CopyOK
<1>3. start = Start(c)
  BY <1>1 DEF Start, IsSlice
<1>4. type \in Types
  BY <1>1, <1>2, TypeParts DEF IsSlice
<1>5. start \in Values(type)
  BY <1>4, ValuesAssumption
<1>6. d \in Data
  <2>1. Len(c.data.elems) \in Nat /\ DOMAIN c.data.elems = 1..Len(c.data.elems)
        /\ \A i \in DOMAIN c.data.elems : c.data.elems[i] \in Data
    BY <1>1, <1>2, DataParts DEF IsSlice
  <2> QED  BY <1>2, <2>1
<1>7. Impl(d, type, start).data = d /\ Impl(d, type, start).type = type
  BY DEF Impl
<1>8. Calling(c, Impl(d, type, start))
  BY <1>1, <1>7 DEF Calling
<1> QED  BY <1>3, <1>4, <1>5, <1>6, <1>8

\* The invariant holds of any data and types, of any depth, and any number of calls
\* of i2s: every call of i2s_impl under way has written what the reference says, up to
\* the field or element it is at.
THEOREM CopiesRight == DecodeSpec => []CopyInv
<1>1. DecodeInit => CopyInv
  <2> SUFFICES ASSUME DecodeInit PROVE CopyInv
    OBVIOUS
  <2>1. << >> \in Seq({})
    OBVIOUS
  <2> QED  BY <2>1, TypesAssumption DEF DecodeInit, CopyInv, IsSeq, DecoderInv, DecodesWhatFits,
                                      ErrorLeavesPrefix
<1>2. ASSUME CopyInv, Decode PROVE CopyInv'
  <2>1. outType' = outType /\ byPointer' = byPointer /\ before' = out /\ out' = out
        /\ out \in Values(outType) /\ result' = IF byPointer THEN "none" ELSE "error"
    BY <1>2 DEF Decode
  <2>2. PICK d \in Data : /\ decoding' = IF byPointer THEN <<Impl(d, outType, out)>> ELSE << >>
                          /\ input' = d
    BY <1>2 DEF Decode
  <2>3. outType \in Types /\ byPointer \in BOOLEAN
    BY <1>2 DEF CopyInv
  <2>4. CASE byPointer
    <3> DEFINE call == Impl(d, outType, out)
    <3>1. CopyOK(call, out)
      BY <2>1, <2>3, NewCall
    <3>2. call.data = d /\ call.type = outType
      BY DEF Impl
    <3> HIDE DEF call
    <3>3. IsSeq(<<call>>) /\ Len(<<call>>) = 1 /\ <<call>>[1] = call
      BY OneIsSeq
    <3>4. CallsOK(<<call>>, out)
      <4>1. \A i \in 1..Len(<<call>>) : i = 1 /\ ~(i > 1)
        BY <3>3
      <4> QED  BY <3>1, <3>3, <4>1 DEF CallsOK, StartAt
    <3>5. decoding' = <<call>> /\ result' = "none"
      BY <2>1, <2>2, <2>4 DEF call
    <3>6. IsSeq(decoding') /\ DecoderInv'
      BY <2>1, <2>2, <2>4, <3>2, <3>3, <3>4, <3>5 DEF DecoderInv
    <3> QED  BY <2>1, <2>3, <3>5, <3>6 DEF CopyInv, DecodesWhatFits, ErrorLeavesPrefix
  <2>5. CASE ~byPointer
    <3>1. decoding' = << >> /\ result' = "error"
      BY <2>1, <2>2, <2>5
    <3>2. << >> \in Seq({})
      OBVIOUS
    <3> QED  BY <2>1, <2>3, <2>5, <3>1, <3>2 DEF CopyInv, IsSeq, DecoderInv, DecodesWhatFits,
                                                ErrorLeavesPrefix
  <2> QED  BY <2>4, <2>5
<1>3. ASSUME CopyInv, Error PROVE CopyInv'
  <2>1. Running /\ Fails(Decoder) /\ Returns(FALSE, Decoder.value)
    BY <1>3 DEF Error
  <2>2. \A start : CopyOK(Decoder, start) =>
          Outcome(Decoder.data, Decoder.type, start, FALSE, Decoder.value)
    BY <2>1, ErrorOutcome
  <2> QED  BY <1>3, <2>1, <2>2, ReturnsInv
<1>4. ASSUME CopyInv, SetScalar PROVE CopyInv'
  <2> DEFINE v == Scalar(Decoder.type.kind, IF Decoder.data.kind = "float64"
                                            THEN Truncated(Decoder.data.v) ELSE Decoder.data.v)
  <2>1. Running /\ ~Fails(Decoder) /\ Decoder.data.kind \notin {"map", "list"} /\ Returns(TRUE, v)
    BY <1>4 DEF SetScalar
  <2>2. \A start : CopyOK(Decoder, start) => Outcome(Decoder.data, Decoder.type, start, TRUE, v)
    BY <2>1, ScalarOutcome
  <2> HIDE DEF v
  <2> QED  BY <1>4, <2>1, <2>2, ReturnsInv
<1>5. ASSUME CopyInv, LoopEnds PROVE CopyInv'
  <2>1. /\ Running /\ ~Fails(Decoder) /\ Returns(TRUE, Decoder.value)
        /\ \/ Decoder.data.kind = "map" /\ Decoder.at > Len(Decoder.type.fields)
           \/ Decoder.data.kind = "list" /\ Decoder.at > Len(Decoder.data.elems)
    BY <1>5 DEF LoopEnds
  <2>2. \A start : CopyOK(Decoder, start) =>
          Outcome(Decoder.data, Decoder.type, start, TRUE, Decoder.value)
    BY <2>1, EndOutcome
  <2> QED  BY <1>5, <2>1, <2>2, ReturnsInv
<1>6. ASSUME CopyInv, NextField PROVE CopyInv'
  <2> DEFINE d == Decoder.data.entries[Key(Decoder)]
             type == Decoder.type.fields[Decoder.at].type
             start == Decoder.value.fields[Decoder.at]
  <2>1. /\ Running /\ ~Fails(Decoder) /\ Decoder.data.kind = "map"
        /\ Decoder.at <= Len(Decoder.type.fields) /\ Recurses(d, type, start)
    BY <1>6 DEF NextField
  <2>2. \A s : CopyOK(Decoder, s) =>
          /\ d \in Data /\ type \in Types /\ start \in Values(type)
          /\ start = Start(Decoder) /\ Calling(Decoder, Impl(d, type, start))
    BY <2>1, FieldCall
  <2> HIDE DEF d, type, start
  <2> QED  BY <1>6, <2>1, <2>2, RecursesInv
<1>7. ASSUME CopyInv, NextElement PROVE CopyInv'
  <2> DEFINE d == Decoder.data.elems[Decoder.at]
             type == Decoder.type.elem
             start == Zero(Decoder.type.elem)
  <2>1. /\ Running /\ ~Fails(Decoder) /\ Decoder.data.kind = "list"
        /\ Decoder.at <= Len(Decoder.data.elems) /\ Recurses(d, type, start)
    BY <1>7 DEF NextElement
  <2>2. \A s : CopyOK(Decoder, s) =>
          /\ d \in Data /\ type \in Types /\ start \in Values(type)
          /\ start = Start(Decoder) /\ Calling(Decoder, Impl(d, type, start))
    BY <2>1, ElementCall
  <2> HIDE DEF d, type, start
  <2> QED  BY <1>7, <2>1, <2>2, RecursesInv
<1>8. ASSUME CopyInv, UNCHANGED decodeVars PROVE CopyInv'
  BY <1>8 DEF CopyInv, decodeVars, DecoderInv, DecodesWhatFits, ErrorLeavesPrefix
<1>9. CopyInv /\ [DecodeNext]_decodeVars => CopyInv'
  BY <1>2, <1>3, <1>4, <1>5, <1>6, <1>7, <1>8 DEF DecodeNext
<1> QED  BY <1>1, <1>9, PTL DEF DecodeSpec

\* For any data and types, of any depth: i2s succeeds on exactly the data that is of
\* the variable's type, given by pointer, and leaves in it what the reference says.
THEOREM DecodesRight == DecodeSpec => []DecodesWhatFits
<1>1. CopyInv => DecodesWhatFits
  BY DEF CopyInv
<1> QED  BY <1>1, CopiesRight, PTL

\* For any data and types, of any depth: a call of i2s that fails has written what
\* stands before the first thing that does not fit, and nothing after it.
THEOREM ErrorsLeavePrefix == DecodeSpec => []ErrorLeavesPrefix
<1>1. CopyInv => ErrorLeavesPrefix
  BY DEF CopyInv
<1> QED  BY <1>1, CopiesRight, PTL
=============================================================================
