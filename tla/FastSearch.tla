------------------------------ MODULE FastSearch ------------------------------
(***************************************************************************)
(* FastSearch of hw3_bench/fast.go: several calls that share filePool.     *)
(* The pool's New reads the file; a call cuts the lines off the front of   *)
(* the text it got and, when it is over, puts back what is left of it.     *)
(*                                                                         *)
(* A text is the sequence of the segments its line breaks separate, as     *)
(* strings.Split gives them, so its last segment has no line break.  A     *)
(* segment is reduced to whether it is the JSON of a user, the user's      *)
(* browsers, and whether there is an e-mail and how many "@" are in it.    *)
(***************************************************************************)
EXTENDS Naturals, Sequences, FiniteSets

CONSTANTS Searches,     \* the calls of FastSearch
          Lines,        \* the segments a text is made of
          Texts,        \* what the file may hold
          Android,      \* the browsers whose name contains "Android"
          MSIE,         \* those whose name contains "MSIE"
          NotString     \* an element of "browsers" that is no string

NoText == "no text"
ASSUME SearchAssumption == NoText \notin Searches
\* strings.Split gives at least one segment.
ASSUME TextsAssumption == \A t \in Texts : t \in Seq(Lines) /\ Len(t) > 0
ASSUME LinesAssumption == \A u \in Lines : u.ats \in Nat /\ (u.ats > 0 => u.hasEmail)

VARIABLES
  file,      \* the text of filePath
  pool,      \* filePool: texts put back, each with its origin and who put it
  searchPc,  \* control state of each call: "get", "scan", "put", "done", "panic"
  origin,    \* history: the call whose New read the text a call works on
  data,      \* the local variable data
  line,      \* the loop's i
  found,     \* foundUsers
  seen,      \* seenBrowsers
  crashed    \* a panic ends the process

searchVars == <<file, pool, searchPc, origin, data, line, found, seen, crashed>>
locals == <<origin, data, line, found, seen>>

SearchInit ==
  /\ file \in Texts
  /\ pool = {}
  /\ searchPc = [c \in Searches |-> "get"]
  /\ origin = [c \in Searches |-> NoText]
  /\ data = [c \in Searches |-> << >>]
  /\ line = [c \in Searches |-> 0]
  /\ found = [c \in Searches |-> << >>]
  /\ seen = [c \in Searches |-> {}]
  /\ crashed = FALSE

Elements(s) == {s[i] : i \in DOMAIN s}
Relevant(u) == Elements(u.browsers) \cap (Android \cup MSIE)

IsFound(u) ==
  /\ Elements(u.browsers) \cap Android # {}
  /\ Elements(u.browsers) \cap MSIE # {}

\* Faulty: the browsers are counted after the "continue" of a user not found.
CountedOfFound(u) == IF IsFound(u) THEN Relevant(u) ELSE {}

\* The browsers a user adds to seenBrowsers.
Counted(u) == Relevant(u)

\* The generated decoder takes a list of strings only.
Decodes(u) == u.json /\ NotString \notin Elements(u.browsers)

\* What is printed of a user: its number and the "@" left in its e-mail.
Entry(n, ats) == [n |-> n, ats |-> ats]

-----------------------------------------------------------------------------
(* filePool.Get and the garbage collector *)

GetNew(c) ==
  /\ searchPc[c] = "get"
  /\ origin' = [origin EXCEPT ![c] = c]
  /\ data' = [data EXCEPT ![c] = file]
  /\ searchPc' = [searchPc EXCEPT ![c] = "scan"]
  /\ UNCHANGED <<file, pool, line, found, seen, crashed>>

GetPooled(c) ==
  /\ searchPc[c] = "get"
  /\ \E p \in pool :
       /\ pool' = pool \ {p}
       /\ origin' = [origin EXCEPT ![c] = p.origin]
       /\ data' = [data EXCEPT ![c] = p.text]
  /\ searchPc' = [searchPc EXCEPT ![c] = "scan"]
  /\ UNCHANGED <<file, line, found, seen, crashed>>

\* A pool may lose any of its elements at any time.
Collect ==
  /\ \E p \in pool : pool' = pool \ {p}
  /\ UNCHANGED <<file, searchPc, locals, crashed>>

-----------------------------------------------------------------------------
(* The loop *)

HasLine(c) == Len(data[c]) > 1
Pooled(c) == [by |-> c, origin |-> origin[c], text |-> data[c]]

\* One turn: the line leaves data before its user is looked at.
ScanLine(c) ==
  /\ searchPc[c] = "scan"
  /\ HasLine(c)
  /\ LET u == Head(data[c])
     IN  /\ Decodes(u)
         /\ IsFound(u) => u.ats > 0
         /\ seen' = [seen EXCEPT ![c] = @ \cup Counted(u)]
         /\ found' = [found EXCEPT ![c] =
              IF IsFound(u) THEN Append(@, Entry(line[c], u.ats - 1)) ELSE @]
  /\ data' = [data EXCEPT ![c] = Tail(@)]
  /\ line' = [line EXCEPT ![c] = @ + 1]
  /\ UNCHANGED <<file, pool, searchPc, origin, crashed>>

\* UnmarshalJSON fails; the deferred Put still runs, then the process ends.
PanicOnDecode(c) ==
  /\ searchPc[c] = "scan"
  /\ HasLine(c)
  /\ ~Decodes(Head(data[c]))
  /\ pool' = pool \cup {Pooled(c)}
  /\ searchPc' = [searchPc EXCEPT ![c] = "panic"]
  /\ crashed' = TRUE
  /\ UNCHANGED <<file, locals>>

\* The e-mail of a user that is found has no "@" to cut it at.
PanicOnCut(c) ==
  /\ searchPc[c] = "scan"
  /\ HasLine(c)
  /\ LET u == Head(data[c])
     IN  /\ Decodes(u) /\ IsFound(u) /\ u.ats = 0
         /\ seen' = [seen EXCEPT ![c] = @ \cup Counted(u)]
  /\ data' = [data EXCEPT ![c] = Tail(@)]
  /\ pool' = pool \cup {[Pooled(c) EXCEPT !.text = Tail(@)]}
  /\ searchPc' = [searchPc EXCEPT ![c] = "panic"]
  /\ crashed' = TRUE
  /\ UNCHANGED <<file, origin, line, found>>

\* No line break is left: the loop ends and the result is printed.
PrintFound(c) ==
  /\ searchPc[c] = "scan"
  /\ ~HasLine(c)
  /\ searchPc' = [searchPc EXCEPT ![c] = "put"]
  /\ UNCHANGED <<file, pool, locals, crashed>>

\* The deferred function puts back what data holds now.
PutText(c) ==
  /\ searchPc[c] = "put"
  /\ pool' = pool \cup {Pooled(c)}
  /\ searchPc' = [searchPc EXCEPT ![c] = "done"]
  /\ UNCHANGED <<file, locals, crashed>>

SearchStep(c) ==
  \/ GetNew(c) \/ GetPooled(c)
  \/ ScanLine(c) \/ PanicOnDecode(c) \/ PanicOnCut(c)
  \/ PrintFound(c) \/ PutText(c)

SearchNext == ~crashed /\ (Collect \/ \E c \in Searches : SearchStep(c))

SearchSpec == SearchInit /\ [][SearchNext]_searchVars

-----------------------------------------------------------------------------
(* SlowSearch of common.go, as a function of the text *)

\* Every segment is parsed, an empty one after the last line break too, and a
\* user that is found must have an e-mail.
SlowPanics(text) ==
  \E k \in DOMAIN text : ~text[k].json \/ (IsFound(text[k]) /\ ~text[k].hasEmail)

\* What it prints: every "@" of an e-mail is replaced.
SlowEntries(text) == {Entry(k - 1, 0) : k \in {j \in DOMAIN text : IsFound(text[j])}}
SlowBrowsers(text) == UNION {Relevant(text[k]) : k \in DOMAIN text}

-----------------------------------------------------------------------------
(* Properties *)

Printed(c) == searchPc[c] \in {"put", "done"}
WithoutLast(text) == SubSeq(text, 1, Len(text) - 1)

\* A call that read the file prints, in the order of the lines, what SlowSearch
\* finds in the file without its last line, and counts the same browsers; an
\* e-mail with several "@" keeps all but the first.
FreshCallPrintsReference ==
  \A c \in Searches : Printed(c) /\ origin[c] = c =>
    LET text == WithoutLast(file)
    IN  /\ ~SlowPanics(text)
        /\ {Entry(e.n, 0) : e \in Elements(found[c])} = SlowEntries(text)
        /\ \A e \in Elements(found[c]) : e.ats = text[e.n + 1].ats - 1
        /\ \A i, j \in DOMAIN found[c] : i < j => found[c][i].n < found[c][j].n
        /\ seen[c] = SlowBrowsers(text)

\* What main_test.go:19-29 asks of each call ("results not match"): it prints
\* what SlowSearch prints of the whole file, and counts the same browsers.
FastMatchesSlow ==
  \A c \in Searches : Printed(c) /\ ~SlowPanics(file) =>
    Elements(found[c]) = SlowEntries(file) /\ seen[c] = SlowBrowsers(file)
=============================================================================
