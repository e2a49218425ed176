------------------------------- MODULE DirWalk -------------------------------
(***************************************************************************)
(* The walk of hw1_tree/main.go.  InspectDir goes through the directories  *)
(* with one system call after the other while other processes change the   *)
(* file system.  A path is the sequence of names below the directory that  *)
(* is printed.  The file system gives the paths that exist a kind and a    *)
(* size; the program only asks of a kind whether it is "dir".  []FSPoint   *)
(* is kept flat: its points with their paths, a directory before the       *)
(* points inside it, which are those whose paths go on from its own.       *)
(***************************************************************************)
EXTENDS Integers, Sequences, FiniteSets, SequencesExt

CONSTANTS Trees,        \* the file systems the program may start on
          Changes,      \* the nodes other processes may put at a path
          MaxChanges,   \* bound on their changes
          Rank,         \* the order of names, as a number for each
          MaxDepth      \* bound on the paths other processes create

Root == << >>
Names == DOMAIN Rank

\* Whatever is there is in a directory.
IsTree(tree) ==
  \A p \in DOMAIN tree : p \in Seq(Names) /\
    \A d \in 0..Len(p) - 1 :
      SubSeq(p, 1, d) \in DOMAIN tree /\ tree[SubSeq(p, 1, d)].kind = "dir"

ASSUME TreesAssumption == \A tree \in Trees : IsTree(tree)
ASSUME RankAssumption == \A name \in Names : Rank[name] \in Int

VARIABLES
  fs,          \* the file system: paths to nodes
  changes,     \* changes made to it since the program started
  argc,        \* len(os.Args)
  minusF,      \* whether os.Args[2] is "-f"
  walkPc,      \* "start", "lstat", "readdir", "stat", "loop", "returned", "panic"
  stack,       \* the calls of InspectDir that are under way, innermost last
  points,      \* what InspectDir returned to dirTree
  always,      \* history: the entries that have been there in every state
  ever         \* history: those that were there in some state

walkVars == <<fs, changes, argc, minusF, walkPc, stack, points, always, ever>>

PrintFiles == argc = 3 /\ minusF
Top == Last(stack)
Entries(tree) == {<<p, tree[p]>> : p \in DOMAIN tree}

\* A frame of InspectDir: its path, the names Readdir has to look up, the infos
\* of those it found or that the loop still has to look at, the points.
Frame(path) == [path |-> path, names |-> {}, infos |-> << >>, points |-> << >>]

WalkInit ==
  /\ fs \in Trees
  /\ changes = 0
  /\ argc \in 1..4 /\ minusF \in BOOLEAN /\ (minusF => argc > 2)
  /\ walkPc = "start" /\ stack = << >> /\ points = << >>
  /\ always = Entries(fs) /\ ever = Entries(fs)

Quiet == UNCHANGED <<fs, changes, argc, minusF, always, ever>>

-----------------------------------------------------------------------------
(* main and dirTree *)

Usage ==
  /\ walkPc = "start" /\ argc \notin {2, 3}
  /\ walkPc' = "panic"
  /\ UNCHANGED <<stack, points>> /\ Quiet

CallInspectDir ==
  /\ walkPc = "start" /\ argc \in {2, 3}
  /\ walkPc' = "lstat"
  /\ stack' = <<Frame(Root)>>
  /\ UNCHANGED points /\ Quiet

\* An error anywhere goes up through every call and ends in main's panic.
Fail == walkPc' = "panic" /\ stack' = << >> /\ UNCHANGED points /\ Quiet

-----------------------------------------------------------------------------
(* InspectDir *)

IsDir(path) == path \in DOMAIN fs /\ fs[path].kind = "dir"

\* Lstat: the path must be there and be a directory.
Lstat ==
  /\ walkPc = "lstat"
  /\ IsDir(Top.path)
  /\ walkPc' = "readdir"
  /\ UNCHANGED <<stack, points>> /\ Quiet

LstatError == walkPc = "lstat" /\ ~IsDir(Top.path) /\ Fail

SetTop(frame) == stack' = [stack EXCEPT ![Len(stack)] = frame]

\* Open, and Readdir's list of names.
Readdir ==
  /\ walkPc = "readdir"
  /\ IsDir(Top.path)
  /\ SetTop([Top EXCEPT !.names = {name \in Names : Append(Top.path, name) \in DOMAIN fs}])
  /\ walkPc' = "stat"
  /\ UNCHANGED points /\ Quiet

ReaddirError == walkPc = "readdir" /\ ~IsDir(Top.path) /\ Fail

\* Readdir looks each name up, in the order of the directory; one that is gone by
\* now is left out.
StatName ==
  /\ walkPc = "stat"
  /\ \E name \in Top.names :
       LET path == Append(Top.path, name)
       IN  SetTop([Top EXCEPT !.names = @ \ {name},
                              !.infos = IF path \in DOMAIN fs
                                        THEN Append(@, [name |-> name, node |-> fs[path]]) ELSE @])
  /\ UNCHANGED <<walkPc, points>> /\ Quiet

\* Faulty: the infos stay in the order of the directory.
SortedNot(infos) == {infos}

\* The infos in the order of their names.
Sorted(infos) ==
  {s \in [DOMAIN infos -> ToSet(infos)] :
     /\ ToSet(s) = ToSet(infos)
     /\ \A j, k \in DOMAIN s : j < k => Rank[s[j].name] < Rank[s[k].name]}

\* Readdir returns, the file is closed and the infos are sorted.
SortFiles ==
  /\ walkPc = "stat" /\ Top.names = {}
  /\ \E infos \in Sorted(Top.infos) : SetTop([Top EXCEPT !.infos = infos])
  /\ walkPc' = "loop"
  /\ UNCHANGED points /\ Quiet

NextInfo == Head(Top.infos)
Point(path, node) == [path |-> path, node |-> node]

\* An info of a directory: the recursive call.
Descend ==
  /\ walkPc = "loop" /\ Top.infos # << >> /\ NextInfo.node.kind = "dir"
  /\ stack' = Append(stack, Frame(Append(Top.path, NextInfo.name)))
  /\ walkPc' = "lstat"
  /\ UNCHANGED points /\ Quiet

\* Faulty: files are listed whether they are asked for or not.
WithFileAlways(listed, path, node) == Append(listed, Point(path, node))

WithFile(listed, path, node) == IF PrintFiles THEN Append(listed, Point(path, node)) ELSE listed

\* Anything else is a file, listed on demand.
TakeFile ==
  /\ walkPc = "loop" /\ Top.infos # << >> /\ NextInfo.node.kind # "dir"
  /\ SetTop([Top EXCEPT
       !.infos = Tail(@),
       !.points = WithFile(@, Append(Top.path, NextInfo.name), NextInfo.node)])
  /\ UNCHANGED <<walkPc, points>> /\ Quiet

\* The recursive call returns and its points become a Directory of the caller.
Ascend ==
  /\ walkPc = "loop" /\ Top.infos = << >> /\ Len(stack) > 1
  /\ LET caller == stack[Len(stack) - 1]
     IN  stack' = Append(SubSeq(stack, 1, Len(stack) - 2),
           [caller EXCEPT
              !.infos = Tail(@),
              !.points = @ \o <<Point(Top.path, Head(caller.infos).node)>> \o Top.points])
  /\ UNCHANGED <<walkPc, points>> /\ Quiet

\* The outermost call returns to dirTree.
Return ==
  /\ walkPc = "loop" /\ Top.infos = << >> /\ Len(stack) = 1
  /\ points' = Top.points
  /\ walkPc' = "returned"
  /\ stack' = << >>
  /\ Quiet

-----------------------------------------------------------------------------
(* Other processes *)

Subtree(path) == {p \in DOMAIN fs : IsPrefix(path, p)}

Becomes(tree) ==
  /\ changes < MaxChanges
  /\ walkPc \notin {"start", "returned", "panic"}
  /\ changes' = changes + 1
  /\ fs' = tree
  /\ always' = always \cap Entries(tree)
  /\ ever' = ever \cup Entries(tree)
  /\ UNCHANGED <<argc, minusF, walkPc, stack, points>>

RemovePath ==
  \E path \in DOMAIN fs : Becomes([p \in DOMAIN fs \ Subtree(path) |-> fs[p]])

\* A node appears, in place of what was there.
PutPath ==
  \E parent \in DOMAIN fs, name \in Names, node \in Changes :
    /\ fs[parent].kind = "dir" /\ Len(parent) < MaxDepth
    /\ LET path == Append(parent, name)
       IN  Becomes([p \in (DOMAIN fs \ Subtree(path)) \cup {path} |->
                      IF p = path THEN node ELSE fs[p]])

-----------------------------------------------------------------------------
WalkNext ==
  \/ Usage \/ CallInspectDir
  \/ Lstat \/ LstatError \/ Readdir \/ ReaddirError \/ StatName \/ SortFiles
  \/ Descend \/ TakeFile \/ Ascend \/ Return
  \/ RemovePath \/ PutPath

WalkSpec == WalkInit /\ [][WalkNext]_walkVars

-----------------------------------------------------------------------------
(* Properties *)

\* In the order of a printed tree: a directory before what is in it, names in
\* their order.
Before(p, q) ==
  \/ IsStrictPrefix(p, q)
  \/ \E d \in DOMAIN p \cap DOMAIN q :
       (\A c \in 1..d - 1 : p[c] = q[c]) /\ Rank[p[d]] < Rank[q[d]]

\* What is to be listed of entries: directories, and files if asked for.
Shown(entries) == {e \in entries : e[1] # Root /\ (e[2].kind = "dir" \/ PrintFiles)}

\* However the file system changes under the walk, it returns every entry that
\* was there all the time and none that never was, each once and in order, and it
\* fails only if something changed or it was not given a directory.
WalkFindsWhatWasThere ==
  /\ walkPc = "returned" =>
       LET listed == {<<points[k].path, points[k].node>> : k \in DOMAIN points}
       IN  /\ Shown(always) \subseteq listed /\ listed \subseteq Shown(ever)
           /\ \A j, k \in DOMAIN points : j < k => Before(points[j].path, points[k].path)
  /\ walkPc = "panic" /\ argc \in {2, 3} => ever # always \/ ~IsDir(Root)
=============================================================================
