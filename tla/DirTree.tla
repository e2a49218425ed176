------------------------------- MODULE DirTree -------------------------------
(* The tree printer of hw1_tree/main.go: StringifyPoints goes through what the
   walk returned, and dirTree writes the text it makes in one call. *)
EXTENDS DirWalk

VARIABLES drawing,  \* the calls of StringifyPoints that are under way, innermost last
          drawn,     \* the lines they have made
          written   \* the texts written, each a sequence of lines

textVars == <<drawing, drawn, written>>
treeVars == <<walkVars, textVars>>

\* The size is printed for files only.
Line(prefix, head, point) ==
  [prefix |-> prefix, head |-> head, name |-> Last(point.path),
   size |-> IF point.node.kind = "dir" THEN -1 ELSE point.node.size]

\* A call of StringifyPoints: its directory, prefix and the point it looked at last.
Call(dir, prefix, at) == [dir |-> dir, prefix |-> prefix, at |-> at]
Drawer == Last(drawing)

\* The points of its directory it has not looked at.
Rest == {k \in DOMAIN points : k > Drawer.at /\ Front(points[k].path) = Drawer.dir}

\* Faulty: the index is compared with the length.
AtEndNever(rest) == rest = {}

AtEnd(rest) == Cardinality(rest) = 1

CallStringify ==
  /\ walkPc = "returned" /\ drawing = << >> /\ written = << >>
  /\ drawing' = <<Call(Root, << >>, 0)>>
  /\ UNCHANGED <<walkVars, drawn, written>>

\* One turn of the loop up to the recursive call, which is made for a directory.
DrawPoint ==
  /\ drawing # << >>
  /\ \E k \in Rest :
       LET prefix == Drawer.prefix
           caller == Call(Drawer.dir, prefix, k)
           callee == Call(points[k].path, Append(prefix, IF AtEnd(Rest) THEN "tab" ELSE "bar"), k)
       IN  /\ \A j \in Rest : k <= j
           /\ drawn' = Append(drawn, Line(prefix, IF AtEnd(Rest) THEN "corner" ELSE "tee", points[k]))
           /\ drawing' = Append(Front(drawing), caller) \o
                           (IF points[k].node.kind = "dir" THEN <<callee>> ELSE << >>)
  /\ UNCHANGED <<walkVars, written>>

StringifyReturns ==
  /\ Len(drawing) > 1 /\ Rest = {}
  /\ drawing' = Front(drawing)
  /\ UNCHANGED <<walkVars, drawn, written>>

\* The outermost call returns to dirTree.
Write ==
  /\ Len(drawing) = 1 /\ Rest = {}
  /\ drawing' = << >>
  /\ written' = <<drawn>>
  /\ UNCHANGED <<walkVars, drawn>>

TreeInit == WalkInit /\ drawing = << >> /\ drawn = << >> /\ written = << >>
TreeNext ==
  \/ WalkNext /\ UNCHANGED textVars
  \/ CallStringify \/ DrawPoint \/ StringifyReturns \/ Write
TreeSpec == TreeInit /\ [][TreeNext]_treeVars

-----------------------------------------------------------------------------
\* The path a line stands for: its name below those of the last lines above it
\* that are indented less.
PathOf(k, lines) ==
  [d \in 1..Len(lines[k].prefix) + 1 |->
     lines[Max({j \in 1..k : Len(lines[j].prefix) = d - 1})].name]

\* No point comes after a path in its directory.
IsLast(path) ==
  \A k \in DOMAIN points :
    LET p == points[k].path
    IN  Len(p) = Len(path) /\ Front(p) = Front(path) => Rank[Last(p)] <= Rank[Last(path)]

\* The text is the tree of the points drawn right: a line for each, in their order,
\* from which its path can be read, a corner exactly at the last entry listed of a
\* directory, and below it a blank where every other entry has a bar down to the
\* next one.
LinesDrawTree ==
  \A w \in DOMAIN written :
    LET lines == written[w]
    IN  /\ Len(lines) = Len(points)
        /\ \A k \in DOMAIN lines :
             LET path == points[k].path
                 node == points[k].node
             IN  /\ PathOf(k, lines) = path
                 /\ lines[k].size = IF node.kind = "dir" THEN -1 ELSE node.size
                 /\ lines[k].head = IF IsLast(path) THEN "corner" ELSE "tee"
                 /\ \A d \in 1..Len(path) - 1 :
                      lines[k].prefix[d] = IF IsLast(SubSeq(path, 1, d)) THEN "tab" ELSE "bar"
=============================================================================
