----------------------------- MODULE MCExercises -----------------------------
(* Instances of FastSearch, I2s and DirTree for TLC.  The three programs share
   nothing: a behaviour runs one of them and leaves the other two at rest. *)
EXTENDS FastSearch, I2s, DirTree

-----------------------------------------------------------------------------
(* FastSearch: files of up to three segments *)

CONSTANTS c1, c2, c3, droid, ie, both, other, odd

MCSearches == {c1, c2, c3}
MCAndroid == {droid, both}
MCMSIE == {ie, both}
User(browsers, ats) == [json |-> TRUE, browsers |-> browsers, hasEmail |-> TRUE, ats |-> ats]
MCLines ==
  {User(<<droid, ie>>, 1), User(<<ie, other>>, 1), User(<<both>>, 2), User(<<droid, both>>, 0),
   User(<<droid, odd, ie>>, 1),
   [json |-> TRUE, browsers |-> <<both>>, hasEmail |-> FALSE, ats |-> 0],
   [json |-> FALSE, browsers |-> << >>, hasEmail |-> FALSE, ats |-> 0]}
MCTexts == UNION {[1..n -> MCLines] : n \in 1..3}

-----------------------------------------------------------------------------
(* I2s: scalars, a struct, a slice of structs, a struct of all of them *)

IntType == [kind |-> "int"]
BoolType == [kind |-> "bool"]
StringType == [kind |-> "string"]
Simple == [kind |-> "struct", fields |-> <<Field("ID", IntType), Field("Active", BoolType)>>]
SliceOf(type) == [kind |-> "slice", elem |-> type]
Complex == [kind |-> "struct", fields |-> <<Field("SubSimple", Simple),
              Field("ManySimple", SliceOf(Simple)), Field("Name", StringType)>>]
MCOuts ==
  {IntType, StringType, Simple, SliceOf(Simple), Complex, [kind |-> "int64"], [kind |-> "float64"]}
MCTypes == MCOuts \cup {BoolType}

Yes == Scalar("bool", 1)
Text == Scalar("string", 1)
MCScalars == {Null, Scalar("int", 7), Text, Yes} \cup {Number(h) : h \in {-3, 2, 4, 5, 6}}
Good == Object([ID |-> Number(5), Active |-> Yes])
LateBad == Object([ID |-> Number(6), Active |-> Text])
Missing == Object([Active |-> Yes, Extra |-> Null])
MCSimples ==
  {Object(m) : m \in UNION {[names -> {Number(-3), Yes, Text}] : names \in SUBSET {"ID", "Active", "Extra"}}}
  \cup {Good, LateBad, Missing}
MCLists == {List(s) : s \in BoundedSeq({Good, LateBad, Number(2)}, 2)}
MCComplexes ==
  {Object([SubSimple |-> s, ManySimple |-> m, Name |-> n]) :
     s \in {Good, LateBad, Missing, Yes}, m \in MCLists \cup {Good}, n \in {Text, Number(2)}}
  \cup {Object([SubSimple |-> Good, Name |-> Text])}
MCData == MCScalars \cup MCSimples \cup MCLists \cup MCComplexes

RECURSIVE MCZero(_), MCFits(_, _), MCMerged(_, _, _), MCPartlyMerged(_, _, _)
MCZero(type) == ZeroBy(MCZero, type)
MCFits(d, type) == FitsBy(MCFits, d, type)
MCMerged(d, type, value) == MergedBy(MCMerged, d, type, value)
MCPartlyMerged(d, type, value) == PartlyMergedBy(MCPartlyMerged, d, type, value)

Ints == {Scalar("int", v) : v \in {-1, 0, 2, 3}}
Bools == {Scalar("bool", v) : v \in 0..1}
Strings == {Scalar("string", v) : v \in 0..1}
Simples == {Struct(<<id, active>>) : id \in Ints, active \in Bools}
Slices == {Slice(s) : s \in BoundedSeq({Struct(<<Scalar("int", 2), Yes>>)}, 2)}
Complexes == {Struct(<<sub, many, name>>) : sub \in Simples, many \in Slices, name \in Strings}
MCValues(type) ==
  CASE type = IntType -> Ints
    [] type = BoolType -> Bools
    [] type = StringType -> Strings
    [] type = Simple -> Simples
    [] type = SliceOf(Simple) -> Slices
    [] type = Complex -> Complexes
    [] OTHER -> {Zero(type)}

-----------------------------------------------------------------------------
(* DirTree: an empty directory, no directory, two trees of depth two *)

CONSTANTS x, y, z

MCRank == (x :> 1) @@ (y :> 2) @@ (z :> 3)
Dir == [kind |-> "dir", size |-> 0]
FileOf(size) == [kind |-> "file", size |-> size]
Empty == Root :> Dir
MCTrees ==
  {Empty, Root :> FileOf(1),
   Empty @@ (<<x>> :> Dir) @@ (<<y>> :> FileOf(0)) @@ (<<x, y>> :> FileOf(2)) @@ (<<x, z>> :> Dir),
   Empty @@ (<<x>> :> FileOf(1)) @@ (<<y>> :> Dir) @@ (<<z>> :> Dir)
         @@ (<<y, x>> :> Dir) @@ (<<z, y>> :> FileOf(3))}
MCChanges == {Dir, FileOf(5), [kind |-> "link", size |-> 4]}

-----------------------------------------------------------------------------
SearchRests ==
  /\ file = << >> /\ pool = {} /\ crashed = FALSE
  /\ searchPc = [c \in Searches |-> "done"]
  /\ origin = [c \in Searches |-> NoText] /\ data = [c \in Searches |-> << >>]
  /\ line = [c \in Searches |-> 0]
  /\ found = [c \in Searches |-> << >>] /\ seen = [c \in Searches |-> {}]

DecodeRests ==
  /\ outType = IntType /\ byPointer = TRUE /\ out = Null /\ before = out
  /\ result = "none" /\ input = Null /\ decoding = << >>

TreeRests ==
  /\ fs = Empty /\ changes = 0 /\ argc = 1 /\ minusF = FALSE
  /\ walkPc = "panic" /\ stack = << >> /\ points = << >>
  /\ drawing = << >> /\ drawn = << >> /\ written = << >>
  /\ always = Entries(fs) /\ ever = Entries(fs)

Init ==
  \/ SearchInit /\ DecodeRests /\ TreeRests
  \/ DecodeInit /\ SearchRests /\ TreeRests
  \/ TreeInit /\ SearchRests /\ DecodeRests

Next ==
  \/ SearchNext /\ UNCHANGED <<decodeVars, treeVars>>
  \/ DecodeNext /\ UNCHANGED <<searchVars, treeVars>>
  \/ TreeNext /\ UNCHANGED <<searchVars, decodeVars>>

Spec == Init /\ [][Next]_<<searchVars, decodeVars, treeVars>>
=============================================================================
