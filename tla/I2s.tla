--------------------------------- MODULE I2s ---------------------------------
(***************************************************************************)
(* i2s of hw8_i2s/i2s.go: generic data (what encoding/json gives for       *)
(* interface{}) is copied into a Go value of a static type.  The program   *)
(* calls it again and again on one variable.                               *)
(*                                                                         *)
(* A type is a record with its reflect.Kind: the scalar kinds, a struct    *)
(* with its fields in order, a slice with its element type.  Data and      *)
(* values carry a kind too.  Scalars are integers: a bool is 0 or 1, a     *)
(* string is the number of a string (0 is the empty one) and a float64 is  *)
(* counted in halves.                                                      *)
(*                                                                         *)
(* Types, data and values may be of any depth.  What is said of all of     *)
(* them by recursion is a constant here, and an assumption gives its       *)
(* equation: what it is of a whole, given what it is of the parts.         *)
(***************************************************************************)
EXTENDS Integers, Sequences, SequencesExt

CONSTANTS Types,        \* the types there are, the parts of types among them
          Data,         \* the data there is, the parts of data among it
          Values(_),    \* the values of a type that a call may start from
          Outs,         \* types of the caller's variable
          Zero(_),      \* the zero value of a type
          Fits(_, _), Merged(_, _, _), PartlyMerged(_, _, _)    \* the reference

VARIABLES outType,      \* the type of the caller's variable
          byPointer,    \* whether the caller passes its address
          out,          \* its value
          result,       \* what the last call returned: "none", "ok" or "error"
          input,        \* history: the data of the last call
          before,       \* history: the variable's value before it
          decoding      \* the calls of i2s_impl that are under way, innermost last

decodeVars == <<outType, byPointer, out, result, input, before, decoding>>

-----------------------------------------------------------------------------
(* Types, data and values *)

ScalarKinds == {"int", "string", "bool"}
Field(name, type) == [name |-> name, type |-> type]

Scalar(kind, v) == [kind |-> kind, v |-> v]
Struct(values)  == [kind |-> "struct", fields |-> values]
Slice(values)   == [kind |-> "slice", elems |-> values]

\* The data, as cases of the type switch of i2s_impl.
Null       == [kind |-> "nil"]
Number(h)  == [kind |-> "float64", v |-> h]
Object(m)  == [kind |-> "map", entries |-> m]
List(s)    == [kind |-> "list", elems |-> s]

ASSUME TypesAssumption ==
  /\ Outs \subseteq Types
  /\ \A type \in Types :
       /\ type.kind = "struct" => type.fields \in Seq([name : STRING, type : Types])
       /\ type.kind = "slice" => type.elem \in Types

ASSUME DataAssumption ==
  \A data \in Data :
    /\ data.kind \in {"nil", "float64", "map", "list"} \cup ScalarKinds
    /\ data.kind = "float64" => data.v \in Int
    /\ data.kind = "map" => \A name \in DOMAIN data.entries : data.entries[name] \in Data
    /\ data.kind = "list" => data.elems \in Seq(Data)

ASSUME ValuesAssumption ==
  \A type \in Types :
    /\ Zero(type) \in Values(type)
    /\ \A value \in Values(type) :
         /\ type.kind = "struct" =>
              /\ value = Struct([i \in DOMAIN type.fields |-> value.fields[i]])
              /\ \A i \in DOMAIN type.fields : value.fields[i] \in Values(type.fields[i].type)
         /\ type.kind = "slice" =>
              value = Slice(value.elems) /\ value.elems \in Seq(Values(type.elem))

\* reflect.New(type).Elem()
ZeroBy(ZeroOf(_), type) ==
  CASE type.kind = "struct" -> Struct([i \in DOMAIN type.fields |-> ZeroOf(type.fields[i].type)])
    [] type.kind = "slice"  -> Slice(<< >>)
    [] OTHER                -> Scalar(type.kind, 0)

ASSUME ZeroAssumption == \A type \in Types : Zero(type) = ZeroBy(Zero, type)

\* int64() of a float64 drops the fraction, towards zero.
Truncated(halves) == IF halves >= 0 THEN halves \div 2 ELSE -((-halves) \div 2)

-----------------------------------------------------------------------------
(* The decoder *)

\* Faulty: what a variable holds is dropped first.
ImplReset(data, type, value) ==
  [data |-> data, type |-> type, value |-> Zero(type), at |-> 1, failed |-> FALSE]

\* A call of i2s_impl: the value it writes to, the field or element it is at, and
\* whether that one has failed.
Impl(data, type, value) ==
  [data |-> data, type |-> type, value |-> value, at |-> 1, failed |-> FALSE]

Decoder == Last(decoding)
Key(call) == call.type.fields[call.at].name

\* The kind the variable must have for scalar data, whatever its width.
WantedKind(data) == IF data.kind = "float64" THEN "int" ELSE data.kind

\* An error of the call itself, or of the one it made.
Fails(call) ==
  \/ call.failed
  \/ call.data.kind = "map" /\ call.type.kind # "struct"
  \/ call.data.kind = "map" /\ call.type.kind = "struct" /\ call.at <= Len(call.type.fields)
       /\ Key(call) \notin DOMAIN call.data.entries
  \/ call.data.kind = "list" /\ call.type.kind # "slice"
  \/ call.data.kind = "nil"
  \/ call.data.kind \notin {"map", "list", "nil"} /\ call.type.kind # WantedKind(call.data)

\* Faulty: a field that failed is left as it was.
AfterCleanly(caller, ok, value) ==
  IF ~ok THEN [caller EXCEPT !.failed = TRUE]
  ELSE [caller EXCEPT !.at = @ + 1,
          !.value = IF caller.type.kind = "struct" THEN Struct([@.fields EXCEPT ![caller.at] = value])
                    ELSE Slice(Append(@.elems, value))]

\* A field is written in place; an element is a value of its own, appended to whatever
\* the slice holds if it went well.
After(caller, ok, value) ==
  [caller EXCEPT
     !.value = IF caller.type.kind = "struct" THEN Struct([@.fields EXCEPT ![caller.at] = value])
               ELSE IF ok THEN Slice(Append(@.elems, value)) ELSE @,
     !.at = IF ok THEN @ + 1 ELSE @,
     !.failed = ~ok]

\* The innermost call returns, and with the outermost one i2s does.
Returns(ok, value) ==
  LET n == Len(decoding)
  IN  IF n = 1
      THEN /\ decoding' = << >>
           /\ out' = value
           /\ result' = IF ok THEN "ok" ELSE "error"
      ELSE /\ decoding' = Append(SubSeq(decoding, 1, n - 2), After(decoding[n - 1], ok, value))
           /\ UNCHANGED <<out, result>>

-----------------------------------------------------------------------------
DecodeInit ==
  /\ outType \in Outs
  /\ byPointer \in BOOLEAN
  /\ out = Zero(outType)
  /\ before = out
  /\ result = "none" /\ input = Null /\ decoding = << >>

\* i2s: without a pointer there is nothing to write to.
Decode ==
  /\ decoding = << >> /\ out \in Values(outType)
  /\ \E data \in Data :
       /\ decoding' = IF byPointer THEN <<Impl(data, outType, out)>> ELSE << >>
       /\ input' = data
  /\ result' = IF byPointer THEN "none" ELSE "error"
  /\ before' = out
  /\ UNCHANGED <<outType, byPointer, out>>

Running == decoding # << >> /\ UNCHANGED <<outType, byPointer, input, before>>

Error == Running /\ Fails(Decoder) /\ Returns(FALSE, Decoder.value)

SetScalar ==
  /\ Running /\ ~Fails(Decoder)
  /\ LET data == Decoder.data
     IN  /\ data.kind \notin {"map", "list"}
         /\ Returns(TRUE, Scalar(Decoder.type.kind,
                            IF data.kind = "float64" THEN Truncated(data.v) ELSE data.v))

Recurses(data, type, value) ==
  /\ decoding' = Append(decoding, Impl(data, type, value))
  /\ UNCHANGED <<out, result>>

\* m2s goes through the fields of the type; keys of data that name no field only
\* cause a warning.
NextField ==
  /\ Running /\ ~Fails(Decoder)
  /\ Decoder.data.kind = "map" /\ Decoder.at <= Len(Decoder.type.fields)
  /\ Recurses(Decoder.data.entries[Key(Decoder)], Decoder.type.fields[Decoder.at].type,
              Decoder.value.fields[Decoder.at])

\* s2s decodes each element into a fresh value.
NextElement ==
  /\ Running /\ ~Fails(Decoder)
  /\ Decoder.data.kind = "list" /\ Decoder.at <= Len(Decoder.data.elems)
  /\ Recurses(Decoder.data.elems[Decoder.at], Decoder.type.elem, Zero(Decoder.type.elem))

\* m2s or s2s has come to the end.
LoopEnds ==
  /\ Running /\ ~Fails(Decoder)
  /\ \/ Decoder.data.kind = "map" /\ Decoder.at > Len(Decoder.type.fields)
     \/ Decoder.data.kind = "list" /\ Decoder.at > Len(Decoder.data.elems)
  /\ Returns(TRUE, Decoder.value)

DecodeNext ==
  \/ Decode \/ Error \/ SetScalar \/ NextField \/ NextElement \/ LoopEnds

DecodeSpec == DecodeInit /\ [][DecodeNext]_decodeVars

-----------------------------------------------------------------------------
(* Reference: which data is of a type, and what it adds to a value *)

HasField(data, type, i) == type.fields[i].name \in DOMAIN data.entries
FieldData(data, type, i) == data.entries[type.fields[i].name]
FieldFits(F(_, _), data, type, i) ==
  HasField(data, type, i) /\ F(FieldData(data, type, i), type.fields[i].type)

\* Data is of a type: it has every field the type has, each of its type.
FitsBy(F(_, _), data, type) ==
  CASE type.kind = "struct" ->
         data.kind = "map" /\ \A i \in DOMAIN type.fields : FieldFits(F, data, type, i)
    [] type.kind = "slice" ->
         data.kind = "list" /\ \A i \in DOMAIN data.elems : F(data.elems[i], type.elem)
    [] type.kind = "int" -> data.kind \in {"int", "float64"}
    [] OTHER -> data.kind = type.kind /\ type.kind \in ScalarKinds

ASSUME FitsAssumption ==
  \A data \in Data, type \in Types : Fits(data, type) <=> FitsBy(Fits, data, type)

\* The whole number next to h halves, on the side of zero.
TruncatesTo(h, n) == IF h >= 0 THEN 2 * n <= h /\ h < 2 * n + 2 ELSE 2 * n >= h /\ h > 2 * n - 2

\* What a value becomes: scalars are replaced, slices grow at their end.
MergedBy(M(_, _, _), data, type, value) ==
  CASE type.kind = "struct" ->
         Struct([i \in DOMAIN type.fields |->
           M(FieldData(data, type, i), type.fields[i].type, value.fields[i])])
    [] type.kind = "slice" ->
         Slice(value.elems \o [i \in DOMAIN data.elems |->
                                 M(data.elems[i], type.elem, Zero(type.elem))])
    [] data.kind = "float64" ->
         Scalar("int", CHOOSE n \in -data.v..data.v \cup data.v..-data.v : TruncatesTo(data.v, n))
    [] OTHER -> Scalar(type.kind, data.v)

ASSUME MergedAssumption ==
  \A data \in Data, type \in Types : Fits(data, type) =>
    \A value \in Values(type) : Merged(data, type, value) = MergedBy(Merged, data, type, value)

\* The first of n places that is not good.
FirstBad(n, good) == CHOOSE i \in 1..n : i \notin good /\ 1..i - 1 \subseteq good

\* What a value becomes of data that does not fit: the fields before the first bad
\* one are merged, the bad one in part, and so are the elements before the first
\* bad one of a slice; nothing after them is touched.
PartlyMergedBy(P(_, _, _), data, type, value) ==
  CASE type.kind = "struct" /\ data.kind = "map" ->
         LET bad == FirstBad(Len(type.fields),
                             {i \in DOMAIN type.fields : FieldFits(Fits, data, type, i)})
             Part(i) == FieldData(data, type, i)
         IN  Struct([i \in DOMAIN type.fields |->
               CASE i < bad -> Merged(Part(i), type.fields[i].type, value.fields[i])
                 [] i = bad /\ HasField(data, type, i) ->
                      P(Part(i), type.fields[i].type, value.fields[i])
                 [] OTHER -> value.fields[i]])
    [] type.kind = "slice" /\ data.kind = "list" ->
         LET bad == FirstBad(Len(data.elems),
                             {i \in DOMAIN data.elems : Fits(data.elems[i], type.elem)})
         IN  Slice(value.elems \o [i \in 1..bad - 1 |->
                                     Merged(data.elems[i], type.elem, Zero(type.elem))])
    [] OTHER -> value

ASSUME PartlyMergedAssumption ==
  \A data \in Data, type \in Types : ~Fits(data, type) =>
    \A value \in Values(type) :
      PartlyMerged(data, type, value) = PartlyMergedBy(PartlyMerged, data, type, value)

-----------------------------------------------------------------------------
(* Properties *)

\* A call succeeds exactly on data of the variable's type, given by pointer, and
\* leaves in the variable what the data says, appended to the slices of the
\* calls before it.
DecodesWhatFits ==
  result # "none" =>
    /\ result = "ok" <=> byPointer /\ Fits(input, outType)
    /\ result = "ok" => out = Merged(input, outType, before)

\* A call that fails has written what stands before the first thing that does not
\* fit, at every depth, and nothing after it; a variable passed by value is left
\* as it was.
ErrorLeavesPrefix ==
  result = "error" =>
    out = IF byPointer THEN PartlyMerged(input, outType, before) ELSE before
=============================================================================
