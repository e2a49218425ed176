---------------------------- MODULE HandlersGen ----------------------------
(***************************************************************************)
(* hw5_codegen/handlers_gen/codegen.go: which declarations of a source     *)
(* file it generates code for, and what the generated code does.  A        *)
(* wrapper checks a request and calls its method; a validator takes the    *)
(* parameters of the request, fills in defaults and checks them against    *)
(* the apivalidator tags of the parameter struct.                          *)
(*                                                                         *)
(* A struct has a set of fields; a field's tag is a function from the keys *)
(* of its apivalidator tag to their values.  A text a request sends is     *)
(* known by its length and, if strconv.Atoi takes it, its number.          *)
(***************************************************************************)
EXTENDS Integers

CONSTANTS Length,   \* the length of each text
          Number,   \* the number of each text that is one
          Lower     \* strings.ToLower of a field's name

Blank == ""

ASSUME TextAssumption ==
  /\ Length \in [DOMAIN Length -> Nat] /\ Blank \in DOMAIN Length /\ Length[Blank] = 0
  /\ Number \in [DOMAIN Number -> Int]

-----------------------------------------------------------------------------
(* Declarations *)

\* ParseCodegenMethodParams: a wrapper is made for a method, not a function, that
\* has an apigen:api comment with a known HTTP method and takes two arguments.
Wrapped(funcs) ==
  {f \in funcs : /\ f.owner # Blank /\ f.api
                 /\ f.method \in {Blank, "GET", "POST"}
                 /\ f.arity = 2}

\* ParseCodegenValidateParams: one field of another type and the struct is skipped,
\* whether the field has a tag or not.
Validated(types) ==
  {t \in types : t.struct /\ \A f \in t.fields : f.type \in {"string", "int"}}

-----------------------------------------------------------------------------
(* The generated validator *)

\* Fields without an apivalidator tag are left out, and stay empty.
Fields(struct) == {f \in struct : f.tagged}

Has(f, key) == key \in DOMAIN f.tag

ParamName(f) == IF Has(f, "paramname") THEN f.tag["paramname"] ELSE Lower[f.name]

\* query.Get: an absent parameter is empty.
Raw(f, query) == IF ParamName(f) \in DOMAIN query THEN query[ParamName(f)] ELSE Blank

Filled(f, query) ==
  IF Raw(f, query) = Blank /\ Has(f, "default") /\ ~Has(f, "required")
  THEN f.tag["default"] ELSE Raw(f, query)

IsInt(f) == f.type = "int"
Size(f, query) == IF IsInt(f) THEN Number[Filled(f, query)] ELSE Length[Filled(f, query)]

OutOfBounds(f, query) ==
  \/ Has(f, "max") /\ Size(f, query) > f.tag["max"]
  \/ Has(f, "min") /\ Size(f, query) < f.tag["min"]

Missing(f, query) ==
  Has(f, "required") /\ (IF IsInt(f) THEN Size(f, query) = 0 ELSE Raw(f, query) = Blank)

\* The generated Validate returns an error at the first field that has one.
Invalid(struct, query) ==
  \E f \in Fields(struct) :
    \/ IsInt(f) /\ Filled(f, query) \notin DOMAIN Number
    \/ Missing(f, query)
    \/ Has(f, "enum") /\ Filled(f, query) \notin f.tag["enum"]
    \/ OutOfBounds(f, query)

\* The struct it fills; a field it leaves out keeps its zero value.
Release(struct, query) ==
  [n \in {f.name : f \in Fields(struct)} |->
     Filled(CHOOSE f \in Fields(struct) : f.name = n, query)]

-----------------------------------------------------------------------------
(* The generated wrapper *)

\* r.Form of a POST, where the body goes first, the URL's query otherwise.
Params(r) ==
  IF r.method = "POST"
  THEN [n \in DOMAIN r.query \cup DOMAIN r.body |-> IF n \in DOMAIN r.body THEN r.body[n] ELSE r.query[n]]
  ELSE r.query

\* The status a wrapper of method m answers a request with, 0 if it calls m.
Refused(m, r) ==
  IF m.auth /\ ~r.auth THEN 403
  ELSE IF m.method # Blank /\ r.method # m.method THEN 406
  ELSE IF Invalid(m.params, Params(r)) THEN 400
  ELSE 0

\* What the wrappers of an API do with a request.
Handled(status, m, params) == [status |-> status, method |-> m, params |-> params]

Generated(funcs, r) ==
  LET routed == {f \in Wrapped(funcs) : f.owner = r.api /\ f.url = r.url}
  IN  IF routed = {} THEN Handled(404, Blank, << >>)
      ELSE LET m == CHOOSE f \in routed : TRUE
           IN  IF Refused(m, r) # 0 THEN Handled(Refused(m, r), Blank, << >>)
               ELSE Handled(0, m.name, Release(m.params, Params(r)))
=============================================================================
