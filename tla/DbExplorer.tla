----------------------------- MODULE DbExplorer -----------------------------
(***************************************************************************)
(* hw6_db_explorer/db_explorer.go: an HTTP server that maps paths and      *)
(* methods to SQL statements on tables it knows only from the database.    *)
(* NewDbExplorer reads the schema once; a handler then routes a request,   *)
(* checks the body against that schema and runs one statement.  Handlers   *)
(* run concurrently; the database runs one statement at a time.            *)
(*                                                                         *)
(* A path is the table it names, what follows, and an id.  A JSON value is *)
(* a record of its kind, as reflect sees it, and its content, a number     *)
(* that stands for it.  The database (MySQL) stores what it is sent and is *)
(* not part of the sources.                                                *)
(***************************************************************************)
EXTENDS Integers, Sequences, SequencesExt, FiniteSets, FiniteSetsExt

CONSTANTS
  Schemas,   \* databases the server may be started on: table -> set of columns
  Clients,   \* requests in flight at a time
  Requests,  \* requests the clients make
  MaxId      \* bound on a table's auto_increment counter

\* MySQL has no type of the name float64, gives a table one auto_increment
\* column at most, and makes it an integer key that is not null.
ASSUME SchemasAssumption ==
  \A s \in Schemas : \A t \in DOMAIN s :
    /\ \A col, other \in s[t] : col.field = other.field => col = other
    /\ \A col \in s[t] : col.type # "float64"
    /\ \E key \in s[t] :
         /\ key.extra = "auto_increment" /\ key.type \in {"int(11)", "int"} /\ key.null = "NO"
         /\ \A col \in s[t] : col.extra = "auto_increment" => col = key

VARIABLES
  schema,    \* the database's tables and their columns
  phase,     \* "start", "failed" or "serving"
  explorer,  \* DBExplorer.Tables
  rows,      \* for each table, its records by id
  nextId,    \* for each table, its auto_increment counter
  stmt,      \* for each client, the statement its handler is about to run
  resp       \* for each client, the last response

vars == <<schema, phase, explorer, rows, nextId, stmt, resp>>

Tables == DOMAIN schema
Nil == [kind |-> "nil", v |-> 0]
Zero == [kind |-> "int", v |-> 0]
Empty == [kind |-> "string", v |-> 0]

Idle == [op |-> "none"]
Answer(status, body) == [status |-> status, body |-> body]
NoAnswer == Answer(0, {})

Init ==
  /\ schema \in Schemas
  /\ phase = "start"
  /\ explorer = << >>
  /\ rows = [t \in Tables |-> << >>]
  /\ nextId = [t \in Tables |-> 1]
  /\ stmt = [c \in Clients |-> Idle]
  /\ resp = [c \in Clients |-> NoAnswer]

-----------------------------------------------------------------------------
(* NewDbExplorer *)

Supported(col) ==
  /\ col.type \in {"int(11)", "int", "float64", "varchar(255)", "text"}
  /\ col.null \in {"YES", "NO"}

KindOf(type) ==
  CASE type \in {"int(11)", "int"}       -> "int"
    [] type = "float64"                  -> "float64"
    [] type \in {"varchar(255)", "text"} -> "string"

Field(col) == [primary  |-> col.extra = "auto_increment",
               nullable |-> col.null = "YES",
               kind     |-> KindOf(col.type)]

Fields(cols) ==
  [f \in {col.field : col \in cols} |-> Field(CHOOSE col \in cols : col.field = f)]

\* One column of an unknown type and there is no explorer at all.
NewDbExplorer ==
  /\ phase = "start"
  /\ IF \A t \in Tables : \A col \in schema[t] : Supported(col)
     THEN /\ phase' = "serving"
          /\ explorer' = [t \in Tables |-> Fields(schema[t])]
     ELSE phase' = "failed" /\ UNCHANGED explorer
  /\ UNCHANGED <<schema, rows, nextId, stmt, resp>>

Primary(t) == CHOOSE f \in DOMAIN explorer[t] : explorer[t][f].primary

-----------------------------------------------------------------------------
(* Validation of a body against the schema *)

\* Faulty: a null is let through.
BadValueNotNull(field, v) == field.primary \/ (v # Nil /\ field.kind # v.kind)

BadValue(field, v) ==
  \/ field.primary
  \/ v = Nil /\ ~field.nullable
  \/ v # Nil /\ field.kind # v.kind

Given(t, data) == DOMAIN explorer[t] \cap DOMAIN data

\* PUT passes over a primary key that is given, POST refuses it.
PutRefused(t, data) ==
  \E f \in Given(t, data) : ~explorer[t][f].primary /\ BadValue(explorer[t][f], data[f])

PostRefused(t, data) == \E f \in Given(t, data) : BadValue(explorer[t][f], data[f])

Default(field) ==
  IF field.nullable THEN Nil
  ELSE IF field.kind \in {"int", "float64"} THEN Zero
  ELSE Empty

\* Faulty: a primary key that is given is inserted.
PutValuesOwnId(t, data) ==
  [f \in DOMAIN explorer[t] |-> IF f \in DOMAIN data THEN data[f] ELSE Default(explorer[t][f])]

\* A primary key that is not given is sent as 0, one that is given not at all.
PutValues(t, data) ==
  [f \in {g \in DOMAIN explorer[t] : explorer[t][g].primary => g \notin DOMAIN data} |->
     IF f \in DOMAIN data THEN data[f] ELSE Default(explorer[t][f])]

PostValues(t, data) == [f \in Given(t, data) |-> data[f]]

-----------------------------------------------------------------------------
(* Handlers, up to their statement *)

Refuse(c, status) == resp' = [resp EXCEPT ![c] = Answer(status, {})] /\ UNCHANGED stmt
Send(c, s) == stmt' = [stmt EXCEPT ![c] = s] /\ UNCHANGED resp

Serving(c) == phase = "serving" /\ stmt[c] = Idle
Unchanged == UNCHANGED <<schema, phase, explorer, rows, nextId>>

\* Everything that is not under a table is the pattern "/".
TablesList(c, r) ==
  /\ Serving(c)
  /\ r.table \notin DOMAIN explorer
  /\ IF r.table # "/" THEN Refuse(c, 404)
     ELSE IF r.method # "GET" THEN Refuse(c, 400)
     ELSE Send(c, [op |-> "tables"])
  /\ Unchanged

ByTable(c, r) ==
  /\ Serving(c)
  /\ r.table \in DOMAIN explorer /\ r.tail = "none"
  /\ IF r.method # "GET" THEN Refuse(c, 400)
     ELSE Send(c, [op     |-> "page", table |-> r.table,
                   limit  |-> IF r.limit < 0 THEN 5 ELSE r.limit,
                   offset |-> IF r.offset < 0 THEN 0 ELSE r.offset])
  /\ Unchanged

ItemPut(c, r) ==
  IF r.body = "bad" \/ PutRefused(r.table, r.data) THEN Refuse(c, 400)
  ELSE Send(c, [op |-> "insert", table |-> r.table, values |-> PutValues(r.table, r.data)])

ItemPost(c, r) ==
  IF r.body = "bad" \/ PostRefused(r.table, r.data) THEN Refuse(c, 400)
  ELSE Send(c, [op |-> "update", table |-> r.table, id |-> r.id,
                values |-> PostValues(r.table, r.data)])

ByIndex(c, r) ==
  /\ Serving(c)
  /\ r.table \in DOMAIN explorer /\ r.tail # "none"
  /\ CASE r.tail = "slash" /\ r.method = "PUT" -> ItemPut(c, r)
       [] r.tail = "id" /\ r.method = "GET"    -> Send(c, [op |-> "get", table |-> r.table, id |-> r.id])
       [] r.tail = "id" /\ r.method = "POST"   -> ItemPost(c, r)
       [] r.tail = "id" /\ r.method = "DELETE" -> Send(c, [op |-> "delete", table |-> r.table, id |-> r.id])
       [] OTHER -> Refuse(c, 400)
  /\ Unchanged

-----------------------------------------------------------------------------
(* Statements and what the handlers make of their results *)

Ids(t) == DOMAIN rows[t]
With(f, id, row) == [i \in DOMAIN f \cup {id} |-> IF i = id THEN row ELSE f[i]]

Done(c, answer) ==
  /\ resp' = [resp EXCEPT ![c] = answer]
  /\ stmt' = [stmt EXCEPT ![c] = Idle]
  /\ UNCHANGED <<schema, phase, explorer>>

\* The records in the order of their ids, from offset on, at most limit of them.
Page(t, offset, limit) ==
  {id \in Ids(t) : Cardinality({i \in Ids(t) : i < id}) \in offset..offset + limit - 1}

RunRead(c) ==
  /\ LET s == stmt[c]
     IN  \/ s.op = "tables" /\ Done(c, [status |-> 200, tables |-> Tables])
         \/ s.op = "page" /\ Done(c, Answer(200, Page(s.table, s.offset, s.limit)))
         \/ s.op = "get" /\ Done(c, IF s.id \in Ids(s.table) THEN Answer(200, {s.id})
                                    ELSE Answer(404, {}))
  /\ UNCHANGED <<rows, nextId>>

\* A key of 0, or none, takes the auto_increment counter; another one is taken
\* as it is unless a record has it.
RunInsert(c) ==
  /\ stmt[c].op = "insert"
  /\ LET t    == stmt[c].table
         p    == Primary(t)
         vals == stmt[c].values
         own  == p \in DOMAIN vals /\ vals[p] # Zero
         id   == IF own THEN vals[p].v ELSE nextId[t]
         row  == [f \in DOMAIN explorer[t] |-> IF f = p THEN [kind |-> "int", v |-> id] ELSE vals[f]]
     IN  IF own /\ id \in Ids(t)
         THEN Done(c, Answer(500, {})) /\ UNCHANGED <<rows, nextId>>
         ELSE /\ id < MaxId
              /\ rows' = [rows EXCEPT ![t] = With(@, id, row)]
              /\ nextId' = [nextId EXCEPT ![t] = IF id >= @ THEN id + 1 ELSE @]
              /\ Done(c, Answer(200, {id}))

\* Faulty: the statement has no WHERE.
UpdatedEvery(t, id, vals) == [i \in Ids(t) |-> [f \in DOMAIN rows[t][i] |->
  IF f \in DOMAIN vals THEN vals[f] ELSE rows[t][i][f]]]

Updated(t, id, vals) == [i \in Ids(t) |-> [f \in DOMAIN rows[t][i] |->
  IF i = id /\ f \in DOMAIN vals THEN vals[f] ELSE rows[t][i][f]]]

\* Without a field to set the statement is not SQL.  The answer holds the
\* record that really changed, if any.
RunUpdate(c) ==
  /\ stmt[c].op = "update"
  /\ LET t   == stmt[c].table
         new == Updated(t, stmt[c].id, stmt[c].values)
     IN  IF DOMAIN stmt[c].values = {}
         THEN Done(c, Answer(500, {})) /\ UNCHANGED rows
         ELSE /\ rows' = [rows EXCEPT ![t] = new]
              /\ Done(c, Answer(200, {i \in Ids(t) : new[i] # rows[t][i]}))
  /\ UNCHANGED nextId

RunDelete(c) ==
  /\ stmt[c].op = "delete"
  /\ LET t == stmt[c].table
     IN  /\ rows' = [rows EXCEPT ![t] = [i \in Ids(t) \ {stmt[c].id} |-> @[i]]]
         /\ Done(c, Answer(200, Ids(t) \cap {stmt[c].id}))
  /\ UNCHANGED nextId

\* The database cannot run the statement.
DbFails(c) ==
  /\ stmt[c] # Idle
  /\ Done(c, Answer(500, {}))
  /\ UNCHANGED <<rows, nextId>>

-----------------------------------------------------------------------------
Next ==
  \/ NewDbExplorer
  \/ \E c \in Clients :
       \/ \E r \in Requests : TablesList(c, r) \/ ByTable(c, r) \/ ByIndex(c, r)
       \/ RunRead(c) \/ RunInsert(c) \/ RunUpdate(c) \/ RunDelete(c) \/ DbFails(c)

Spec == Init /\ [][Next]_vars

-----------------------------------------------------------------------------
(* Properties *)

Fits(field, v) == IF v = Nil THEN field.nullable ELSE v.kind = field.kind

\* Whatever bodies are sent, a record has every column of its table, each with
\* a value of the column's type, null only where the column may be null, and is
\* found under its own primary key.
RowsWellTyped ==
  \A t \in DOMAIN explorer : \A id \in Ids(t) :
    /\ DOMAIN rows[t][id] = DOMAIN explorer[t]
    /\ rows[t][id][Primary(t)].v = id
    /\ \A f \in DOMAIN explorer[t] : Fits(explorer[t][f], rows[t][id][f])

\* A record appears only under an id the table has not used before: no request
\* brings back the id of a deleted record, and so none changes whose it was.
IdsNeverReused ==
  [][\A t \in DOMAIN explorer : \A id \in Ids(t)' \ Ids(t) : id >= nextId[t]]_vars

\* A record changes, or goes, only by a request that named it and is answered
\* with success, and a change touches only fields the request gave.
OnlyNamedRecordChanges ==
  [][\A t \in DOMAIN explorer : \A id \in Ids(t) :
       LET gone    == id \notin Ids(t)'
           changed == {f \in DOMAIN rows[t][id] : rows'[t][id][f] # rows[t][id][f]}
       IN  gone \/ changed # {} =>
             \E c \in Clients :
               /\ stmt[c].op = IF gone THEN "delete" ELSE "update"
               /\ stmt[c].table = t /\ stmt[c].id = id
               /\ gone \/ changed \subseteq DOMAIN stmt[c].values
               /\ stmt'[c] = Idle /\ resp'[c] = Answer(200, {id})]_vars
=============================================================================
