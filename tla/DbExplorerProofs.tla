-------------------------- MODULE DbExplorerProofs --------------------------
(***************************************************************************)
(* Theorems about the database explorer of hw6_db_explorer, for any        *)
(* schema, any requests and any number of clients.  What keeps the rows    *)
(* well typed while handlers race is that a statement, once checked, stays *)
(* right: the explorer's picture of the schema does not change under it.   *)
(***************************************************************************)
EXTENDS DbExplorer, TLAPS

-----------------------------------------------------------------------------
(* The explorer's picture of a table *)

TableOk(fields) ==
  /\ \E p \in DOMAIN fields :
       /\ fields[p].primary /\ fields[p].kind = "int" /\ ~fields[p].nullable
       /\ \A f \in DOMAIN fields : fields[f].primary => f = p
  /\ \A f \in DOMAIN fields : fields[f].kind \in {"int", "string"}

\* NewDbExplorer makes such a picture of every table whose columns it knows.
LEMMA FieldsOk ==
  ASSUME NEW s \in Schemas, NEW t \in DOMAIN s, \A col \in s[t] : Supported(col)
  PROVE  TableOk(Fields(s[t]))
<1> DEFINE cols == s[t]
           fields == Fields(cols)
<1>1. DOMAIN fields = {col.field : col \in cols}
  BY DEF Fields
<1>2. \A col \in cols : fields[col.field] = Field(col)
  <2> SUFFICES ASSUME NEW col \in cols PROVE fields[col.field] = Field(col)
    OBVIOUS
  <2>1. (CHOOSE c \in cols : c.field = col.field) = col
    BY SchemasAssumption
  <2> QED BY <2>1 DEF Fields
<1>3. \A col \in cols : /\ Field(col).primary <=> col.extra = "auto_increment"
                        /\ Field(col).nullable <=> col.null = "YES"
                        /\ Field(col).kind = KindOf(col.type)
  BY DEF Field
<1>4. \A col \in cols : KindOf(col.type) \in {"int", "string"}
  BY SchemasAssumption DEF Supported, KindOf
<1>5. PICK key \in cols :
        /\ key.extra = "auto_increment" /\ key.type \in {"int(11)", "int"} /\ key.null = "NO"
        /\ \A col \in cols : col.extra = "auto_increment" => col = key
  BY SchemasAssumption
<1>6. KindOf(key.type) = "int"
  BY <1>5 DEF KindOf
<1> HIDE DEF cols, fields
<1>7. \A f \in DOMAIN fields : fields[f].kind \in {"int", "string"}
  BY <1>1, <1>2, <1>3, <1>4
<1>8. /\ key.field \in DOMAIN fields /\ fields[key.field].primary
      /\ fields[key.field].kind = "int" /\ ~fields[key.field].nullable
  BY <1>1, <1>2, <1>3, <1>5, <1>6
<1>9. \A f \in DOMAIN fields : fields[f].primary => f = key.field
  BY <1>1, <1>2, <1>3, <1>5
<1>10. TableOk(fields)
  BY <1>7, <1>8, <1>9 DEF TableOk
<1> QED BY <1>10 DEF cols, fields

\* Primary finds the key of such a table.
LEMMA PrimaryIsKey ==
  ASSUME NEW t, TableOk(explorer[t])
  PROVE  /\ Primary(t) \in DOMAIN explorer[t]
         /\ explorer[t][Primary(t)].primary
         /\ explorer[t][Primary(t)].kind = "int" /\ ~explorer[t][Primary(t)].nullable
         /\ \A f \in DOMAIN explorer[t] : explorer[t][f].primary => f = Primary(t)
<1>1. PICK p \in DOMAIN explorer[t] :
        /\ explorer[t][p].primary /\ explorer[t][p].kind = "int" /\ ~explorer[t][p].nullable
        /\ \A f \in DOMAIN explorer[t] : explorer[t][f].primary => f = p
  BY DEF TableOk
<1>2. Primary(t) \in DOMAIN explorer[t] /\ explorer[t][Primary(t)].primary
  BY <1>1 DEF Primary
<1>3. Primary(t) = p
  BY <1>1, <1>2
<1> QED BY <1>1, <1>3

-----------------------------------------------------------------------------
(* What a checked body becomes *)

\* A row to insert: every column but the key has a value that fits, and the key,
\* if it is sent, is 0.
InsertOk(t, vals) ==
  /\ \A f \in DOMAIN explorer[t] \ {Primary(t)} :
       f \in DOMAIN vals /\ Fits(explorer[t][f], vals[f])
  /\ Primary(t) \in DOMAIN vals => vals[Primary(t)] = Zero

UpdateOk(t, vals) ==
  \A f \in DOMAIN vals :
    f \in DOMAIN explorer[t] /\ f # Primary(t) /\ Fits(explorer[t][f], vals[f])

LEMMA GoodValueFits ==
  ASSUME NEW field, NEW v, ~BadValue(field, v)
  PROVE  Fits(field, v)
BY DEF BadValue, Fits

LEMMA DefaultFits ==
  ASSUME NEW field, field.kind \in {"int", "string"}
  PROVE  Fits(field, Default(field))
<1>1. CASE field.nullable
  BY <1>1 DEF Default, Fits
<1>2. CASE ~field.nullable /\ field.kind = "int"
  <2>1. Default(field) = Zero
    BY <1>2 DEF Default
  <2> QED BY <1>2, <2>1 DEF Fits, Zero, Nil
<1>3. CASE ~field.nullable /\ field.kind = "string"
  <2>1. Default(field) = Empty
    BY <1>3 DEF Default
  <2> QED BY <1>3, <2>1 DEF Fits, Empty, Nil
<1> QED BY <1>1, <1>2, <1>3

LEMMA PutOk ==
  ASSUME NEW t, TableOk(explorer[t]), NEW data, ~PutRefused(t, data)
  PROVE  InsertOk(t, PutValues(t, data))
<1> DEFINE p == Primary(t)
           vals == PutValues(t, data)
<1>1. /\ p \in DOMAIN explorer[t] /\ explorer[t][p].primary /\ explorer[t][p].kind = "int"
      /\ ~explorer[t][p].nullable
      /\ \A f \in DOMAIN explorer[t] : explorer[t][f].primary => f = p
  BY PrimaryIsKey
<1> HIDE DEF p
<1>2. ASSUME NEW f \in DOMAIN explorer[t], f # p
      PROVE  f \in DOMAIN vals /\ Fits(explorer[t][f], vals[f])
  <2>1. ~explorer[t][f].primary
    BY <1>1, <1>2
  <2>2. /\ f \in DOMAIN vals
        /\ vals[f] = IF f \in DOMAIN data THEN data[f] ELSE Default(explorer[t][f])
    BY <1>2, <2>1 DEF PutValues
  <2>3. CASE f \in DOMAIN data
    <3>1. ~BadValue(explorer[t][f], data[f])
      BY <2>1, <2>3 DEF PutRefused, Given
    <3> QED BY <2>2, <2>3, <3>1, GoodValueFits
  <2>4. CASE f \notin DOMAIN data
    <3>1. explorer[t][f].kind \in {"int", "string"}
      BY DEF TableOk
    <3> QED BY <2>2, <2>4, <3>1, DefaultFits
  <2> QED BY <2>3, <2>4
<1>3. ASSUME p \in DOMAIN vals
      PROVE  vals[p] = Zero
  <2>1. p \notin DOMAIN data /\ vals[p] = Default(explorer[t][p])
    BY <1>1, <1>3 DEF PutValues
  <2> QED BY <1>1, <2>1 DEF Default
<1> QED BY <1>2, <1>3 DEF InsertOk, p

LEMMA PostOk ==
  ASSUME NEW t, TableOk(explorer[t]), NEW data, ~PostRefused(t, data)
  PROVE  UpdateOk(t, PostValues(t, data))
<1> SUFFICES ASSUME NEW f \in DOMAIN PostValues(t, data)
             PROVE  /\ f \in DOMAIN explorer[t] /\ f # Primary(t)
                    /\ Fits(explorer[t][f], PostValues(t, data)[f])
  BY DEF UpdateOk
<1>1. f \in DOMAIN explorer[t] /\ f \in Given(t, data) /\ PostValues(t, data)[f] = data[f]
  BY DEF PostValues, Given
<1>2. ~BadValue(explorer[t][f], data[f])
  BY <1>1 DEF PostRefused
<1>3. ~explorer[t][f].primary
  BY <1>2 DEF BadValue
<1> QED BY <1>1, <1>2, <1>3, PrimaryIsKey, GoodValueFits
-----------------------------------------------------------------------------
(* The inductive invariant *)

TypeInv ==
  /\ schema \in Schemas
  /\ DOMAIN rows = Tables /\ nextId \in [Tables -> Nat]
  /\ DOMAIN stmt = Clients /\ DOMAIN resp = Clients

\* Until the explorer has read the schema nobody does anything; after that its
\* picture is of tables that are there.
ExplorerInv ==
  /\ phase = "start" => /\ \A c \in Clients : stmt[c] = Idle
                        /\ \A t \in Tables : Ids(t) = {}
  /\ \A t \in DOMAIN explorer : t \in Tables /\ TableOk(explorer[t])

StmtOk(s) ==
  /\ s.op \in {"none", "tables", "page", "get", "insert", "update", "delete"}
  /\ s.op \in {"page", "get", "insert", "update", "delete"} => s.table \in DOMAIN explorer
  /\ s.op = "insert" => InsertOk(s.table, s.values)
  /\ s.op = "update" => UpdateOk(s.table, s.values)

StmtInv == \A c \in Clients : StmtOk(stmt[c])

RowOk(t, id, row) ==
  /\ row = [f \in DOMAIN explorer[t] |-> row[f]]
  /\ row[Primary(t)].v = id
  /\ \A f \in DOMAIN explorer[t] : Fits(explorer[t][f], row[f])

RowsInv ==
  \A t \in DOMAIN explorer : \A id \in Ids(t) :
    id \in Nat /\ id < nextId[t] /\ RowOk(t, id, rows[t][id])

IInv == TypeInv /\ ExplorerInv /\ StmtInv /\ RowsInv

LEMMA InitEstablishesIInv == Init => IInv
<1> SUFFICES ASSUME Init PROVE IInv
  OBVIOUS
<1>1. TypeInv
  BY DEF Init, TypeInv, Tables
<1>2. ExplorerInv /\ RowsInv
  <2>1. DOMAIN explorer = {} /\ \A t \in Tables : Ids(t) = {}
    BY DEF Init, Ids, Tables
  <2> QED BY <2>1 DEF Init, ExplorerInv, RowsInv
<1>3. StmtInv
  BY DEF Init, StmtInv, StmtOk, Idle
<1> QED BY <1>1, <1>2, <1>3 DEF IInv

\* The picture is never changed once a handler runs, so rows that were right
\* stay right until one of them changes.
LEMMA SameRows ==
  ASSUME RowsInv, UNCHANGED <<explorer, rows, nextId>>
  PROVE  RowsInv'
<1>1. \A t : Primary(t)' = Primary(t)
  BY DEF Primary
<1> QED BY <1>1 DEF RowsInv, RowOk, Ids, Fits

-----------------------------------------------------------------------------
(* The steps *)

LEMMA NewDbExplorerPreservesIInv ==
  ASSUME IInv, NewDbExplorer
  PROVE  IInv'
<1>1. /\ TypeInv /\ phase = "start" /\ phase' # "start"
      /\ UNCHANGED <<schema, rows, nextId, stmt, resp>>
      /\ \A c \in Clients : stmt[c] = Idle
      /\ \A t \in Tables : Ids(t) = {}
  BY DEF IInv, ExplorerInv, NewDbExplorer
<1>2. TypeInv' /\ Tables' = Tables /\ \A t : Ids(t)' = Ids(t)
  BY <1>1 DEF TypeInv, Tables, Ids
<1>3. \A t \in DOMAIN explorer' : t \in Tables /\ TableOk(explorer'[t])
  <2>1. CASE UNCHANGED explorer
    BY <2>1 DEF IInv, ExplorerInv
  <2>2. CASE /\ \A t \in Tables : \A col \in schema[t] : Supported(col)
             /\ explorer' = [t \in Tables |-> Fields(schema[t])]
    <3>1. \A t \in Tables : TableOk(Fields(schema[t]))
      BY <1>1, <2>2, FieldsOk DEF TypeInv, Tables
    <3> QED BY <2>2, <3>1
  <2> QED BY <2>1, <2>2 DEF NewDbExplorer
<1>4. ExplorerInv'
  BY <1>1, <1>2, <1>3 DEF ExplorerInv, TableOk
<1>5. StmtInv'
  BY <1>1 DEF StmtInv, StmtOk, Idle
<1>6. RowsInv'
  BY <1>1, <1>2, <1>3 DEF RowsInv
<1> QED BY <1>2, <1>4, <1>5, <1>6 DEF IInv

\* A handler that has come to its statement.
LEMMA HandlerPreservesIInv ==
  ASSUME IInv, NEW c \in Clients, phase = "serving", Unchanged,
         \/ UNCHANGED stmt /\ DOMAIN resp' = DOMAIN resp
         \/ \E s : Send(c, s) /\ StmtOk(s)
  PROVE  IInv'
<1>1. UNCHANGED <<schema, phase, explorer, rows, nextId>>
  BY DEF Unchanged
<1>2. /\ DOMAIN stmt' = Clients /\ DOMAIN resp' = Clients
      /\ \A d \in Clients : StmtOk(stmt'[d])
  BY DEF IInv, TypeInv, StmtInv, Send
<1>3. StmtInv'
  <2>1. \A t : Primary(t)' = Primary(t)
    BY <1>1 DEF Primary
  <2> QED BY <1>1, <1>2, <2>1 DEF StmtInv, StmtOk, InsertOk, UpdateOk, Fits
<1>4. TypeInv' /\ ExplorerInv'
  BY <1>1, <1>2 DEF IInv, TypeInv, ExplorerInv, Tables, Ids, TableOk
<1>5. RowsInv'
  BY <1>1, SameRows DEF IInv
<1> QED BY <1>3, <1>4, <1>5 DEF IInv

LEMMA TablesListPreservesIInv ==
  ASSUME IInv, NEW c \in Clients, NEW r \in Requests, TablesList(c, r)
  PROVE  IInv'
<1>1. phase = "serving" /\ Unchanged
  BY DEF TablesList, Serving
<1>2. CASE Refuse(c, 404) \/ Refuse(c, 400)
  BY <1>1, <1>2, HandlerPreservesIInv DEF Refuse
<1>3. CASE Send(c, [op |-> "tables"])
  <2>1. StmtOk([op |-> "tables"])
    BY DEF StmtOk
  <2> QED BY <1>1, <1>3, <2>1, HandlerPreservesIInv
<1> QED BY <1>2, <1>3 DEF TablesList

LEMMA ByTablePreservesIInv ==
  ASSUME IInv, NEW c \in Clients, NEW r \in Requests, ByTable(c, r)
  PROVE  IInv'
<1>1. phase = "serving" /\ Unchanged /\ r.table \in DOMAIN explorer
  BY DEF ByTable, Serving
<1>2. CASE Refuse(c, 400)
  BY <1>1, <1>2, HandlerPreservesIInv DEF Refuse
<1>3. CASE \E limit, offset : Send(c, [op |-> "page", table |-> r.table,
                                       limit |-> limit, offset |-> offset])
  <2>1. \A limit, offset : StmtOk([op |-> "page", table |-> r.table,
                                   limit |-> limit, offset |-> offset])
    BY <1>1 DEF StmtOk
  <2> QED BY <1>1, <1>3, <2>1, HandlerPreservesIInv
<1> QED BY <1>2, <1>3 DEF ByTable

LEMMA ByIndexPreservesIInv ==
  ASSUME IInv, NEW c \in Clients, NEW r \in Requests, ByIndex(c, r)
  PROVE  IInv'
<1> DEFINE t == r.table
<1>1. phase = "serving" /\ Unchanged /\ t \in DOMAIN explorer /\ TableOk(explorer[t])
  BY DEF ByIndex, Serving, IInv, ExplorerInv
<1>2. CASE Refuse(c, 400)
  BY <1>1, <1>2, HandlerPreservesIInv DEF Refuse
<1>3. CASE \E op \in {"get", "delete"} : Send(c, [op |-> op, table |-> t, id |-> r.id])
  <2>1. \A op \in {"get", "delete"} : StmtOk([op |-> op, table |-> t, id |-> r.id])
    BY <1>1 DEF StmtOk
  <2> QED BY <1>1, <1>3, <2>1, HandlerPreservesIInv
<1>4. CASE /\ ~PutRefused(t, r.data)
           /\ Send(c, [op |-> "insert", table |-> t, values |-> PutValues(t, r.data)])
  <2>1. InsertOk(t, PutValues(t, r.data))
    BY <1>1, <1>4, PutOk
  <2>2. StmtOk([op |-> "insert", table |-> t, values |-> PutValues(t, r.data)])
    BY <1>1, <2>1 DEF StmtOk
  <2> QED BY <1>1, <1>4, <2>2, HandlerPreservesIInv
<1>5. CASE /\ ~PostRefused(t, r.data)
           /\ Send(c, [op |-> "update", table |-> t, id |-> r.id, values |-> PostValues(t, r.data)])
  <2>1. UpdateOk(t, PostValues(t, r.data))
    BY <1>1, <1>5, PostOk
  <2>2. StmtOk([op |-> "update", table |-> t, id |-> r.id, values |-> PostValues(t, r.data)])
    BY <1>1, <2>1 DEF StmtOk
  <2> QED BY <1>1, <1>5, <2>2, HandlerPreservesIInv
<1>6. CASE ItemPut(c, r)
  BY <1>2, <1>4, <1>6 DEF ItemPut
<1>7. CASE ItemPost(c, r)
  BY <1>2, <1>5, <1>7 DEF ItemPost
<1> QED BY <1>2, <1>3, <1>6, <1>7 DEF ByIndex

\* A handler that has run its statement and answers.
LEMMA DonePreservesIInv ==
  ASSUME IInv, NEW c \in Clients, NEW answer, Done(c, answer), phase # "start",
         DOMAIN rows' = DOMAIN rows, nextId' \in [Tables -> Nat], RowsInv'
  PROVE  IInv'
<1>1. /\ UNCHANGED <<schema, phase, explorer>>
      /\ stmt' = [stmt EXCEPT ![c] = Idle] /\ resp' = [resp EXCEPT ![c] = answer]
  BY DEF Done
<1>2. TypeInv' /\ ExplorerInv'
  BY <1>1 DEF IInv, TypeInv, ExplorerInv, Tables, TableOk
<1>3. \A d \in Clients : StmtOk(stmt'[d])
  <2>1. StmtOk(Idle)
    BY DEF StmtOk, Idle
  <2> QED BY <1>1, <2>1 DEF IInv, TypeInv, StmtInv
<1>4. StmtInv'
  <2>1. \A t : Primary(t)' = Primary(t)
    BY <1>1 DEF Primary
  <2> QED BY <1>1, <1>3, <2>1 DEF StmtInv, StmtOk, InsertOk, UpdateOk, Fits
<1> QED BY <1>2, <1>4 DEF IInv

\* What is known of the table a statement is on.
LEMMA StatementFacts ==
  ASSUME IInv, NEW c \in Clients, stmt[c].op # "none"
  PROVE  /\ phase # "start" /\ stmt[c] # Idle /\ StmtOk(stmt[c])
         /\ stmt[c].op \in {"page", "get", "insert", "update", "delete"} =>
              /\ stmt[c].table \in DOMAIN explorer /\ stmt[c].table \in Tables
              /\ stmt[c].table \in DOMAIN rows /\ nextId[stmt[c].table] \in Nat
              /\ TableOk(explorer[stmt[c].table])
<1>1. stmt[c] # Idle
  BY DEF Idle
<1> QED BY <1>1 DEF IInv, TypeInv, ExplorerInv, StmtInv, StmtOk

\* One table gets new rows, each of which is right.
LEMMA NewRowsAreRight ==
  ASSUME IInv, UNCHANGED explorer, NEW t \in DOMAIN explorer, t \in DOMAIN rows, NEW new,
         rows' = [rows EXCEPT ![t] = new],
         \A u \in DOMAIN explorer : u # t => nextId'[u] = nextId[u],
         \A id \in DOMAIN new : id \in Nat /\ id < nextId'[t] /\ RowOk(t, id, new[id])
  PROVE  RowsInv' /\ DOMAIN rows' = DOMAIN rows
<1>1. \A u : Primary(u)' = Primary(u)
  BY DEF Primary
<1>2. ASSUME NEW u \in DOMAIN explorer, NEW id \in DOMAIN rows'[u]
      PROVE  id \in Nat /\ id < nextId'[u] /\ RowOk(u, id, rows'[u][id])
  <2>1. CASE u = t
    BY <1>2, <2>1
  <2>2. CASE u # t
    <3>1. rows'[u] = rows[u]
      BY <2>2
    <3> QED BY <1>2, <2>2, <3>1 DEF IInv, RowsInv, Ids
  <2> QED BY <2>1, <2>2
<1> QED BY <1>1, <1>2 DEF RowsInv, RowOk, Ids, Fits

LEMMA RunReadPreservesIInv ==
  ASSUME IInv, NEW c \in Clients, RunRead(c)
  PROVE  IInv'
<1>1. stmt[c].op # "none" /\ UNCHANGED <<rows, nextId>> /\ \E answer : Done(c, answer)
  BY DEF RunRead
<1>2. phase # "start" /\ nextId' \in [Tables -> Nat] /\ UNCHANGED <<rows, nextId, explorer>>
  BY <1>1, StatementFacts DEF IInv, TypeInv, Done
<1>3. RowsInv'
  BY <1>2, SameRows DEF IInv
<1> QED BY <1>1, <1>2, <1>3, DonePreservesIInv

\* The key of an insert is the counter's: bodies never decide it.
LEMMA InsertTakesCounter ==
  ASSUME IInv, NEW c \in Clients, RunInsert(c)
  PROVE  LET t   == stmt[c].table
             p   == Primary(t)
             id  == nextId[t]
             row == [f \in DOMAIN explorer[t] |->
                       IF f = p THEN [kind |-> "int", v |-> id] ELSE stmt[c].values[f]]
         IN  /\ t \in DOMAIN explorer /\ id \in Nat
             /\ rows' = [rows EXCEPT ![t] = With(rows[t], id, row)]
             /\ nextId' = [nextId EXCEPT ![t] = id + 1]
             /\ Done(c, Answer(200, {id}))
<1> DEFINE t == stmt[c].table
           p == Primary(t)
           vals == stmt[c].values
<1>1. stmt[c].op = "insert"
  BY DEF RunInsert
<1>2. t \in DOMAIN explorer /\ nextId[t] \in Nat /\ InsertOk(t, vals)
  BY <1>1, StatementFacts DEF StmtOk
<1>3. (p \in DOMAIN vals /\ vals[p] # Zero) = FALSE
  BY <1>2 DEF InsertOk
<1>4. nextId[t] >= nextId[t]
  BY <1>2
<1> HIDE DEF p
<1> QED BY <1>2, <1>3, <1>4 DEF RunInsert, p

LEMMA RunInsertPreservesIInv ==
  ASSUME IInv, NEW c \in Clients, RunInsert(c)
  PROVE  IInv'
<1> DEFINE t == stmt[c].table
           p == Primary(t)
           vals == stmt[c].values
           id == nextId[t]
           row == [f \in DOMAIN explorer[t] |-> IF f = p THEN [kind |-> "int", v |-> id] ELSE vals[f]]
           new == With(rows[t], id, row)
<1>1. /\ t \in DOMAIN explorer /\ id \in Nat
      /\ rows' = [rows EXCEPT ![t] = new] /\ nextId' = [nextId EXCEPT ![t] = id + 1]
      /\ Done(c, Answer(200, {id}))
  BY InsertTakesCounter
<1>2. /\ phase # "start" /\ t \in Tables /\ t \in DOMAIN rows /\ TableOk(explorer[t])
      /\ InsertOk(t, vals) /\ UNCHANGED <<schema, explorer>>
  BY <1>1, StatementFacts DEF RunInsert, StmtOk, Done
<1>3. nextId \in [Tables -> Nat]
  BY DEF IInv, TypeInv
<1>4. nextId' \in [Tables -> Nat] /\ nextId'[t] = id + 1 /\ \A u \in Tables : u # t => nextId'[u] = nextId[u]
  BY <1>1, <1>2, <1>3
<1>5. RowOk(t, id, row)
  <2>1. /\ p \in DOMAIN explorer[t] /\ explorer[t][p].kind = "int"
    BY <1>2, PrimaryIsKey
  <2>2. row = [f \in DOMAIN explorer[t] |-> row[f]] /\ row[p].v = id
    BY <2>1
  <2>3. \A f \in DOMAIN explorer[t] : Fits(explorer[t][f], row[f])
    <3> SUFFICES ASSUME NEW f \in DOMAIN explorer[t] PROVE Fits(explorer[t][f], row[f])
      OBVIOUS
    <3>1. CASE f = p
      <4>1. row[f] = [kind |-> "int", v |-> id] /\ row[f] # Nil
        BY <3>1 DEF Nil
      <4> QED BY <2>1, <3>1, <4>1 DEF Fits
    <3>2. CASE f # p
      BY <1>2, <3>2 DEF InsertOk
    <3> QED BY <3>1, <3>2
  <2> HIDE DEF row
  <2> QED BY <2>2, <2>3 DEF RowOk
<1>6. \A i \in DOMAIN new : i \in Nat /\ i < nextId'[t] /\ RowOk(t, i, new[i])
  <2> SUFFICES ASSUME NEW i \in DOMAIN new PROVE i \in Nat /\ i < nextId'[t] /\ RowOk(t, i, new[i])
    OBVIOUS
  <2>1. CASE i = id
    BY <1>1, <1>4, <1>5, <2>1 DEF With
  <2>2. CASE i # id
    <3>1. i \in Ids(t) /\ new[i] = rows[t][i]
      BY <2>2 DEF With, Ids
    <3>2. i \in Nat /\ i < id /\ RowOk(t, i, rows[t][i])
      BY <1>1, <3>1 DEF IInv, RowsInv
    <3> QED BY <1>1, <1>4, <3>1, <3>2
  <2> QED BY <2>1, <2>2
<1>7. RowsInv' /\ DOMAIN rows' = DOMAIN rows
  <2>1. \A u \in DOMAIN explorer : u # t => nextId'[u] = nextId[u]
    BY <1>4 DEF IInv, ExplorerInv
  <2> HIDE DEF t, new
  <2> QED BY <1>1, <1>2, <1>6, <2>1, NewRowsAreRight
<1> HIDE DEF t, id
<1> QED BY <1>1, <1>2, <1>4, <1>7, DonePreservesIInv

\* An update leaves a row right, and one it does not name as it was.
LEMMA UpdatedRow ==
  ASSUME IInv, NEW t \in DOMAIN explorer, TableOk(explorer[t]), NEW named, NEW vals,
         UpdateOk(t, vals), NEW i \in Ids(t)
  PROVE  /\ RowOk(t, i, Updated(t, named, vals)[i])
         /\ i # named => Updated(t, named, vals)[i] = rows[t][i]
         /\ \A f \in DOMAIN explorer[t] :
              f \notin DOMAIN vals => Updated(t, named, vals)[i][f] = rows[t][i][f]
<1> DEFINE row == rows[t][i]
           p == Primary(t)
           new == [f \in DOMAIN row |-> IF i = named /\ f \in DOMAIN vals THEN vals[f] ELSE row[f]]
<1>1. RowOk(t, i, row) /\ p \in DOMAIN explorer[t]
  BY PrimaryIsKey DEF IInv, RowsInv
<1>2. Updated(t, named, vals)[i] = new
  BY DEF Updated
<1> HIDE DEF p, row
<1>3. row = [f \in DOMAIN explorer[t] |-> row[f]] /\ DOMAIN row = DOMAIN explorer[t]
  BY <1>1 DEF RowOk
<1>4. new[p].v = i
  BY <1>1, <1>3 DEF RowOk, UpdateOk, p
<1>5. \A f \in DOMAIN explorer[t] : Fits(explorer[t][f], new[f])
  BY <1>1, <1>3 DEF RowOk, UpdateOk
<1>6. RowOk(t, i, new)
  BY <1>3, <1>4, <1>5 DEF RowOk, p
<1>7. i # named => new = row
  BY <1>3
<1> QED BY <1>2, <1>3, <1>6, <1>7 DEF row

LEMMA RunUpdatePreservesIInv ==
  ASSUME IInv, NEW c \in Clients, RunUpdate(c)
  PROVE  IInv'
<1> DEFINE t == stmt[c].table
           vals == stmt[c].values
           new == Updated(t, stmt[c].id, vals)
<1>1. stmt[c].op = "update" /\ UNCHANGED nextId
  BY DEF RunUpdate
<1>2. /\ phase # "start" /\ t \in DOMAIN explorer /\ t \in DOMAIN rows /\ TableOk(explorer[t])
      /\ UpdateOk(t, vals) /\ UNCHANGED explorer
  BY <1>1, StatementFacts DEF RunUpdate, StmtOk, Done
<1>3. nextId' \in [Tables -> Nat]
  BY <1>1 DEF IInv, TypeInv
<1>4. CASE Done(c, Answer(500, {})) /\ UNCHANGED rows
  <2>1. RowsInv'
    BY <1>1, <1>2, <1>4, SameRows DEF IInv
  <2> QED BY <1>2, <1>3, <1>4, <2>1, DonePreservesIInv
<1>5. CASE /\ rows' = [rows EXCEPT ![t] = new]
           /\ \E answer : Done(c, answer)
  <2>1. DOMAIN new = Ids(t)
    BY DEF Updated
  <2>2. \A i \in DOMAIN new : i \in Nat /\ i < nextId'[t] /\ RowOk(t, i, new[i])
    <3>1. \A i \in Ids(t) : i \in Nat /\ i < nextId[t]
      BY <1>2 DEF IInv, RowsInv
    <3>2. \A i \in Ids(t) : RowOk(t, i, new[i])
      BY <1>2, UpdatedRow
    <3> QED BY <1>1, <2>1, <3>1, <3>2
  <2>3. RowsInv' /\ DOMAIN rows' = DOMAIN rows
    <3> HIDE DEF t, new
    <3> QED BY <1>1, <1>2, <1>5, <2>2, NewRowsAreRight
  <2> QED BY <1>2, <1>3, <1>5, <2>3, DonePreservesIInv
<1> QED BY <1>4, <1>5 DEF RunUpdate

LEMMA RunDeletePreservesIInv ==
  ASSUME IInv, NEW c \in Clients, RunDelete(c)
  PROVE  IInv'
<1> DEFINE t == stmt[c].table
           new == [i \in Ids(t) \ {stmt[c].id} |-> rows[t][i]]
<1>1. /\ stmt[c].op = "delete" /\ UNCHANGED nextId /\ rows' = [rows EXCEPT ![t] = new]
      /\ \E answer : Done(c, answer)
  BY DEF RunDelete
<1>2. /\ phase # "start" /\ t \in DOMAIN explorer /\ t \in DOMAIN rows /\ UNCHANGED explorer
  BY <1>1, StatementFacts DEF Done
<1>3. nextId' \in [Tables -> Nat]
  BY <1>1 DEF IInv, TypeInv
<1>4. \A i \in DOMAIN new : i \in Nat /\ i < nextId'[t] /\ RowOk(t, i, new[i])
  BY <1>1, <1>2 DEF IInv, RowsInv
<1>5. RowsInv' /\ DOMAIN rows' = DOMAIN rows
  <2> HIDE DEF t, new
  <2> QED BY <1>1, <1>2, <1>4, NewRowsAreRight
<1> QED BY <1>1, <1>2, <1>3, <1>5, DonePreservesIInv

LEMMA NextPreservesIInv == IInv /\ [Next]_vars => IInv'
<1> SUFFICES ASSUME IInv, [Next]_vars PROVE IInv'
  OBVIOUS
<1>1. CASE NewDbExplorer
  BY <1>1, NewDbExplorerPreservesIInv
<1>2. CASE \E c \in Clients, r \in Requests : TablesList(c, r) \/ ByTable(c, r) \/ ByIndex(c, r)
  BY <1>2, TablesListPreservesIInv, ByTablePreservesIInv, ByIndexPreservesIInv
<1>3. CASE \E c \in Clients : RunRead(c) \/ RunInsert(c) \/ RunUpdate(c) \/ RunDelete(c)
  BY <1>3, RunReadPreservesIInv, RunInsertPreservesIInv, RunUpdatePreservesIInv, RunDeletePreservesIInv
<1>4. CASE \E c \in Clients : DbFails(c)
  <2> SUFFICES ASSUME NEW c \in Clients, DbFails(c) PROVE IInv'
    BY <1>4
  <2>1. stmt[c] # Idle /\ Done(c, Answer(500, {})) /\ UNCHANGED <<rows, nextId, explorer>>
    BY DEF DbFails, Done
  <2>2. phase # "start" /\ nextId' \in [Tables -> Nat]
    BY <2>1 DEF IInv, TypeInv, ExplorerInv
  <2>3. RowsInv'
    BY <2>1, SameRows DEF IInv
  <2> QED BY <2>1, <2>2, <2>3, DonePreservesIInv
<1>5. CASE UNCHANGED vars
  <2>1. UNCHANGED <<schema, phase, explorer, rows, nextId, stmt, resp>>
    BY <1>5 DEF vars
  <2>2. \A u : Primary(u)' = Primary(u)
    BY <2>1 DEF Primary
  <2>3. TypeInv' /\ ExplorerInv'
    BY <2>1 DEF IInv, TypeInv, ExplorerInv, Tables, Ids, TableOk
  <2>4. StmtInv'
    BY <2>1, <2>2 DEF IInv, StmtInv, StmtOk, InsertOk, UpdateOk, Fits
  <2>5. RowsInv'
    BY <2>1, SameRows DEF IInv
  <2> QED BY <2>3, <2>4, <2>5 DEF IInv
<1> QED BY <1>1, <1>2, <1>3, <1>4, <1>5 DEF Next

LEMMA Invariance == Spec => []IInv
<1> QED BY InitEstablishesIInv, NextPreservesIInv, PTL DEF Spec

-----------------------------------------------------------------------------
(* The theorems *)

\* Whatever bodies are sent and however the handlers interleave, the rows of
\* every table meet the schema that NewDbExplorer read: the checks of
\* NewHandlerFuncItemPut and NewHandlerFuncItemPost (db_explorer.go:285-404)
\* are enough.
THEOREM RowsMeetSchema == Spec => []RowsWellTyped
<1>1. IInv => RowsWellTyped
  <2>1. \A t, id, row : RowOk(t, id, row) =>
          /\ DOMAIN row = DOMAIN explorer[t] /\ row[Primary(t)].v = id
          /\ \A f \in DOMAIN explorer[t] : Fits(explorer[t][f], row[f])
    BY DEF RowOk
  <2> QED BY <2>1 DEF IInv, RowsInv, RowsWellTyped
<1> QED BY <1>1, Invariance, PTL

\* No PUT (db_explorer.go:285-330) brings back the id of a deleted record,
\* whether or not its body holds the primary key.
THEOREM IdsAreNew == Spec => IdsNeverReused
<1> DEFINE New == \A t \in DOMAIN explorer : \A id \in Ids(t)' \ Ids(t) : id >= nextId[t]
<1>1. IInv /\ [Next]_vars => [New]_vars
  <2> SUFFICES ASSUME IInv, Next PROVE New
    BY DEF vars
  <2> SUFFICES ASSUME NEW t \in DOMAIN explorer, NEW id \in Ids(t)', id \notin Ids(t)
               PROVE  id >= nextId[t]
    OBVIOUS
  <2>1. rows # rows' /\ t \in DOMAIN rows
    BY DEF Ids, IInv, TypeInv, ExplorerInv
  <2>2. CASE \E c \in Clients : RunInsert(c)
    <3> PICK c \in Clients : RunInsert(c)
      BY <2>2
    <3> DEFINE u == stmt[c].table
    <3>1. nextId[u] \in Nat /\ \E row : rows' = [rows EXCEPT ![u] = With(rows[u], nextId[u], row)]
      BY InsertTakesCounter
    <3> HIDE DEF u
    <3>2. t = u
      BY <2>1, <3>1 DEF Ids
    <3>3. id = nextId[u]
      BY <2>1, <3>1, <3>2 DEF Ids, With
    <3> QED BY <3>1, <3>2, <3>3
  <2>3. CASE \E c \in Clients : RunUpdate(c)
    <3> PICK c \in Clients : RunUpdate(c)
      BY <2>3
    <3>1. \E u : rows' = [rows EXCEPT ![u] = Updated(u, stmt[c].id, stmt[c].values)]
      BY <2>1 DEF RunUpdate
    <3> QED BY <2>1, <3>1 DEF Ids, Updated
  <2>4. CASE \E c \in Clients : RunDelete(c)
    <3> PICK c \in Clients : RunDelete(c)
      BY <2>4
    <3>1. \E u, gone : rows' = [rows EXCEPT ![u] = [i \in Ids(u) \ {gone} |-> rows[u][i]]]
      BY DEF RunDelete
    <3> QED BY <2>1, <3>1 DEF Ids
  <2> QED BY <2>1, <2>2, <2>3, <2>4 DEF Next, NewDbExplorer, TablesList, ByTable, ByIndex,
             Unchanged, RunRead, DbFails
<1> QED BY <1>1, Invariance, PTL DEF Spec, IdsNeverReused

\* A record changes or goes only by the statement of a handler whose request
\* named it (db_explorer.go:406-476), only in the fields the request gave, and
\* that handler answers with success.
THEOREM OthersAreUntouched == Spec => OnlyNamedRecordChanges
<1> DEFINE Gone(t, id)    == id \notin Ids(t)'
           Changed(t, id) == {f \in DOMAIN rows[t][id] : rows'[t][id][f] # rows[t][id][f]}
           By(c, t, id)   ==
             /\ stmt[c].op = IF Gone(t, id) THEN "delete" ELSE "update"
             /\ stmt[c].table = t /\ stmt[c].id = id
             /\ Gone(t, id) \/ Changed(t, id) \subseteq DOMAIN stmt[c].values
             /\ stmt'[c] = Idle /\ resp'[c] = Answer(200, {id})
           Named == \A t \in DOMAIN explorer : \A id \in Ids(t) :
                      Gone(t, id) \/ Changed(t, id) # {} => \E c \in Clients : By(c, t, id)
<1>1. IInv /\ [Next]_vars => [Named]_vars
  <2> SUFFICES ASSUME IInv, Next, NEW t \in DOMAIN explorer, NEW id \in Ids(t),
                      Gone(t, id) \/ Changed(t, id) # {}
               PROVE  \E c \in Clients : By(c, t, id)
    BY DEF vars
  <2>1. rows # rows' /\ t \in DOMAIN rows
    BY DEF Ids, IInv, TypeInv, ExplorerInv
  <2>2. RowOk(t, id, rows[t][id]) /\ id \in Nat /\ id < nextId[t]
    BY DEF IInv, RowsInv
  <2>3. \A c \in Clients : \A answer :
          Done(c, answer) => stmt'[c] = Idle /\ resp'[c] = answer
    BY DEF Done, IInv, TypeInv
  <2>4. CASE \E c \in Clients : RunInsert(c)
    <3> PICK c \in Clients : RunInsert(c)
      BY <2>4
    <3> DEFINE u == stmt[c].table
    <3>1. nextId[u] \in Nat /\ \E row : rows' = [rows EXCEPT ![u] = With(rows[u], nextId[u], row)]
      BY InsertTakesCounter
    <3> HIDE DEF u
    <3>2. t = u
      BY <2>1, <3>1 DEF Ids
    <3>3. id \in Ids(t)' /\ rows'[t][id] = rows[t][id]
      BY <2>1, <2>2, <3>1, <3>2 DEF Ids, With
    <3> QED BY <3>3
  <2>5. CASE \E c \in Clients : RunUpdate(c)
    <3> PICK c \in Clients : RunUpdate(c)
      BY <2>5
    <3> DEFINE u == stmt[c].table
               vals == stmt[c].values
               named == stmt[c].id
               new == Updated(u, named, vals)
    <3>1. /\ stmt[c].op = "update" /\ rows' = [rows EXCEPT ![u] = new]
          /\ Done(c, Answer(200, {i \in Ids(u) : new[i] # rows[u][i]}))
      BY <2>1 DEF RunUpdate
    <3>2. u \in DOMAIN explorer /\ TableOk(explorer[u]) /\ UpdateOk(u, vals)
      BY <3>1, StatementFacts DEF StmtOk
    <3>3. \A i \in Ids(u) :
            /\ i # named => new[i] = rows[u][i]
            /\ \A f \in DOMAIN explorer[u] : f \notin DOMAIN vals => new[i][f] = rows[u][i][f]
      BY <3>2, UpdatedRow
    <3>4. DOMAIN new = Ids(u)
      BY DEF Updated
    <3>5. t = u
      <4> HIDE DEF u, new
      <4> QED BY <2>1, <3>1 DEF Ids
    <3>6. rows'[t] = new /\ ~Gone(t, id)
      BY <2>1, <3>1, <3>4, <3>5 DEF Ids
    <3>7. id = named /\ new[id] # rows[t][id]
      BY <3>3, <3>5, <3>6
    <3>8. {i \in Ids(u) : new[i] # rows[u][i]} = {id}
      BY <3>3, <3>5, <3>7
    <3>9. Changed(t, id) \subseteq DOMAIN vals
      <4>1. DOMAIN rows[t][id] = DOMAIN explorer[t]
        BY <2>2 DEF RowOk
      <4> QED BY <3>3, <3>5, <3>6, <4>1
    <3>10. stmt'[c] = Idle /\ resp'[c] = Answer(200, {id})
      BY <2>3, <3>1, <3>8
    <3> HIDE DEF Changed
    <3> QED BY <3>1, <3>5, <3>6, <3>7, <3>9, <3>10
  <2>6. CASE \E c \in Clients : RunDelete(c)
    <3> PICK c \in Clients : RunDelete(c)
      BY <2>6
    <3> DEFINE u == stmt[c].table
               named == stmt[c].id
    <3>1. /\ stmt[c].op = "delete"
          /\ rows' = [rows EXCEPT ![u] = [i \in Ids(u) \ {named} |-> rows[u][i]]]
          /\ Done(c, Answer(200, Ids(u) \cap {named}))
      BY DEF RunDelete
    <3> HIDE DEF u, named
    <3>2. t = u
      BY <2>1, <3>1 DEF Ids
    <3>3. Ids(t)' = Ids(t) \ {named} /\ \A i \in Ids(t) \ {named} : rows'[t][i] = rows[t][i]
      BY <2>1, <3>1, <3>2 DEF Ids
    <3>4. id = named /\ Gone(t, id)
      BY <3>3
    <3>5. Ids(u) \cap {named} = {id}
      BY <3>2, <3>4
    <3>6. stmt'[c] = Idle /\ resp'[c] = Answer(200, {id})
      BY <2>3, <3>1, <3>5
    <3> HIDE DEF Gone, Changed
    <3> QED BY <3>1, <3>2, <3>4, <3>6 DEF u, named
  <2> QED BY <2>1, <2>4, <2>5, <2>6 DEF Next, NewDbExplorer, TablesList, ByTable, ByIndex,
             Unchanged, RunRead, DbFails
<1> QED BY <1>1, Invariance, PTL DEF Spec, OnlyNamedRecordChanges
=============================================================================
