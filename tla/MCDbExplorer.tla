---------------------------- MODULE MCDbExplorer ----------------------------
(* An instance of DbExplorer for TLC: the table items of the tests, with one
   column that may be null and one integer column, and a database with a column
   of a type the explorer does not know. *)
EXTENDS DbExplorer, TLC

CONSTANTS c1, c2

MCClients == {c1, c2}
MCSymmetry == Permutations(MCClients)

Col(f, t, n, e) == [field |-> f, type |-> t, null |-> n, extra |-> e]

Items == {Col("id", "int(11)", "NO", "auto_increment"), Col("title", "varchar(255)", "NO", ""),
          Col("updated", "text", "YES", ""), Col("size", "int", "NO", "")}

MCSchemas == {"items" :> Items,
              "items" :> (Items \cup {Col("price", "double", "NO", "")})}

Str(v) == [kind |-> "string", v |-> v]
Num(v) == [kind |-> "float64", v |-> v]

Request(method, table, tail, id, body, data) ==
  [method |-> method, table |-> table, tail |-> tail, id |-> id,
   limit |-> -1, offset |-> -1, body |-> body, data |-> data]

Bodies == {<< >>, "id" :> Num(1), "title" :> Str(1), "title" :> Nil, "title" :> Num(1),
           "updated" :> Str(2), "updated" :> Nil, "size" :> Num(1), "other" :> Num(1),
           ("id" :> Num(1)) @@ ("title" :> Str(1))}

MCRequests ==
  {Request(m, t, "none", 0, "ok", << >>) : m \in {"GET", "PUT"}, t \in {"/", "other", "items"}}
  \cup {[Request("GET", "items", "none", 0, "ok", << >>) EXCEPT !.limit = 1, !.offset = 1]}
  \cup {Request("PUT", "items", "slash", 0, "ok", d) : d \in Bodies}
  \cup {Request("POST", "items", "id", i, "ok", d) : i \in 1..2, d \in Bodies}
  \cup {Request(m, "items", "id", i, "bad", << >>) : m \in {"GET", "PUT", "POST", "DELETE"}, i \in 1..2}
  \cup {Request("GET", "items", tail, 1, "bad", << >>) : tail \in {"slash", "notId", "long"}}
=============================================================================
