------------------------------- MODULE UserApi -------------------------------
(***************************************************************************)
(* hw5_codegen: the two APIs of api.go behind their HTTP wrappers and      *)
(* validators (new_api.go).  Handlers run concurrently on MyApi's map of   *)
(* users and its counter of ids, under a sync.RWMutex.  new_api.go is      *)
(* generated and checked in; HandlersGen has the generator, and what it    *)
(* would make of the declarations of api.go today.                         *)
(***************************************************************************)
EXTENDS HandlersGen, FiniteSets

CONSTANTS Clients,    \* requests in flight at a time
          Requests    \* requests they make

VARIABLES
  users,    \* MyApi.users: login -> user
  nextID,   \* MyApi.nextID
  writer,   \* who holds MyApi.mu for writing
  readers,  \* who holds it for reading
  pc,       \* control state of each client's handler
  in,       \* its parameters
  id,       \* its local id
  resp      \* the last response: status, and the user or id it carries

mu == <<writer, readers>>
vars == <<users, nextID, mu, pc, in, id, resp>>

NoOne == "no one"
ASSUME ClientsAssumption == NoOne \notin Clients

\* A request is for one of the two APIs, and its parameters are texts.
ASSUME RequestsAssumption ==
  \A r \in Requests :
    /\ r.api \in {"MyApi", "OtherApi"} /\ r.auth \in BOOLEAN
    /\ \A n \in DOMAIN r.query : r.query[n] \in DOMAIN Length
    /\ \A n \in DOMAIN r.body : r.body[n] \in DOMAIN Length

\* strings.ToLower of the fields' names without a paramname
ASSUME LowerAssumption ==
  /\ Lower["Login"] = "login" /\ Lower["Status"] = "status" /\ Lower["Age"] = "age"
  /\ Lower["Username"] = "username" /\ Lower["Class"] = "class" /\ Lower["Level"] = "level"

-----------------------------------------------------------------------------
(* The declarations of api.go, as the generator reads them *)

Field(name, type, tag) == [name |-> name, type |-> type, tagged |-> TRUE, tag |-> tag]
Plain(name, type) == [name |-> name, type |-> type, tagged |-> FALSE, tag |-> << >>]

ProfileParams == {Field("Login", "string", [required |-> TRUE])}

CreateParams == {
  Field("Login", "string", [required |-> TRUE, min |-> 10]),
  Field("Name", "string", [paramname |-> "full_name"]),
  Field("Status", "string", [enum |-> {"user", "moderator", "admin"}, default |-> "user"]),
  Field("Age", "int", [min |-> 0, max |-> 128])}

OtherCreateParams == {
  Field("Username", "string", [required |-> TRUE, min |-> 3]),
  Field("Name", "string", [paramname |-> "account_name"]),
  Field("Class", "string", [enum |-> {"warrior", "sorcerer", "rouge"}, default |-> "warrior"]),
  Field("Level", "int", [min |-> 1, max |-> 50])}

Type(name, fields) == [name |-> name, struct |-> TRUE, fields |-> fields]

\* The types; of one with a field that is neither string nor int, that field.
Types == {
  Type("ProfileParams", ProfileParams), Type("CreateParams", CreateParams),
  Type("OtherCreateParams", OtherCreateParams), Type("OtherApi", {}),
  Type("ApiError", {Plain("Err", "error")}), Type("MyApi", {Plain("nextID", "uint64")}),
  Type("User", {Plain("ID", "uint64")}), Type("NewUser", {Plain("ID", "uint64")}),
  Type("OtherUser", {Plain("ID", "uint64")})}

Method(owner, name, url, auth, method, params) ==
  [owner |-> owner, name |-> name, api |-> TRUE, arity |-> 2,
   url |-> url, auth |-> auth, method |-> method, params |-> params]
Undocumented(owner, name) ==
  [Method(owner, name, Blank, FALSE, Blank, {}) EXCEPT !.api = FALSE, !.arity = 0]

Funcs == {
  Undocumented("ApiError", "Error"), Undocumented(Blank, "NewMyApi"),
  Undocumented(Blank, "NewOtherApi"),
  Method("MyApi", "Profile", "/user/profile", FALSE, Blank, ProfileParams),
  Method("MyApi", "Create", "/user/create", TRUE, "POST", CreateParams),
  Method("OtherApi", "Create", "/user/create", TRUE, "POST", OtherCreateParams)}

-----------------------------------------------------------------------------
(* State *)

statuses == [user |-> 0, moderator |-> 10, admin |-> 20]

User(i, login, name, status) == [ID |-> i, Login |-> login, FullName |-> name, Status |-> status]

Nothing == << >>
Answer(status, body) == [status |-> status, body |-> body]

\* The user NewMyApi puts in.
Known == [l \in {"rvasily"} |-> User(42, "rvasily", "Vasily Romanov", statuses["admin"])]

\* NewMyApi
Init ==
  /\ users = Known /\ nextID = 43
  /\ writer = NoOne /\ readers = {}
  /\ pc = [c \in Clients |-> "idle"]
  /\ in = [c \in Clients |-> Nothing]
  /\ id = [c \in Clients |-> 0]
  /\ resp = [c \in Clients |-> Answer(0, Nothing)]

-----------------------------------------------------------------------------
(* The generated wrappers *)

Goto(c, l) == pc' = [pc EXCEPT ![c] = l]
Reply(c, status, body) == resp' = [resp EXCEPT ![c] = Answer(status, body)]
\* The handler's parameters and locals go with it.
Leave(c) ==
  /\ Goto(c, "idle")
  /\ in' = [in EXCEPT ![c] = Nothing]
  /\ id' = [id EXCEPT ![c] = 0]
Return(c, status, body) == Leave(c) /\ Reply(c, status, body)

\* query.Get
Get(query, name) == IF name \in DOMAIN query THEN query[name] ELSE Blank
Default(text, default) == IF text = Blank THEN default ELSE text

\* A validator gives the parameters, or an error.
Checked(ok, params) == [ok |-> ok, params |-> IF ok THEN params ELSE << >>]

ValidateProfileParams(query) ==
  Checked(Get(query, "login") # Blank, [Login |-> Get(query, "login")])

\* Faulty: the file was generated before the tag of Login was changed.
ValidateCreateParamsStale(query) ==
  LET login  == Get(query, "login")
      status == Default(Get(query, "status"), "user")
      age    == Get(query, "age")
  IN  Checked(/\ age \in DOMAIN Number /\ Number[age] \in 0..128
              /\ login # Blank /\ Length[login] >= 9
              /\ status \in {"user", "moderator", "admin"},
              [Login |-> login, Name |-> Get(query, "full_name"), Status |-> status, Age |-> age])

ValidateCreateParams(query) ==
  LET login  == Get(query, "login")
      status == Default(Get(query, "status"), "user")
      age    == Get(query, "age")
  IN  Checked(/\ age \in DOMAIN Number /\ Number[age] \in 0..128
              /\ login # Blank /\ Length[login] >= 10
              /\ status \in {"user", "moderator", "admin"},
              [Login |-> login, Name |-> Get(query, "full_name"), Status |-> status, Age |-> age])

ValidateOtherCreateParams(query) ==
  LET username == Get(query, "username")
      class    == Default(Get(query, "class"), "warrior")
      level    == Get(query, "level")
  IN  Checked(/\ level \in DOMAIN Number /\ Number[level] \in 1..50
              /\ username # Blank /\ Length[username] >= 3
              /\ class \in {"warrior", "sorcerer", "rouge"},
              [Username |-> username, Name |-> Get(query, "account_name"),
               Class |-> class, Level |-> level])

\* The structs new_api.go has a validator for.
Validators == {"ProfileParams", "CreateParams", "OtherApi", "OtherCreateParams"}

\* The checks before the parameters of the two methods that need them.
Forbidden(r) == IF ~r.auth THEN 403 ELSE IF r.method # "POST" THEN 406 ELSE 0

\* A request ends with a status of its own or reaches a method.
Wrap(status, validated, name) ==
  IF status # 0 THEN Handled(status, Blank, << >>)
  ELSE IF ~validated.ok THEN Handled(400, Blank, << >>)
  ELSE Handled(0, name, validated.params)

WrappedProfile(r)     == Wrap(0, ValidateProfileParams(Params(r)), "Profile")
WrappedCreate(r)      == Wrap(Forbidden(r), ValidateCreateParams(Params(r)), "Create")
OtherWrappedCreate(r) == Wrap(Forbidden(r), ValidateOtherCreateParams(Params(r)), "Create")

MyServeHTTP(r) ==
  CASE r.url = "/user/profile" -> WrappedProfile(r)
    [] r.url = "/user/create"  -> WrappedCreate(r)
    [] OTHER                   -> Handled(404, Blank, << >>)

OtherServeHTTP(r) ==
  IF r.url = "/user/create" THEN OtherWrappedCreate(r) ELSE Handled(404, Blank, << >>)

Served(r) == IF r.api = "MyApi" THEN MyServeHTTP(r) ELSE OtherServeHTTP(r)

\* The first step of the method a request reaches.
Entry(r, name) ==
  IF r.api = "OtherApi" THEN "other" ELSE IF name = "Profile" THEN "profile" ELSE "create"

\* A request comes in and its wrapper calls a method or answers.
ServeHTTP(c, r) ==
  /\ pc[c] = "idle"
  /\ IF Served(r).status # 0 THEN Return(c, Served(r).status, Nothing)
     ELSE /\ Goto(c, Entry(r, Served(r).method))
          /\ in' = [in EXCEPT ![c] = Served(r).params]
          /\ Reply(c, 0, Nothing)
          /\ UNCHANGED id
  /\ UNCHANGED <<users, nextID, mu>>

-----------------------------------------------------------------------------
(* MyApi.Profile *)

ProfileBegins(c) ==
  /\ pc[c] = "profile"
  /\ IF in[c]["Login"] = "bad_user" THEN Return(c, 500, Nothing)
     ELSE Goto(c, "rlock") /\ UNCHANGED <<in, id, resp>>
  /\ UNCHANGED <<users, nextID, mu>>

\* A writer that waits keeps new readers out.
RLock(c) ==
  /\ pc[c] = "rlock"
  /\ writer = NoOne
  /\ \A d \in Clients : pc[d] # "drain"
  /\ readers' = readers \cup {c}
  /\ Goto(c, "read")
  /\ UNCHANGED <<users, nextID, writer, in, id, resp>>

ReadUser(c) ==
  /\ pc[c] = "read"
  /\ IF in[c]["Login"] \in DOMAIN users THEN Reply(c, 200, users[in[c]["Login"]])
     ELSE Reply(c, 404, Nothing)
  /\ Goto(c, "runlock")
  /\ UNCHANGED <<users, nextID, mu, in, id>>

RUnlock(c) ==
  /\ pc[c] = "runlock"
  /\ readers' = readers \ {c}
  /\ Leave(c)
  /\ UNCHANGED <<users, nextID, writer, resp>>

-----------------------------------------------------------------------------
(* MyApi.Create *)

CreateBegins(c) ==
  /\ pc[c] = "create"
  /\ IF in[c]["Login"] = "bad_username" THEN Return(c, 500, Nothing)
     ELSE Goto(c, "lock") /\ UNCHANGED <<in, id, resp>>
  /\ UNCHANGED <<users, nextID, mu>>

\* srv.mu.Lock: first against other writers, then until the readers have gone.
Lock(c) ==
  /\ pc[c] = "lock"
  /\ writer = NoOne
  /\ \A d \in Clients : pc[d] # "drain"
  /\ Goto(c, "drain")
  /\ UNCHANGED <<users, nextID, mu, in, id, resp>>

\* Faulty: the lock is taken for reading.
LockedShared(c) ==
  /\ pc[c] = "drain"
  /\ Goto(c, "check")
  /\ UNCHANGED <<users, nextID, mu, in, id, resp>>

Locked(c) ==
  /\ pc[c] = "drain"
  /\ readers = {}
  /\ writer' = c
  /\ Goto(c, "check")
  /\ UNCHANGED <<users, nextID, readers, in, id, resp>>

\* Faulty: the early return keeps the lock.
CheckUserKeepingLock(c) ==
  /\ pc[c] = "check"
  /\ IF in[c]["Login"] \in DOMAIN users THEN Return(c, 409, Nothing)
     ELSE Goto(c, "take") /\ UNCHANGED <<in, id, resp>>
  /\ UNCHANGED <<users, nextID, mu>>

CheckUser(c) ==
  /\ pc[c] = "check"
  /\ IF in[c]["Login"] \in DOMAIN users THEN Reply(c, 409, Nothing) /\ Goto(c, "unlock")
     ELSE Goto(c, "take") /\ UNCHANGED resp
  /\ UNCHANGED <<users, nextID, mu, in, id>>

\* id := srv.nextID
TakeID(c) ==
  /\ pc[c] = "take"
  /\ id' = [id EXCEPT ![c] = nextID]
  /\ Goto(c, "bump")
  /\ UNCHANGED <<users, nextID, mu, in, resp>>

BumpID(c) ==
  /\ pc[c] = "bump"
  /\ nextID' = nextID + 1
  /\ Goto(c, "put")
  /\ UNCHANGED <<users, mu, in, id, resp>>

\* Faulty: the map is keyed by the wrong parameter.
PutUserByName(c) ==
  /\ pc[c] = "put"
  /\ LET p == in[c]
     IN  users' = [l \in DOMAIN users \cup {p["Name"]} |->
                     IF l = p["Name"] THEN User(id[c], p["Login"], l, statuses[p["Status"]])
                     ELSE users[l]]
  /\ Reply(c, 200, [ID |-> id[c]])
  /\ Goto(c, "unlock")
  /\ UNCHANGED <<nextID, mu, in, id>>

PutUser(c) ==
  /\ pc[c] = "put"
  /\ LET p == in[c]
     IN  users' = [l \in DOMAIN users \cup {p["Login"]} |->
                     IF l = p["Login"] THEN User(id[c], l, p["Name"], statuses[p["Status"]])
                     ELSE users[l]]
  /\ Reply(c, 200, [ID |-> id[c]])
  /\ Goto(c, "unlock")
  /\ UNCHANGED <<nextID, mu, in, id>>

\* defer srv.mu.Unlock()
Unlock(c) ==
  /\ pc[c] = "unlock"
  /\ writer' = NoOne
  /\ Leave(c)
  /\ UNCHANGED <<users, nextID, readers, resp>>

\* OtherApi.Create keeps nothing.
OtherCreate(c) ==
  /\ pc[c] = "other"
  /\ Return(c, 200, [ID |-> 12, Login |-> in[c]["Username"], FullName |-> in[c]["Name"],
                     Level |-> in[c]["Level"]])
  /\ UNCHANGED <<users, nextID, mu>>

-----------------------------------------------------------------------------
ProfileStep(c) == ProfileBegins(c) \/ RLock(c) \/ ReadUser(c) \/ RUnlock(c)
CreateStep(c)  == \/ CreateBegins(c) \/ Lock(c) \/ Locked(c) \/ CheckUser(c)
                  \/ TakeID(c) \/ BumpID(c) \/ PutUser(c) \/ Unlock(c)
MethodStep(c)  == ProfileStep(c) \/ CreateStep(c) \/ OtherCreate(c)

Next == \E c \in Clients : (\E r \in Requests : ServeHTTP(c, r)) \/ MethodStep(c)

Spec == Init /\ [][Next]_vars

\* The server runs every handler, and sync.RWMutex lets everyone in who waits
\* while others come and go.
LiveSpec == Spec /\ \A c \in Clients : SF_vars(MethodStep(c))

-----------------------------------------------------------------------------
(* Properties *)

\* Every variable has a value of its Go type; handlers hold what they should.
TypeOK ==
  /\ nextID \in Nat
  /\ writer \in Clients \cup {NoOne} /\ readers \subseteq Clients
  /\ pc \in [Clients -> {"idle", "profile", "rlock", "read", "runlock", "create", "lock", "drain",
                         "check", "take", "bump", "put", "unlock", "other"}]
  /\ \A l \in DOMAIN users : users[l].ID \in Nat /\ users[l].Login = l
  /\ id \in [Clients -> Nat]

\* No two users have the same id, and none has an id still to be given.
IdsUnique ==
  /\ \A l \in DOMAIN users : users[l].ID < nextID
  /\ \A l, m \in DOMAIN users : users[l].ID = users[m].ID => l = m

\* A user, once there, stays and never changes: a handler may go on using the *User
\* it got from the map after it has let the lock go.
UsersStay ==
  [][\A l \in DOMAIN users : l \in DOMAIN users' /\ users'[l] = users[l]]_vars

\* The calls of a method that the requests make, and how far a handler has come in one.
Calls ==
  {[method |-> Entry(r, Served(r).method), params |-> Served(r).params] :
     r \in {q \in Requests : Served(q).status = 0}}

Stage(l) ==
  CASE l \in {"idle", "other"} -> l
    [] l \in {"profile", "rlock", "read"} -> "profile"
    [] l \in {"runlock", "unlock"} -> "answered"
    [] OTHER -> "create"

Store == INSTANCE UserStore WITH
  First    <- 43,
  StatusOf <- statuses,
  next     <- IF \E c \in Clients : pc[c] = "put" THEN nextID - 1 ELSE nextID,
  stage    <- [c \in Clients |-> Stage(pc[c])],
  args     <- in,
  answer   <- resp

\* The lock makes each call look atomic: of two clients creating the same login one
\* is told of the conflict, an answer is what the users were at one moment between
\* the request and the answer, and ids have no gaps (UserStore).
ImplementsStore == Store!Spec

\* new_api.go is what the generator would make of api.go as it is now: the same
\* structs have validators, and a request that comes in gets the same status or
\* reaches the same method with the same parameters, on both sides of every tag's
\* boundary.
Wanted == [r \in Requests |-> Generated(Funcs, r)]

GeneratedIsCurrent ==
  [][/\ {t.name : t \in Validated(Types)} = Validators
     /\ \A c \in Clients : pc[c] = "idle" /\ <<pc[c], resp[c]>>' # <<pc[c], resp[c]>> =>
          \A r \in Requests : ServeHTTP(c, r) =>
            IF Wanted[r].status # 0 THEN pc'[c] = "idle" /\ resp'[c].status = Wanted[r].status
            ELSE pc'[c] = Entry(r, Wanted[r].method) /\ in'[c] = Wanted[r].params]_vars

\* Every request is answered: no path leaves the lock behind.
RequestsAnswered == \A c \in Clients : pc[c] # "idle" ~> pc[c] = "idle"
=============================================================================
