---------------------------- MODULE UserApiProofs ----------------------------
(***************************************************************************)
(* Theorems about UserApi, for any number of clients, any requests and any *)
(* texts in them.  The invariant says who may be where while the write lock *)
(* is held, and what the holder knows there: that the login it checked is  *)
(* still free and the id it took still unused.                             *)
(***************************************************************************)
EXTENDS UserApi, TLAPS

Holding == {"check", "take", "bump", "put", "unlock"}

\* Only the holder is past Locked, and one client at a time waits for readers.
LockInv ==
  \A c \in Clients :
    /\ pc[c] \in Holding => writer = c
    /\ pc[c] = "drain" => writer = NoOne /\ \A d \in Clients \ {c} : pc[d] # "drain"

\* What the holder has checked and taken stays true until it uses it.
HolderInv ==
  \A c \in Clients :
    /\ pc[c] \in {"take", "bump", "put"} => in[c]["Login"] \notin DOMAIN users
    /\ pc[c] = "bump" => id[c] = nextID
    /\ pc[c] = "put" => /\ nextID = id[c] + 1
                        /\ \A l \in DOMAIN users : users[l].ID < id[c]

IInv == TypeOK /\ DOMAIN in = Clients /\ LockInv /\ HolderInv /\ IdsUnique

LEMMA InitIInv == Init => IInv
<1> SUFFICES ASSUME Init PROVE IInv
  OBVIOUS
<1>1. /\ DOMAIN users = {"rvasily"} /\ users["rvasily"].ID = 42
      /\ users["rvasily"].Login = "rvasily"
  BY DEF Init, Known, User
<1>2. /\ nextID = 43 /\ writer = NoOne /\ readers = {} /\ pc = [c \in Clients |-> "idle"]
      /\ id = [c \in Clients |-> 0] /\ DOMAIN in = Clients
  BY DEF Init
<1>3. TypeOK /\ IdsUnique
  <2>1. \A l \in DOMAIN users : users[l].ID = 42 /\ users[l].Login = l
    BY <1>1
  <2>2. \A l, m \in DOMAIN users : l = m
    BY <1>1
  <2> QED BY <1>2, <2>1, <2>2 DEF TypeOK, IdsUnique
<1>4. LockInv /\ HolderInv
  BY <1>2 DEF LockInv, HolderInv, Holding
<1> QED BY <1>2, <1>3, <1>4 DEF IInv

\* The wrappers hand a request to the first step of a method.
LEMMA EntryOfMethod ==
  ASSUME NEW r, NEW name
  PROVE  Entry(r, name) \in {"profile", "create", "other"}
BY DEF Entry

\* A step that touches neither the map, the counter nor the write lock, and
\* does not enter the critical section, keeps the invariant.
LEMMA QuietStep ==
  ASSUME IInv, NEW c \in Clients, NEW l,
         l \in {"idle", "profile", "rlock", "read", "runlock", "create", "lock", "other"},
         pc[c] \notin Holding \cup {"drain"},
         UNCHANGED <<users, nextID, writer>>, Goto(c, l),
         readers' \subseteq Clients, DOMAIN in' = DOMAIN in,
         \A d \in Clients \ {c} : in'[d] = in[d],
         id' \in [Clients -> Nat], \A d \in Clients \ {c} : id'[d] = id[d]
  PROVE  IInv'
<1>1. TypeOK'
  BY DEF IInv, TypeOK, Goto
<1>2. LockInv'
  BY DEF IInv, TypeOK, LockInv, Goto, Holding
<1>3. HolderInv'
  BY DEF IInv, TypeOK, HolderInv, Goto, Holding
<1> QED BY <1>1, <1>2, <1>3 DEF IInv, IdsUnique

LEMMA Induction == IInv /\ [Next]_vars => IInv'
<1> SUFFICES ASSUME IInv, [Next]_vars PROVE IInv'
  OBVIOUS
<1>1. CASE UNCHANGED vars
  BY <1>1 DEF vars, mu, IInv, TypeOK, LockInv, HolderInv, IdsUnique
<1>2. ASSUME NEW c \in Clients, NEW r \in Requests, ServeHTTP(c, r) PROVE IInv'
  <2>1. PICK l \in {"idle", "profile", "create", "other"} : Goto(c, l)
    BY <1>2, EntryOfMethod DEF ServeHTTP, Return, Leave
  <2>2. /\ DOMAIN in' = DOMAIN in /\ \A d \in Clients \ {c} : in'[d] = in[d]
        /\ id' \in [Clients -> Nat] /\ \A d \in Clients \ {c} : id'[d] = id[d]
    BY <1>2 DEF ServeHTTP, Return, Leave, IInv, TypeOK
  <2> QED BY <1>2, <2>1, <2>2, QuietStep DEF ServeHTTP, mu, IInv, TypeOK, Holding
<1>3. ASSUME NEW c \in Clients,
             ProfileBegins(c) \/ RLock(c) \/ ReadUser(c) \/ RUnlock(c) \/ CreateBegins(c)
             \/ OtherCreate(c)
      PROVE  IInv'
  <2>1. PICK l \in {"idle", "rlock", "read", "runlock", "lock"} : Goto(c, l)
    BY <1>3 DEF ProfileBegins, RLock, ReadUser, RUnlock, CreateBegins, OtherCreate, Return, Leave
  <2>2. /\ DOMAIN in' = DOMAIN in /\ \A d \in Clients \ {c} : in'[d] = in[d]
        /\ id' \in [Clients -> Nat] /\ \A d \in Clients \ {c} : id'[d] = id[d]
    BY <1>3 DEF ProfileBegins, RLock, ReadUser, RUnlock, CreateBegins, OtherCreate, Return, Leave,
                IInv, TypeOK
  <2>3. readers' \subseteq Clients /\ UNCHANGED <<users, nextID, writer>>
        /\ pc[c] \notin Holding \cup {"drain"}
    BY <1>3 DEF ProfileBegins, RLock, ReadUser, RUnlock, CreateBegins, OtherCreate, IInv, TypeOK,
                mu, Holding
  <2> QED BY <2>1, <2>2, <2>3, QuietStep
<1>4. ASSUME NEW c \in Clients, Lock(c) PROVE IInv'
  <2>1. TypeOK' /\ LockInv'
    BY <1>4, ClientsAssumption DEF Lock, Goto, mu, IInv, TypeOK, LockInv, Holding
  <2>2. HolderInv' /\ IdsUnique' /\ DOMAIN in' = Clients
    BY <1>4 DEF Lock, Goto, mu, IInv, TypeOK, HolderInv, IdsUnique
  <2> QED BY <2>1, <2>2 DEF IInv
<1>5. ASSUME NEW c \in Clients, Locked(c) PROVE IInv'
  <2>1. TypeOK' /\ LockInv'
    BY <1>5, ClientsAssumption DEF Locked, Goto, IInv, TypeOK, LockInv, Holding
  <2>2. HolderInv' /\ IdsUnique' /\ DOMAIN in' = Clients
    BY <1>5 DEF Locked, Goto, IInv, TypeOK, HolderInv, IdsUnique
  <2> QED BY <2>1, <2>2 DEF IInv
<1>6. ASSUME NEW c \in Clients, CheckUser(c) PROVE IInv'
  <2>1. TypeOK' /\ LockInv'
    BY <1>6, ClientsAssumption DEF CheckUser, Goto, mu, IInv, TypeOK, LockInv, Holding
  <2>2. HolderInv' /\ IdsUnique' /\ DOMAIN in' = Clients
    BY <1>6 DEF CheckUser, Goto, mu, IInv, TypeOK, HolderInv, IdsUnique
  <2> QED BY <2>1, <2>2 DEF IInv
<1>7. ASSUME NEW c \in Clients, TakeID(c) PROVE IInv'
  <2>1. TypeOK' /\ LockInv'
    BY <1>7, ClientsAssumption DEF TakeID, Goto, mu, IInv, TypeOK, LockInv, Holding
  <2>2. HolderInv' /\ IdsUnique' /\ DOMAIN in' = Clients
    BY <1>7 DEF TakeID, Goto, mu, IInv, TypeOK, HolderInv, IdsUnique
  <2> QED BY <2>1, <2>2 DEF IInv
<1>8. ASSUME NEW c \in Clients, BumpID(c) PROVE IInv'
  <2>0. \A d \in Clients \ {c} : pc[d] \notin Holding
    BY <1>8 DEF BumpID, IInv, LockInv, Holding
  <2>1. TypeOK' /\ LockInv'
    BY <1>8, ClientsAssumption DEF BumpID, Goto, mu, IInv, TypeOK, LockInv, Holding
  <2>2. HolderInv' /\ IdsUnique' /\ DOMAIN in' = Clients
    BY <1>8, <2>0 DEF BumpID, Goto, mu, IInv, TypeOK, HolderInv, IdsUnique, Holding
  <2> QED BY <2>1, <2>2 DEF IInv
<1>9. ASSUME NEW c \in Clients, PutUser(c) PROVE IInv'
  <2>0. \A d \in Clients \ {c} : pc[d] \notin Holding
    BY <1>9 DEF PutUser, IInv, LockInv, Holding
  <2> DEFINE login == in[c]["Login"]
  <2>1. /\ DOMAIN users' = DOMAIN users \cup {login}
        /\ users'[login].ID = id[c] /\ users'[login].Login = login
        /\ \A l \in DOMAIN users : users'[l] = users[l]
    BY <1>9 DEF PutUser, User, IInv, HolderInv
  <2>2. TypeOK'
    BY <1>9, <2>1 DEF PutUser, Goto, mu, IInv, TypeOK
  <2>3. LockInv'
    BY <1>9 DEF PutUser, Goto, mu, IInv, TypeOK, LockInv, Holding
  <2>4. HolderInv' /\ DOMAIN in' = Clients
    BY <1>9, <2>0 DEF PutUser, Goto, mu, IInv, TypeOK, HolderInv, Holding
  <2>5. IdsUnique'
    BY <1>9, <2>1 DEF PutUser, IInv, TypeOK, HolderInv, IdsUnique
  <2> QED BY <2>2, <2>3, <2>4, <2>5 DEF IInv
<1>10. ASSUME NEW c \in Clients, Unlock(c) PROVE IInv'
  <2>0. \A d \in Clients \ {c} : pc[d] \notin Holding \cup {"drain"}
    BY <1>10, ClientsAssumption DEF Unlock, IInv, LockInv, Holding
  <2>1. TypeOK' /\ DOMAIN in' = Clients
    BY <1>10 DEF Unlock, Leave, Goto, IInv, TypeOK
  <2>2. LockInv' /\ HolderInv' /\ IdsUnique'
    BY <1>10, <2>0 DEF Unlock, Leave, Goto, IInv, TypeOK, LockInv, HolderInv, IdsUnique, Holding
  <2> QED BY <2>1, <2>2 DEF IInv
<1> QED
  BY <1>1, <1>2, <1>3, <1>4, <1>5, <1>6, <1>7, <1>8, <1>9, <1>10
     DEF Next, MethodStep, ProfileStep, CreateStep

LEMMA Invariance == Spec => []IInv
  BY InitIInv, Induction, PTL DEF Spec

\* Every variable keeps a value of its Go type, and each user is found under
\* its own login (api.go:111).
THEOREM TypeCorrect == Spec => []TypeOK
  BY Invariance, PTL DEF IInv

\* No two users ever share an id: taking nextID, incrementing it and inserting
\* the user are one critical section (api.go:101-118).
THEOREM UniqueIds == Spec => []IdsUnique
  BY Invariance, PTL DEF IInv

\* A user never goes and never changes: the insertion at api.go:111 finds the
\* login as free as the check at api.go:104 did.
THEOREM UsersForGood == Spec => UsersStay
<1>1. IInv /\ [Next]_vars => [\A l \in DOMAIN users : l \in DOMAIN users' /\ users'[l] = users[l]]_vars
  <2> SUFFICES ASSUME IInv, Next
               PROVE  \A l \in DOMAIN users : l \in DOMAIN users' /\ users'[l] = users[l]
    OBVIOUS
  <2>1. ASSUME NEW c \in Clients, PutUser(c)
        PROVE  \A l \in DOMAIN users : l \in DOMAIN users' /\ users'[l] = users[l]
    BY <2>1 DEF PutUser, IInv, HolderInv
  <2>2. CASE users' = users
    BY <2>2
  <2> QED
    BY <2>1, <2>2 DEF Next, MethodStep, ProfileStep, CreateStep, ServeHTTP, ProfileBegins, RLock,
       ReadUser, RUnlock, CreateBegins, Lock, Locked, CheckUser, TakeID, BumpID, Unlock, OtherCreate
<1> QED BY <1>1, Invariance, PTL DEF Spec, UsersStay

-----------------------------------------------------------------------------
(* new_api.go against what the generator makes of api.go. *)

\* What the generated Validate says of one field.
FieldBad(f, query) ==
  \/ IsInt(f) /\ Filled(f, query) \notin DOMAIN Number
  \/ Missing(f, query)
  \/ Has(f, "enum") /\ Filled(f, query) \notin f.tag["enum"]
  \/ OutOfBounds(f, query)

Texts(query) == \A name : Get(query, name) \in DOMAIN Length

LEMMA ParamsAreTexts == \A r \in Requests : Texts(Params(r))
  BY RequestsAssumption, TextAssumption DEF Texts, Params, Get

LEMMA RequiredText ==
  ASSUME NEW f, NEW query, NEW k, NEW name, Texts(query), k \in Nat, name = ParamName(f),
         f.type = "string", f.tagged = TRUE, f.tag = [required |-> TRUE, min |-> k]
  PROVE  /\ Filled(f, query) = Get(query, name)
         /\ FieldBad(f, query) <=> ~(Get(query, name) # Blank /\ Length[Get(query, name)] >= k)
  <1>1. DOMAIN f.tag = {"required", "min"} /\ f.tag["min"] = k
    OBVIOUS
  <1>2. Has(f, "required") /\ Has(f, "min") /\ ~Has(f, "max") /\ ~Has(f, "enum") /\ ~IsInt(f)
    BY <1>1 DEF Has, IsInt
  <1>3. Raw(f, query) = Get(query, name)
    BY DEF Raw, Get
  <1>4. Filled(f, query) = Get(query, name)
    BY <1>2, <1>3 DEF Filled
  <1>5. Length[Get(query, name)] \in Nat
    BY TextAssumption DEF Texts
  <1>. QED  BY <1>1, <1>2, <1>3, <1>4, <1>5 DEF FieldBad, Missing, OutOfBounds, Size

LEMMA FreeText ==
  ASSUME NEW f, NEW query, NEW name, name = ParamName(f), f.type = "string",
         \A key \in {"required", "default", "enum", "min", "max"} : ~Has(f, key)
  PROVE  Filled(f, query) = Get(query, name) /\ ~FieldBad(f, query)
  BY DEF Filled, Raw, Get, FieldBad, IsInt, Missing, OutOfBounds

LEMMA EnumText ==
  ASSUME NEW f, NEW query, NEW E, NEW d, NEW name, name = ParamName(f), d # Blank, Blank \notin E,
         f.type = "string", f.tag = [enum |-> E, default |-> d]
  PROVE  /\ Filled(f, query) = Default(Get(query, name), d)
         /\ FieldBad(f, query) <=> Default(Get(query, name), d) \notin E
  <1>1. DOMAIN f.tag = {"enum", "default"} /\ f.tag["enum"] = E /\ f.tag["default"] = d
    OBVIOUS
  <1>2. Has(f, "enum") /\ Has(f, "default") /\ ~Has(f, "max") /\ ~Has(f, "min") /\ ~Has(f, "required") /\ ~IsInt(f)
    BY <1>1 DEF Has, IsInt
  <1>3. Raw(f, query) = Get(query, name)
    BY DEF Raw, Get
  <1>4. Filled(f, query) = Default(Get(query, name), d)
    BY <1>1, <1>2, <1>3 DEF Filled, Default
  <1>. QED  BY <1>1, <1>2, <1>4 DEF FieldBad, Missing, OutOfBounds

LEMMA BoundedInt ==
  ASSUME NEW f, NEW query, NEW lo \in Int, NEW hi \in Int, NEW name, name = ParamName(f),
         f.type = "int", f.tag = [min |-> lo, max |-> hi]
  PROVE  /\ Filled(f, query) = Get(query, name)
         /\ FieldBad(f, query) <=> ~(Get(query, name) \in DOMAIN Number /\ Number[Get(query, name)] \in lo..hi)
  <1>1. DOMAIN f.tag = {"min", "max"} /\ f.tag["min"] = lo /\ f.tag["max"] = hi
    OBVIOUS
  <1>2. Has(f, "min") /\ Has(f, "max") /\ ~Has(f, "enum") /\ ~Has(f, "default") /\ ~Has(f, "required") /\ IsInt(f)
    BY <1>1 DEF Has, IsInt
  <1>3. Filled(f, query) = Get(query, name)
    BY <1>2 DEF Filled, Raw, Get
  <1>4. Get(query, name) \in DOMAIN Number => Number[Get(query, name)] \in Int
    BY TextAssumption
  <1>5. FieldBad(f, query) <=> \/ Get(query, name) \notin DOMAIN Number
                               \/ Number[Get(query, name)] > hi \/ Number[Get(query, name)] < lo
    BY <1>1, <1>2, <1>3 DEF FieldBad, Missing, OutOfBounds, Size
  <1>. QED  BY <1>3, <1>4, <1>5

LEMMA InvalidIfBad ==
  ASSUME NEW struct, NEW query
  PROVE  Invalid(struct, query) <=> \E f \in Fields(struct) : FieldBad(f, query)
  BY DEF Invalid, FieldBad

\* The struct a validator fills, when no two of its fields have the same name.
LEMMA ReleaseFields ==
  ASSUME NEW struct, NEW query, \A f, g \in Fields(struct) : f.name = g.name => f = g
  PROVE  /\ DOMAIN Release(struct, query) = {f.name : f \in Fields(struct)}
         /\ \A f \in Fields(struct) : Release(struct, query)[f.name] = Filled(f, query)
         /\ Release(struct, query) = [n \in {f.name : f \in Fields(struct)} |-> Release(struct, query)[n]]
<1>1. \A f \in Fields(struct) : (CHOOSE g \in Fields(struct) : g.name = f.name) = f
  OBVIOUS
<1>. QED  BY <1>1 DEF Release

LEMMA ProfileValidator ==
  ASSUME NEW query, Texts(query)
  PROVE  /\ ValidateProfileParams(query).ok <=> ~Invalid(ProfileParams, query)
         /\ ValidateProfileParams(query).ok =>
              ValidateProfileParams(query).params = Release(ProfileParams, query)
<1>. DEFINE login == Field("Login", "string", [required |-> TRUE])
<1>1. Fields(ProfileParams) = {login} /\ login.name = "Login"
  BY DEF Fields, ProfileParams, Field
<1>2. ParamName(login) = "login" /\ Filled(login, query) = Get(query, "login")
  BY LowerAssumption DEF ParamName, Filled, Raw, Get, Has, Field
<1>3. FieldBad(login, query) <=> Get(query, "login") = Blank
  BY <1>2 DEF FieldBad, Missing, OutOfBounds, IsInt, Has, Field, Raw, Get
<1>. HIDE DEF login
<1>4. Invalid(ProfileParams, query) <=> Get(query, "login") = Blank
  BY <1>1, <1>3, InvalidIfBad
<1>5. Release(ProfileParams, query) = [Login |-> Get(query, "login")]
  <2>. DEFINE R == Release(ProfileParams, query)
  <2>1. {f.name : f \in {login}} = {"Login"}
    BY <1>1
  <2>2. R = [n \in {"Login"} |-> R[n]] /\ R[login.name] = Filled(login, query)
    BY <1>1, <2>1, ReleaseFields
  <2>3. R["Login"] = Get(query, "login")
    BY <1>1, <1>2, <2>2
  <2>. HIDE DEF R
  <2>. QED  BY <2>2, <2>3 DEF R
<1>. QED  BY <1>4, <1>5 DEF ValidateProfileParams, Checked

LEMMA CreateValidator ==
  ASSUME NEW query, Texts(query)
  PROVE  /\ ValidateCreateParams(query).ok <=> ~Invalid(CreateParams, query)
         /\ ValidateCreateParams(query).ok =>
              ValidateCreateParams(query).params = Release(CreateParams, query)
<1>. DEFINE login == Field("Login", "string", [required |-> TRUE, min |-> 10])
            name == Field("Name", "string", [paramname |-> "full_name"])
            status == Field("Status", "string", [enum |-> {"user", "moderator", "admin"}, default |-> "user"])
            age == Field("Age", "int", [min |-> 0, max |-> 128])
            all == {login, name, status, age}
<1>1. Fields(CreateParams) = all
  BY DEF Fields, CreateParams, Field
<1>2. login.name = "Login" /\ name.name = "Name" /\ status.name = "Status" /\ age.name = "Age"
  BY DEF Field
<1>3. /\ ParamName(login) = "login" /\ ParamName(name) = "full_name"
      /\ ParamName(status) = "status" /\ ParamName(age) = "age"
  BY LowerAssumption DEF ParamName, Has, Field
<1>4. /\ Filled(login, query) = Get(query, "login")
      /\ FieldBad(login, query) <=> ~(Get(query, "login") # Blank /\ Length[Get(query, "login")] >= 10)
  BY <1>3, RequiredText DEF Field
<1>5. Filled(name, query) = Get(query, "full_name") /\ ~FieldBad(name, query)
  BY <1>3, FreeText DEF Field, Has
<1>6. /\ Filled(status, query) = Default(Get(query, "status"), "user")
      /\ FieldBad(status, query) <=> Default(Get(query, "status"), "user") \notin {"user", "moderator", "admin"}
  BY <1>3, EnumText DEF Field, Blank
<1>7. /\ Filled(age, query) = Get(query, "age")
      /\ FieldBad(age, query) <=> ~(Get(query, "age") \in DOMAIN Number /\ Number[Get(query, "age")] \in 0..128)
  BY <1>3, BoundedInt DEF Field
<1>. HIDE DEF login, name, status, age
<1>8. Invalid(CreateParams, query) <=> ~ValidateCreateParams(query).ok
  BY <1>1, <1>4, <1>5, <1>6, <1>7, InvalidIfBad DEF ValidateCreateParams, Checked
<1>9. Release(CreateParams, query) =
        [Login |-> Get(query, "login"), Name |-> Get(query, "full_name"),
         Status |-> Default(Get(query, "status"), "user"), Age |-> Get(query, "age")]
  <2>. DEFINE R == Release(CreateParams, query)
              names == {"Login", "Name", "Status", "Age"}
  <2>1. \A f, g \in all : f.name = g.name => f = g
    BY <1>2
  <2>2. {f.name : f \in all} = names
    BY <1>2
  <2>3. R = [n \in names |-> R[n]] /\ \A f \in all : R[f.name] = Filled(f, query)
    BY <1>1, <2>1, <2>2, ReleaseFields
  <2>4. /\ R["Login"] = Get(query, "login") /\ R["Name"] = Get(query, "full_name")
        /\ R["Status"] = Default(Get(query, "status"), "user") /\ R["Age"] = Get(query, "age")
    BY <1>2, <1>4, <1>5, <1>6, <1>7, <2>3
  <2>. HIDE DEF R
  <2>. QED  BY <2>3, <2>4 DEF R
<1>. QED  BY <1>8, <1>9 DEF ValidateCreateParams, Checked

LEMMA OtherCreateValidator ==
  ASSUME NEW query, Texts(query)
  PROVE  /\ ValidateOtherCreateParams(query).ok <=> ~Invalid(OtherCreateParams, query)
         /\ ValidateOtherCreateParams(query).ok =>
              ValidateOtherCreateParams(query).params = Release(OtherCreateParams, query)
<1>. DEFINE username == Field("Username", "string", [required |-> TRUE, min |-> 3])
            name == Field("Name", "string", [paramname |-> "account_name"])
            class == Field("Class", "string", [enum |-> {"warrior", "sorcerer", "rouge"}, default |-> "warrior"])
            level == Field("Level", "int", [min |-> 1, max |-> 50])
            all == {username, name, class, level}
<1>1. Fields(OtherCreateParams) = all
  BY DEF Fields, OtherCreateParams, Field
<1>2. username.name = "Username" /\ name.name = "Name" /\ class.name = "Class" /\ level.name = "Level"
  BY DEF Field
<1>3. /\ ParamName(username) = "username" /\ ParamName(name) = "account_name"
      /\ ParamName(class) = "class" /\ ParamName(level) = "level"
  BY LowerAssumption DEF ParamName, Has, Field
<1>4. /\ Filled(username, query) = Get(query, "username")
      /\ FieldBad(username, query) <=> ~(Get(query, "username") # Blank /\ Length[Get(query, "username")] >= 3)
  BY <1>3, RequiredText DEF Field
<1>5. Filled(name, query) = Get(query, "account_name") /\ ~FieldBad(name, query)
  BY <1>3, FreeText DEF Field, Has
<1>6. /\ Filled(class, query) = Default(Get(query, "class"), "warrior")
      /\ FieldBad(class, query) <=> Default(Get(query, "class"), "warrior") \notin {"warrior", "sorcerer", "rouge"}
  BY <1>3, EnumText DEF Field, Blank
<1>7. /\ Filled(level, query) = Get(query, "level")
      /\ FieldBad(level, query) <=> ~(Get(query, "level") \in DOMAIN Number /\ Number[Get(query, "level")] \in 1..50)
  BY <1>3, BoundedInt DEF Field
<1>. HIDE DEF username, name, class, level
<1>8. Invalid(OtherCreateParams, query) <=> ~ValidateOtherCreateParams(query).ok
  BY <1>1, <1>4, <1>5, <1>6, <1>7, InvalidIfBad DEF ValidateOtherCreateParams, Checked
<1>9. Release(OtherCreateParams, query) =
        [Username |-> Get(query, "username"), Name |-> Get(query, "account_name"),
         Class |-> Default(Get(query, "class"), "warrior"), Level |-> Get(query, "level")]
  <2>. DEFINE R == Release(OtherCreateParams, query)
              names == {"Username", "Name", "Class", "Level"}
  <2>1. \A f, g \in all : f.name = g.name => f = g
    BY <1>2
  <2>2. {f.name : f \in all} = names
    BY <1>2
  <2>3. R = [n \in names |-> R[n]] /\ \A f \in all : R[f.name] = Filled(f, query)
    BY <1>1, <2>1, <2>2, ReleaseFields
  <2>4. /\ R["Username"] = Get(query, "username") /\ R["Name"] = Get(query, "account_name")
        /\ R["Class"] = Default(Get(query, "class"), "warrior") /\ R["Level"] = Get(query, "level")
    BY <1>2, <1>4, <1>5, <1>6, <1>7, <2>3
  <2>. HIDE DEF R
  <2>. QED  BY <2>3, <2>4 DEF R
<1>. QED  BY <1>8, <1>9 DEF ValidateOtherCreateParams, Checked

ProfileMethod     == Method("MyApi", "Profile", "/user/profile", FALSE, Blank, ProfileParams)
CreateMethod      == Method("MyApi", "Create", "/user/create", TRUE, "POST", CreateParams)
OtherCreateMethod == Method("OtherApi", "Create", "/user/create", TRUE, "POST", OtherCreateParams)

LEMMA MethodFacts ==
  /\ ProfileMethod.api = TRUE /\ ProfileMethod.arity = 2
  /\ ProfileMethod.owner = "MyApi" /\ ProfileMethod.url = "/user/profile"
  /\ ProfileMethod.name = "Profile" /\ ProfileMethod.params = ProfileParams
  /\ ProfileMethod.auth = FALSE /\ ProfileMethod.method = Blank
  /\ CreateMethod.api = TRUE /\ CreateMethod.arity = 2
  /\ CreateMethod.owner = "MyApi" /\ CreateMethod.url = "/user/create"
  /\ CreateMethod.name = "Create" /\ CreateMethod.params = CreateParams
  /\ CreateMethod.auth = TRUE /\ CreateMethod.method = "POST"
  /\ OtherCreateMethod.api = TRUE /\ OtherCreateMethod.arity = 2
  /\ OtherCreateMethod.owner = "OtherApi" /\ OtherCreateMethod.url = "/user/create"
  /\ OtherCreateMethod.name = "Create" /\ OtherCreateMethod.params = OtherCreateParams
  /\ OtherCreateMethod.auth = TRUE /\ OtherCreateMethod.method = "POST"
  BY DEF ProfileMethod, CreateMethod, OtherCreateMethod, Method

\* A wrapper is generated for the three documented methods and no other function.
LEMMA WrappedFuncs == Wrapped(Funcs) = {ProfileMethod, CreateMethod, OtherCreateMethod}
<1>. DEFINE plain == {Undocumented("ApiError", "Error"), Undocumented(Blank, "NewMyApi"),
                      Undocumented(Blank, "NewOtherApi")}
            methods == {ProfileMethod, CreateMethod, OtherCreateMethod}
<1>1. Funcs = plain \cup methods
  BY DEF Funcs, ProfileMethod, CreateMethod, OtherCreateMethod
<1>2. \A f \in plain : f.api = FALSE
  <2>1. ASSUME NEW owner, NEW name PROVE Undocumented(owner, name).api = FALSE
    <3>. DEFINE m == Method(owner, name, Blank, FALSE, Blank, {})
    <3>1. "api" \in DOMAIN m /\ "arity" \in DOMAIN m
      BY DEF Method
    <3>. HIDE DEF m
    <3>2. [m EXCEPT !.api = FALSE, !.arity = 0].api = FALSE
      BY <3>1
    <3>. QED  BY <3>2 DEF Undocumented, m
  <2>. QED  BY <2>1
<1>3. \A f \in methods : f.owner # Blank /\ f.api = TRUE /\ f.method \in {Blank, "GET", "POST"} /\ f.arity = 2
  BY MethodFacts DEF Blank
<1>. HIDE DEF plain, methods
<1>. QED  BY <1>1, <1>2, <1>3 DEF Wrapped, methods

\* The generated handler of a documented method, and of any other URL.
LEMMA GeneratedCases ==
  ASSUME NEW r, NEW m \in Wrapped(Funcs), m.owner = r.api, m.url = r.url
  PROVE  Generated(Funcs, r) = IF Refused(m, r) # 0 THEN Handled(Refused(m, r), Blank, << >>)
                               ELSE Handled(0, m.name, Release(m.params, Params(r)))
<1>. DEFINE routed == {f \in Wrapped(Funcs) : f.owner = r.api /\ f.url = r.url}
<1>1. routed = {m}
  BY WrappedFuncs, MethodFacts
<1>2. (CHOOSE f \in routed : TRUE) = m
  BY <1>1
<1>. QED  BY <1>1, <1>2 DEF Generated

LEMMA GeneratedNot ==
  ASSUME NEW r, \A m \in Wrapped(Funcs) : ~(m.owner = r.api /\ m.url = r.url)
  PROVE  Generated(Funcs, r) = Handled(404, Blank, << >>)
<1>1. {f \in Wrapped(Funcs) : f.owner = r.api /\ f.url = r.url} = {}
  OBVIOUS
<1>. QED  BY <1>1 DEF Generated

\* The checked-in handlers answer every request as the generated ones would: the
\* same status, or the same method with the same parameters (new_api.go against
\* codegen.go's templates and the tags of api.go).
THEOREM NewApiIsGenerated == \A r \in Requests : Served(r) = Generated(Funcs, r)
<1>. SUFFICES ASSUME NEW r \in Requests PROVE Served(r) = Generated(Funcs, r)
  OBVIOUS
<1>. DEFINE query == Params(r)
<1>1. r.api \in {"MyApi", "OtherApi"} /\ r.auth \in BOOLEAN /\ Texts(query)
  BY RequestsAssumption, ParamsAreTexts
<1>2. CASE r.api = "MyApi" /\ r.url = "/user/profile"
  <2>. DEFINE m == ProfileMethod
  <2>1. m.name = "Profile" /\ m.params = ProfileParams /\ m.auth = FALSE /\ m.method = Blank
    BY MethodFacts
  <2>2. Served(r) = Wrap(0, ValidateProfileParams(query), "Profile")
    BY <1>2 DEF Served, MyServeHTTP, WrappedProfile
  <2>3. Generated(Funcs, r) = IF Refused(m, r) # 0 THEN Handled(Refused(m, r), Blank, << >>)
                              ELSE Handled(0, m.name, Release(m.params, query))
    BY <1>2, GeneratedCases, WrappedFuncs, MethodFacts
  <2>. HIDE DEF m, query
  <2>4. Refused(m, r) = IF Invalid(ProfileParams, query) THEN 400 ELSE 0
    BY <2>1 DEF Refused, query
  <2>. QED  BY <1>1, <2>1, <2>2, <2>3, <2>4, ProfileValidator DEF Wrap
<1>3. CASE r.api = "MyApi" /\ r.url = "/user/create"
  <2>. DEFINE m == CreateMethod
  <2>1. m.name = "Create" /\ m.params = CreateParams /\ m.auth = TRUE /\ m.method = "POST"
    BY MethodFacts
  <2>2. Served(r) = Wrap(Forbidden(r), ValidateCreateParams(query), "Create")
    BY <1>3 DEF Served, MyServeHTTP, WrappedCreate
  <2>3. Generated(Funcs, r) = IF Refused(m, r) # 0 THEN Handled(Refused(m, r), Blank, << >>)
                              ELSE Handled(0, m.name, Release(m.params, query))
    BY <1>3, GeneratedCases, WrappedFuncs, MethodFacts
  <2>. HIDE DEF m, query
  <2>4. Refused(m, r) = IF Forbidden(r) # 0 THEN Forbidden(r)
                        ELSE IF Invalid(CreateParams, query) THEN 400 ELSE 0
    BY <1>1, <2>1 DEF Refused, Forbidden, Blank, query
  <2>. QED  BY <1>1, <2>1, <2>2, <2>3, <2>4, CreateValidator DEF Wrap
<1>4. CASE r.api = "OtherApi" /\ r.url = "/user/create"
  <2>. DEFINE m == OtherCreateMethod
  <2>1. m.name = "Create" /\ m.params = OtherCreateParams /\ m.auth = TRUE /\ m.method = "POST"
    BY MethodFacts
  <2>2. Served(r) = Wrap(Forbidden(r), ValidateOtherCreateParams(query), "Create")
    BY <1>4 DEF Served, OtherServeHTTP, OtherWrappedCreate
  <2>3. Generated(Funcs, r) = IF Refused(m, r) # 0 THEN Handled(Refused(m, r), Blank, << >>)
                              ELSE Handled(0, m.name, Release(m.params, query))
    BY <1>4, GeneratedCases, WrappedFuncs, MethodFacts
  <2>. HIDE DEF m, query
  <2>4. Refused(m, r) = IF Forbidden(r) # 0 THEN Forbidden(r)
                        ELSE IF Invalid(OtherCreateParams, query) THEN 400 ELSE 0
    BY <1>1, <2>1 DEF Refused, Forbidden, Blank, query
  <2>. QED  BY <1>1, <2>1, <2>2, <2>3, <2>4, OtherCreateValidator DEF Wrap
<1>5. CASE r.url # "/user/create" /\ (r.api = "OtherApi" \/ r.url # "/user/profile")
  <2>1. Generated(Funcs, r) = Handled(404, Blank, << >>)
    BY <1>5, GeneratedNot, WrappedFuncs, MethodFacts
  <2>. QED  BY <1>1, <1>5, <2>1 DEF Served, MyServeHTTP, OtherServeHTTP
<1>. QED  BY <1>1, <1>2, <1>3, <1>4, <1>5

\* new_api.go has a validator for each struct the generator would make one for.
LEMMA ValidatorsAreGenerated == {t.name : t \in Validated(Types)} = Validators
<1>. DEFINE bad == {Type("ApiError", {Plain("Err", "error")}), Type("MyApi", {Plain("nextID", "uint64")}),
                    Type("User", {Plain("ID", "uint64")}), Type("NewUser", {Plain("ID", "uint64")}),
                    Type("OtherUser", {Plain("ID", "uint64")})}
            good == {Type("ProfileParams", ProfileParams), Type("CreateParams", CreateParams),
                     Type("OtherCreateParams", OtherCreateParams), Type("OtherApi", {})}
<1>1. Types = good \cup bad
  BY DEF Types
<1>2. \A t \in bad : \E f \in t.fields : f.type \notin {"string", "int"}
  <2>1. ASSUME NEW name, NEW field, NEW type, type \notin {"string", "int"}
        PROVE  \E f \in Type(name, {Plain(field, type)}).fields : f.type \notin {"string", "int"}
    <3>1. Plain(field, type).type = type /\ Type(name, {Plain(field, type)}).fields = {Plain(field, type)}
      BY DEF Plain, Type
    <3>. QED  BY <2>1, <3>1
  <2>. QED  BY <2>1
<1>3. \A t \in good : t.struct = TRUE /\ \A f \in t.fields : f.type \in {"string", "int"}
  <2>1. \A f \in ProfileParams \cup CreateParams \cup OtherCreateParams : f.type \in {"string", "int"}
    BY DEF ProfileParams, CreateParams, OtherCreateParams, Field
  <2>2. ASSUME NEW name, NEW fields, \A f \in fields : f.type \in {"string", "int"}
        PROVE  /\ Type(name, fields).struct = TRUE
               /\ \A f \in Type(name, fields).fields : f.type \in {"string", "int"}
    BY <2>2 DEF Type
  <2>. QED  BY <2>1, <2>2
<1>4. {t.name : t \in good} = Validators
  BY DEF Type, Validators
<1>. HIDE DEF good, bad
<1>5. Validated(Types) = good
  BY <1>1, <1>2, <1>3 DEF Validated
<1>. QED  BY <1>4, <1>5

LEMMA RespDomain == Spec => [](DOMAIN resp = Clients)
<1>1. Init => DOMAIN resp = Clients
  BY DEF Init
<1>2. ASSUME NEW c, NEW status, NEW body, Reply(c, status, body) PROVE DOMAIN resp' = DOMAIN resp
  BY <1>2 DEF Reply
<1>3. ASSUME NEW c, NEW r, ServeHTTP(c, r) PROVE DOMAIN resp' = DOMAIN resp
  BY <1>2, <1>3 DEF ServeHTTP, Return
<1>4. ASSUME NEW c, MethodStep(c) PROVE DOMAIN resp' = DOMAIN resp
  <2>1. CASE ProfileStep(c) \/ OtherCreate(c)
    BY <1>2, <2>1 DEF ProfileStep, ProfileBegins, RLock, ReadUser, RUnlock, OtherCreate, Return
  <2>2. CASE CreateStep(c)
    BY <1>2, <2>2 DEF CreateStep, CreateBegins, Lock, Locked, CheckUser, TakeID, BumpID, PutUser,
                      Unlock, Return
  <2>. QED  BY <1>4, <2>1, <2>2 DEF MethodStep
<1>5. DOMAIN resp = Clients /\ [Next]_vars => (DOMAIN resp = Clients)'
  <2>1. CASE Next
    <3>1. PICK c \in Clients : (\E r \in Requests : ServeHTTP(c, r)) \/ MethodStep(c)
      BY <2>1 DEF Next
    <3>. QED  BY <1>3, <1>4, <3>1
  <2>2. CASE UNCHANGED vars
    BY <2>2 DEF vars
  <2>. QED  BY <2>1, <2>2
<1>. QED  BY <1>1, <1>5, PTL DEF Spec

\* A request in a step of the server gets what the generator would give it, for any
\* requests with any texts in them: new_api.go was made from api.go as it is now.
THEOREM GeneratedStands == Spec => GeneratedIsCurrent
<1>. DEFINE Current ==
       /\ {t.name : t \in Validated(Types)} = Validators
       /\ \A c \in Clients : pc[c] = "idle" /\ <<pc[c], resp[c]>>' # <<pc[c], resp[c]>> =>
            \A r \in Requests : ServeHTTP(c, r) =>
              IF Wanted[r].status # 0 THEN pc'[c] = "idle" /\ resp'[c].status = Wanted[r].status
              ELSE pc'[c] = Entry(r, Wanted[r].method) /\ in'[c] = Wanted[r].params
<1>1. IInv /\ DOMAIN resp = Clients /\ [Next]_vars => [Current]_vars
  <2>. SUFFICES ASSUME IInv, DOMAIN resp = Clients, NEW c \in Clients, NEW r \in Requests, ServeHTTP(c, r)
                PROVE  IF Wanted[r].status # 0 THEN pc'[c] = "idle" /\ resp'[c].status = Wanted[r].status
                       ELSE pc'[c] = Entry(r, Wanted[r].method) /\ in'[c] = Wanted[r].params
    BY ValidatorsAreGenerated
  <2>1. Wanted[r] = Served(r)
    BY NewApiIsGenerated DEF Wanted
  <2>. QED  BY <2>1 DEF ServeHTTP, Return, Leave, Goto, Reply, Answer, IInv, TypeOK
<1>. QED  BY <1>1, Invariance, RespDomain, PTL DEF Spec, GeneratedIsCurrent

-----------------------------------------------------------------------------
(* The refinement of UserStore.  The step that reads or writes the map under *)
(* the lock is the one in which a call takes effect.                         *)

Looking  == {"rlock", "read"}
Creating == {"lock", "drain", "check", "take", "bump", "put"}

\* Whoever is past the first test of its method does not have the bad login.
LoginInv ==
  /\ DOMAIN resp = Clients
  /\ \A c \in Clients : /\ pc[c] \in Looking => in[c]["Login"] # "bad_user"
                        /\ pc[c] \in Creating => in[c]["Login"] # "bad_username"

\* A step of c that leaves the other clients alone and keeps to this.
LEMMA LoginMove ==
  ASSUME IInv, LoginInv, NEW c \in Clients, NEW l, Goto(c, l), DOMAIN resp' = DOMAIN resp,
         \A d \in Clients \ {c} : in'[d] = in[d],
         l \in Looking => in'[c]["Login"] # "bad_user",
         l \in Creating => in'[c]["Login"] # "bad_username"
  PROVE  LoginInv'
<1>1. pc' = [pc EXCEPT ![c] = l] /\ DOMAIN pc = Clients
  BY DEF Goto, IInv, TypeOK
<1>2. \A d \in Clients : pc'[d] = IF d = c THEN l ELSE pc[d]
  BY <1>1
<1>. QED  BY <1>2 DEF LoginInv

LEMMA NextLogin == IInv /\ LoginInv /\ [Next]_vars => LoginInv'
<1>. SUFFICES ASSUME IInv, LoginInv, [Next]_vars PROVE LoginInv'
  OBVIOUS
<1>1. CASE UNCHANGED vars
  BY <1>1 DEF vars, LoginInv
<1>2. ASSUME NEW c \in Clients, NEW r \in Requests, ServeHTTP(c, r) PROVE LoginInv'
  <2>1. PICK l \in {"idle", "profile", "create", "other"} : Goto(c, l)
    BY <1>2, EntryOfMethod DEF ServeHTTP, Return, Leave
  <2>2. DOMAIN resp' = DOMAIN resp /\ \A d \in Clients \ {c} : in'[d] = in[d]
    BY <1>2 DEF ServeHTTP, Return, Leave, Reply, IInv
  <2>. QED  BY <2>1, <2>2, LoginMove DEF Looking, Creating
<1>3. ASSUME NEW c \in Clients, ProfileStep(c) \/ OtherCreate(c) PROVE LoginInv'
  <2>1. DOMAIN resp' = DOMAIN resp /\ \A d \in Clients \ {c} : in'[d] = in[d]
    BY <1>3 DEF ProfileStep, ProfileBegins, RLock, ReadUser, RUnlock, OtherCreate, Return, Leave,
                Reply, IInv
  <2>2. PICK l \in {"idle", "rlock", "read", "runlock"} : Goto(c, l) /\ (l \in Looking => in'[c]["Login"] # "bad_user")
    BY <1>3 DEF ProfileStep, ProfileBegins, RLock, ReadUser, RUnlock, OtherCreate, Return, Leave,
                LoginInv, Looking
  <2>. QED  BY <2>1, <2>2, LoginMove DEF Creating
<1>4. ASSUME NEW c \in Clients, CreateStep(c) PROVE LoginInv'
  <2>1. DOMAIN resp' = DOMAIN resp /\ \A d \in Clients \ {c} : in'[d] = in[d]
    BY <1>4 DEF CreateStep, CreateBegins, Lock, Locked, CheckUser, TakeID, BumpID, PutUser, Unlock,
                Return, Leave, Reply, IInv
  <2>2. PICK l \in {"idle", "unlock"} \cup Creating : Goto(c, l) /\ (l \in Creating => in'[c]["Login"] # "bad_username")
    BY <1>4 DEF CreateStep, CreateBegins, Lock, Locked, CheckUser, TakeID, BumpID, PutUser, Unlock,
                Return, Leave, LoginInv, Creating
  <2>. QED  BY <2>1, <2>2, LoginMove DEF Looking, Creating
<1>. QED  BY <1>1, <1>2, <1>3, <1>4 DEF Next, MethodStep

LEMMA InitLogin == Init => LoginInv
  BY DEF Init, LoginInv, Looking, Creating

LEMMA LoginInvariance == Spec => [](IInv /\ LoginInv)
  BY InitIInv, Induction, InitLogin, NextLogin, PTL DEF Spec

LEMMA InitRefines == Init => Store!Init
<1>. SUFFICES ASSUME Init PROVE Store!Init
  OBVIOUS
<1>1. pc = [c \in Clients |-> "idle"] /\ Stage("idle") = "idle"
  BY DEF Init, Stage
<1>2. ~\E c \in Clients : pc[c] = "put"
  BY <1>1
<1>3. [c \in Clients |-> Stage(pc[c])] = [c \in Clients |-> "idle"]
  BY <1>1
<1>. QED  BY <1>2, <1>3 DEF Init, Store!Init, Store!None, Nothing, Answer

\* The statuses a wrapper refuses a request with.
LEMMA RefusedStatus == \A r : Served(r).status \in {0, 400, 403, 404, 406}
<1>1. ASSUME NEW status \in {0, 403, 406}, NEW validated, NEW name
      PROVE  Wrap(status, validated, name).status \in {0, 400, 403, 406}
  BY DEF Wrap, Handled
<1>2. \A r : Forbidden(r) \in {0, 403, 406}
  BY DEF Forbidden
<1>. QED  BY <1>1, <1>2 DEF Served, MyServeHTTP, OtherServeHTTP, WrappedProfile, WrappedCreate,
                          OtherWrappedCreate, Handled

LEMMA StepRefines == IInv /\ LoginInv /\ [Next]_vars => [Store!Next]_(Store!vars)
<1>. SUFFICES ASSUME IInv, LoginInv, [Next]_vars PROVE [Store!Next]_(Store!vars)
  OBVIOUS
<1>. DEFINE next == IF \E c \in Clients : pc[c] = "put" THEN nextID - 1 ELSE nextID
            stage == [c \in Clients |-> Stage(pc[c])]
<1>s. /\ Stage("idle") = "idle" /\ Stage("other") = "other"
      /\ \A l \in {"profile", "rlock", "read"} : Stage(l) = "profile"
      /\ \A l \in {"create"} \cup Creating : Stage(l) = "create"
      /\ \A l \in {"runlock", "unlock"} : Stage(l) = "answered"
  BY DEF Stage, Creating
<1>d. DOMAIN pc = Clients /\ DOMAIN in = Clients /\ DOMAIN resp = Clients /\ nextID \in Nat
  BY DEF IInv, TypeOK, LoginInv
<1>g. ASSUME NEW c \in Clients, NEW l, Goto(c, l)
      PROVE  /\ stage' = [stage EXCEPT ![c] = Stage(l)]
             /\ pc[c] # "put" /\ l # "put" /\ nextID' = nextID => next' = next
  <2>1. \A d \in Clients : pc'[d] = IF d = c THEN l ELSE pc[d]
    BY <1>g, <1>d DEF Goto
  <2>. QED  BY <2>1
<1>. HIDE DEF next, stage
\* A step within a stage, that answers nothing and leaves the users alone.
<1>q. ASSUME NEW c \in Clients, NEW l, Goto(c, l), Stage(l) = Stage(pc[c]),
             pc[c] # "put", l # "put", UNCHANGED <<users, nextID, in, resp>>
      PROVE  [Store!Next]_(Store!vars)
  <2>1. stage' = stage /\ next' = next
    BY <1>q, <1>g DEF stage
  <2>. QED  BY <1>q, <2>1 DEF Store!vars, next, stage
<1>1. ASSUME NEW c \in Clients, NEW r \in Requests, ServeHTTP(c, r) PROVE [Store!Next]_(Store!vars)
  <2>1. pc[c] = "idle" /\ stage[c] = "idle" /\ UNCHANGED <<users, nextID>>
    BY <1>1, <1>s DEF ServeHTTP, stage
  <2>2. CASE Served(r).status # 0
    <3>0. Return(c, Served(r).status, Nothing)
      BY <1>1, <2>2 DEF ServeHTTP
    <3>1. Goto(c, "idle")
      BY <3>0 DEF Return, Leave
    <3>2. stage' = stage /\ next' = next
      <4>1. stage' = [stage EXCEPT ![c] = "idle"] /\ next' = next
        BY <3>1, <2>1, <1>s, <1>g
      <4>2. stage = [d \in Clients |-> stage[d]]
        BY DEF stage
      <4>. QED  BY <2>1, <4>1, <4>2
    <3>3. Store!Refuse(c, Served(r).status)
      BY <2>1, <3>0, <3>1, <3>2 DEF Store!Refuse, Store!Forget, Store!Say, Store!None, Return, Leave, Reply,
         Answer, Nothing, stage, next
    <3>. QED  BY <2>2, <3>3, RefusedStatus DEF Store!Next
  <2>3. CASE Served(r).status = 0
    <3>. DEFINE k == [method |-> Entry(r, Served(r).method), params |-> Served(r).params]
    <3>1. Goto(c, k.method) /\ in' = [in EXCEPT ![c] = k.params] /\ Reply(c, 0, Nothing)
      BY <1>1, <2>3 DEF ServeHTTP
    <3>2. k.method \in {"profile", "create", "other"}
      BY EntryOfMethod
    <3>3. k \in Calls
      BY <2>3 DEF Calls
    <3>. HIDE DEF k
    <3>4. stage' = [stage EXCEPT ![c] = k.method] /\ next' = next
      BY <1>s, <1>g, <2>1, <3>1, <3>2
    <3>5. Store!Call(c, k)
      BY <2>1, <3>1, <3>4 DEF Store!Call, Store!Enter, Store!Say, Store!None, Reply, Answer, Nothing,
         stage, next
    <3>. QED  BY <3>3, <3>5 DEF Store!Next
  <2>. QED  BY <2>2, <2>3
<1>2. ASSUME NEW c \in Clients, ProfileBegins(c) \/ CreateBegins(c) PROVE [Store!Next]_(Store!vars)
  <2>1. CASE \/ pc[c] = "profile" /\ in[c]["Login"] # "bad_user"
             \/ pc[c] = "create" /\ in[c]["Login"] # "bad_username"
    <3>1. PICK l \in {"rlock", "lock"} : Goto(c, l) /\ Stage(l) = Stage(pc[c])
      BY <1>2, <2>1, <1>s DEF ProfileBegins, CreateBegins, Creating
    <3>. QED  BY <1>2, <2>1, <3>1, <1>q DEF ProfileBegins, CreateBegins
  <2>2. CASE /\ ~(pc[c] = "profile" /\ in[c]["Login"] # "bad_user")
             /\ ~(pc[c] = "create" /\ in[c]["Login"] # "bad_username")
    <3>0. /\ Return(c, 500, Nothing) /\ UNCHANGED <<users, nextID>>
          /\ \/ pc[c] = "profile" /\ in[c]["Login"] = "bad_user"
             \/ pc[c] = "create" /\ in[c]["Login"] = "bad_username"
      <4>1. CASE ProfileBegins(c)
        <5>1. pc[c] = "profile" /\ UNCHANGED <<users, nextID>>
          BY <4>1 DEF ProfileBegins
        <5>2. in[c]["Login"] = "bad_user"
          BY <2>2, <5>1
        <5>3. Return(c, 500, Nothing)
          BY <4>1, <5>2, Zenon DEF ProfileBegins
        <5>. QED  BY <5>1, <5>2, <5>3
      <4>2. CASE CreateBegins(c)
        <5>1. pc[c] = "create" /\ UNCHANGED <<users, nextID>>
          BY <4>2 DEF CreateBegins
        <5>2. in[c]["Login"] = "bad_username"
          BY <2>2, <5>1
        <5>3. Return(c, 500, Nothing)
          BY <4>2, <5>2, Zenon DEF CreateBegins
        <5>. QED  BY <5>1, <5>2, <5>3
      <4>. QED  BY <1>2, <4>1, <4>2
    <3>1. Goto(c, "idle")
      BY <3>0 DEF Return, Leave
    <3>2. stage' = [stage EXCEPT ![c] = "idle"] /\ next' = next /\ stage[c] = pc[c]
      BY <1>s, <1>g, <3>0, <3>1 DEF stage
    <3>3. Store!Fail(c)
      <4>1. Store!Bad(c)
        BY <3>0, <3>2 DEF Store!Bad, stage
      <4>2. Store!Enter(c, "idle") /\ UNCHANGED <<users, next>>
        BY <3>0, <3>2 DEF Store!Enter, stage
      <4>3. Store!Forget(c) /\ Store!Say(c, 500, Store!None)
        BY <3>0 DEF Store!Forget, Store!Say, Store!None, Return, Leave, Reply, Answer, Nothing
      <4>. QED  BY <4>1, <4>2, <4>3 DEF Store!Fail, stage, next
    <3>. QED  BY <3>3 DEF Store!Next
  <2>. QED  BY <2>1, <2>2
<1>3. ASSUME NEW c \in Clients, RLock(c) \/ Lock(c) \/ Locked(c) \/ TakeID(c) PROVE [Store!Next]_(Store!vars)
  <2>1. PICK l \in {"read", "drain", "check", "bump"} : Goto(c, l) /\ Stage(l) = Stage(pc[c]) /\ pc[c] # "put"
    BY <1>3, <1>s DEF RLock, Lock, Locked, TakeID, Creating
  <2>. QED  BY <1>3, <2>1, <1>q DEF RLock, Lock, Locked, TakeID
<1>4. ASSUME NEW c \in Clients, ReadUser(c) PROVE [Store!Next]_(Store!vars)
  <2>1. pc[c] = "read" /\ Goto(c, "runlock") /\ UNCHANGED <<users, nextID, in>> /\ in[c]["Login"] # "bad_user"
    BY <1>4 DEF ReadUser, LoginInv, Looking
  <2>2. stage' = [stage EXCEPT ![c] = "answered"] /\ next' = next /\ stage[c] = "profile"
    BY <1>s, <1>g, <2>1 DEF stage
  <2>3. Store!Lookup(c)
    BY <1>4, <2>1, <2>2 DEF ReadUser, Store!Lookup, Store!Bad, Store!Enter, Store!Say, Store!None, Reply, Answer,
       Nothing, stage, next
  <2>. QED  BY <2>3 DEF Store!Next
<1>5. ASSUME NEW c \in Clients, RUnlock(c) \/ Unlock(c) PROVE [Store!Next]_(Store!vars)
  <2>1. /\ pc[c] \in {"runlock", "unlock"} /\ Leave(c) /\ Goto(c, "idle")
        /\ UNCHANGED <<users, nextID, resp>>
    BY <1>5 DEF RUnlock, Unlock, Leave
  <2>2. stage' = [stage EXCEPT ![c] = "idle"] /\ next' = next /\ stage[c] = "answered"
    BY <1>s, <1>g, <2>1 DEF stage
  <2>3. Store!Return(c)
    BY <2>1, <2>2 DEF Store!Return, Store!Enter, Store!Forget, Store!None, Leave, Nothing, stage, next
  <2>. QED  BY <2>3 DEF Store!Next
<1>6. ASSUME NEW c \in Clients, CheckUser(c) PROVE [Store!Next]_(Store!vars)
  <2>1. pc[c] = "check" /\ UNCHANGED <<users, nextID, in>> /\ in[c]["Login"] # "bad_username"
    BY <1>6 DEF CheckUser, LoginInv, Creating
  <2>2. CASE in[c]["Login"] \in DOMAIN users
    <3>1. Reply(c, 409, Nothing) /\ Goto(c, "unlock")
      BY <1>6, <2>2 DEF CheckUser
    <3>2. stage' = [stage EXCEPT ![c] = "answered"] /\ next' = next /\ stage[c] = "create"
      BY <1>s, <1>g, <2>1, <3>1 DEF stage, Creating
    <3>3. Store!Conflict(c)
      BY <2>1, <2>2, <3>1, <3>2 DEF Store!Conflict, Store!Bad, Store!Enter, Store!Say, Store!None, Reply, Answer,
         Nothing, stage, next
    <3>. QED  BY <3>3 DEF Store!Next
  <2>3. CASE in[c]["Login"] \notin DOMAIN users
    <3>1. Goto(c, "take") /\ UNCHANGED resp /\ Stage("take") = Stage(pc[c])
      BY <1>6, <2>1, <2>3, <1>s DEF CheckUser, Creating
    <3>. QED  BY <2>1, <3>1, <1>q
  <2>. QED  BY <2>2, <2>3
<1>7. ASSUME NEW c \in Clients, BumpID(c) PROVE [Store!Next]_(Store!vars)
  <2>1. pc[c] = "bump" /\ Goto(c, "put") /\ nextID' = nextID + 1 /\ UNCHANGED <<users, in, resp>>
    BY <1>7 DEF BumpID
  <2>2. stage' = stage
    <3>1. stage' = [stage EXCEPT ![c] = Stage("put")]
      BY <1>g, <2>1
    <3>2. Stage("put") = "create" /\ Stage("bump") = "create"
      BY <1>s DEF Creating
    <3>3. stage[c] = "create" /\ stage = [d \in Clients |-> stage[d]]
      BY <2>1, <3>2 DEF stage
    <3>. QED  BY <3>1, <3>2, <3>3
  <2>3. ~(\E d \in Clients : pc[d] = "put") /\ \E d \in Clients : pc'[d] = "put"
    <3>1. \A d \in Clients : pc[d] \in {"bump", "put"} => writer = d
      BY DEF IInv, LockInv, Holding
    <3>2. pc'[c] = "put"
      BY <2>1, <1>d DEF Goto
    <3>. QED  BY <2>1, <3>1, <3>2
  <2>4. next' = next
    BY <1>d, <2>1, <2>3 DEF next
  <2>. QED  BY <2>1, <2>2, <2>4 DEF Store!vars, next, stage
<1>8. ASSUME NEW c \in Clients, PutUser(c) PROVE [Store!Next]_(Store!vars)
  <2>1. /\ pc[c] = "put" /\ Goto(c, "unlock") /\ UNCHANGED <<nextID, in>>
        /\ in[c]["Login"] # "bad_username" /\ in[c]["Login"] \notin DOMAIN users /\ nextID = id[c] + 1
        /\ id[c] \in Nat
    BY <1>8 DEF PutUser, LoginInv, Creating, IInv, HolderInv, TypeOK
  <2>2. stage' = [stage EXCEPT ![c] = "answered"] /\ stage[c] = "create"
    BY <1>s, <1>g, <2>1 DEF stage, Creating
  <2>3. next = id[c]
    BY <2>1 DEF next
  <2>4. next' = next + 1
    <3>1. \A d \in Clients : pc[d] = "put" => writer = d
      BY DEF IInv, LockInv, Holding
    <3>2. \A d \in Clients : pc'[d] = IF d = c THEN "unlock" ELSE pc[d]
      BY <2>1, <1>d DEF Goto
    <3>3. ~\E d \in Clients : pc'[d] = "put"
      BY <2>1, <3>1, <3>2
    <3>. QED  BY <2>1, <2>3, <3>3 DEF next
  <2>5. Store!Insert(c)
    BY <1>8, <2>1, <2>2, <2>3, <2>4 DEF PutUser, User, Store!Insert, Store!Bad, Store!Enter, Store!Say, Store!None,
       Reply, Answer, Nothing, stage, next
  <2>. QED  BY <2>5 DEF Store!Next
<1>9. ASSUME NEW c \in Clients, OtherCreate(c) PROVE [Store!Next]_(Store!vars)
  <2>1. pc[c] = "other" /\ Goto(c, "idle") /\ Leave(c) /\ UNCHANGED <<users, nextID>>
    BY <1>9 DEF OtherCreate, Return, Leave
  <2>2. stage' = [stage EXCEPT ![c] = "idle"] /\ next' = next /\ stage[c] = "other"
    BY <1>s, <1>g, <2>1 DEF stage
  <2>3. Store!Echo(c)
    BY <1>9, <2>1, <2>2 DEF OtherCreate, Return, Store!Echo, Store!Enter, Store!Forget, Store!Say, Store!None,
       Leave, Reply, Answer, Nothing, stage, next
  <2>. QED  BY <2>3 DEF Store!Next
<1>10. CASE UNCHANGED vars
  BY <1>10 DEF vars, Store!vars
<1>. QED
  BY <1>1, <1>2, <1>3, <1>4, <1>5, <1>6, <1>7, <1>8, <1>9, <1>10
  DEF Next, MethodStep, ProfileStep, CreateStep

\* Every call of Profile and Create takes effect at one moment between its request
\* and its answer, for any number of clients: the check, the id and the insertion
\* are one step of the store, and ids have no gaps (api.go:78-119).
THEOREM Refinement == Spec => ImplementsStore
  BY InitRefines, StepRefines, LoginInvariance, PTL DEF Spec, ImplementsStore, Store!Spec

-----------------------------------------------------------------------------
(* No request waits for ever for the lock. *)

Reading == {"read", "runlock"}

\* Who holds the lock is at a place where it will give it back.
GivesBack ==
  /\ writer # NoOne => pc[writer] \in Holding
  /\ readers = {c \in Clients : pc[c] \in Reading}

\* The guards of the steps of a method.
CanServe(c) ==
  \/ pc[c] \in {"profile", "create", "other"} \cup Reading \cup Holding
  \/ pc[c] \in {"rlock", "lock"} /\ writer = NoOne /\ \A d \in Clients : pc[d] # "drain"
  \/ pc[c] = "drain" /\ readers = {}

LEMMA InitGivesBack == Init => GivesBack
  BY DEF Init, GivesBack, Reading

LEMMA NextGivesBack == IInv /\ GivesBack /\ [Next]_vars => GivesBack'
<1>. SUFFICES ASSUME IInv, GivesBack, [Next]_vars PROVE GivesBack'
  OBVIOUS
<1>. USE ClientsAssumption DEF GivesBack, Reading, Holding
<1>d. /\ pc \in [Clients -> {"idle", "profile", "rlock", "read", "runlock", "create", "lock", "drain",
                             "check", "take", "bump", "put", "unlock", "other"}]
      /\ readers \subseteq Clients /\ writer \in Clients \cup {NoOne}
      /\ \A c \in Clients : pc[c] \in Holding => writer = c
      /\ \A c \in Clients : pc[c] = "drain" => writer = NoOne
  BY DEF IInv, TypeOK, LockInv
<1>m. ASSUME NEW c \in Clients, NEW l, Goto(c, l), UNCHANGED mu,
             l \in Reading <=> pc[c] \in Reading, l \in Holding <=> pc[c] \in Holding
      PROVE  GivesBack'
  <2>1. \A d \in Clients : pc'[d] = IF d = c THEN l ELSE pc[d]
    BY <1>m, <1>d DEF Goto
  <2>2. writer' = writer /\ readers' = readers
    BY <1>m DEF mu
  <2>3. writer' # NoOne => pc'[writer'] \in Holding
    BY <1>d, <1>m, <2>1, <2>2
  <2>4. \A d \in Clients : pc'[d] \in Reading <=> pc[d] \in Reading
    BY <1>m, <2>1
  <2>. QED  BY <2>2, <2>3, <2>4
<1>1. ASSUME NEW c \in Clients, NEW r \in Requests, ServeHTTP(c, r) PROVE GivesBack'
  <2>1. PICK l \in {"idle", "profile", "create", "other"} : Goto(c, l) /\ pc[c] = "idle" /\ UNCHANGED mu
    BY <1>1, EntryOfMethod DEF ServeHTTP, Return, Leave, Entry
  <2>. QED  BY <2>1, <1>m
<1>2. ASSUME NEW c \in Clients,
             ProfileBegins(c) \/ ReadUser(c) \/ CreateBegins(c) \/ Lock(c) \/ CheckUser(c)
               \/ TakeID(c) \/ BumpID(c) \/ PutUser(c) \/ OtherCreate(c)
      PROVE  GivesBack'
  <2>1. PICK l \in {"idle", "rlock", "runlock", "lock", "drain", "unlock", "take", "bump", "put"} :
          /\ Goto(c, l) /\ UNCHANGED mu
          /\ l \in Reading <=> pc[c] \in Reading
          /\ l \in Holding <=> pc[c] \in Holding
    BY <1>2 DEF ProfileBegins, ReadUser, CreateBegins, Lock, CheckUser, TakeID, BumpID, PutUser,
                OtherCreate, Return, Leave, mu
  <2>. QED  BY <2>1, <1>m
<1>3. ASSUME NEW c \in Clients, RLock(c) PROVE GivesBack'
  BY <1>3, <1>d DEF RLock, Goto
<1>4. ASSUME NEW c \in Clients, RUnlock(c) PROVE GivesBack'
  BY <1>4, <1>d DEF RUnlock, Leave, Goto
<1>5. ASSUME NEW c \in Clients, Locked(c) PROVE GivesBack'
  BY <1>5, <1>d DEF Locked, Goto
<1>6. ASSUME NEW c \in Clients, Unlock(c) PROVE GivesBack'
  BY <1>6, <1>d DEF Unlock, Leave, Goto
<1>7. CASE UNCHANGED vars
  BY <1>7 DEF vars, mu
<1>. QED
  BY <1>1, <1>2, <1>3, <1>4, <1>5, <1>6, <1>7 DEF Next, MethodStep, ProfileStep, CreateStep

\* While a request is not answered, some handler can go on: whoever holds the lock
\* gives it back, a writer waits only for readers that are in, and new readers only
\* for a writer (api.go:60-119).
THEOREM NoDeadlock ==
  Spec => []((\E c \in Clients : pc[c] # "idle") => \E c \in Clients : CanServe(c))
<1>1. ASSUME IInv, GivesBack, NEW c \in Clients, pc[c] # "idle" PROVE \E d \in Clients : CanServe(d)
  <2>1. CASE writer # NoOne
    <3>1. writer \in Clients /\ pc[writer] \in Holding
      BY <1>1, <2>1 DEF IInv, TypeOK, GivesBack
    <3>. QED  BY <3>1 DEF CanServe
  <2>2. CASE writer = NoOne /\ \E d \in Clients : pc[d] = "drain"
    <3>1. PICK d \in Clients : pc[d] = "drain"
      BY <2>2
    <3>2. readers = {} \/ \E e \in Clients : pc[e] \in Reading
      BY <1>1 DEF GivesBack
    <3>. QED  BY <3>1, <3>2 DEF CanServe
  <2>3. CASE writer = NoOne /\ ~\E d \in Clients : pc[d] = "drain"
    <3>1. pc[c] \in {"profile", "rlock", "create", "lock", "other"} \cup Reading \cup Holding
      BY <1>1, <2>3 DEF IInv, TypeOK, Reading, Holding
    <3>. QED  BY <2>3, <3>1 DEF CanServe
  <2>. QED  BY <2>1, <2>2, <2>3
<1>2. IInv /\ GivesBack => ((\E c \in Clients : pc[c] # "idle") => \E c \in Clients : CanServe(c))
  BY <1>1
<1>. QED  BY <1>2, InitIInv, Induction, InitGivesBack, NextGivesBack, PTL DEF Spec

\* How many steps a handler has before it at most.
StepsLeft ==
  [idle |-> 0, runlock |-> 1, unlock |-> 1, other |-> 1, read |-> 2, put |-> 2, rlock |-> 3, bump |-> 3,
   profile |-> 4, take |-> 4, check |-> 5, drain |-> 6, lock |-> 7, create |-> 8]

\* A handler is at most eight steps from its answer, each step of it brings it
\* nearer and no other handler's step takes it back: with NoDeadlock, the lock is
\* passed on until everyone is answered (api.go:60-119).
THEOREM AnswerComesNearer ==
  Spec => [][\A c \in Clients : pc[c] # "idle" =>
               \/ pc'[c] = pc[c]
               \/ MethodStep(c) /\ StepsLeft[pc'[c]] < StepsLeft[pc[c]]]_vars
<1>1. ASSUME IInv, Next, NEW c \in Clients, pc[c] # "idle", pc'[c] # pc[c]
      PROVE  MethodStep(c) /\ StepsLeft[pc'[c]] < StepsLeft[pc[c]]
  <2>1. PICK d \in Clients : (\E r \in Requests : ServeHTTP(d, r)) \/ MethodStep(d)
    BY <1>1 DEF Next
  <2>2. \E l : pc' = [pc EXCEPT ![d] = l]
    BY <2>1 DEF ServeHTTP, MethodStep, ProfileStep, ProfileBegins, RLock, ReadUser, RUnlock, CreateStep,
                CreateBegins, Lock, Locked, CheckUser, TakeID, BumpID, PutUser, Unlock, OtherCreate,
                Return, Leave, Goto
  <2>3. d = c
    BY <1>1, <2>2 DEF IInv, TypeOK
  <2>4. MethodStep(c)
    BY <1>1, <2>1, <2>3 DEF ServeHTTP
  <2>5. \/ pc[c] \in {"profile", "other"} /\ pc'[c] \in {"rlock", "idle"}
           /\ (pc[c] = "other" => pc'[c] = "idle")
        \/ pc[c] = "rlock" /\ pc'[c] = "read"
        \/ pc[c] = "read" /\ pc'[c] = "runlock"
        \/ pc[c] \in {"runlock", "unlock"} /\ pc'[c] = "idle"
        \/ pc[c] = "create" /\ pc'[c] \in {"lock", "idle"}
        \/ pc[c] = "lock" /\ pc'[c] = "drain"
        \/ pc[c] = "drain" /\ pc'[c] = "check"
        \/ pc[c] = "check" /\ pc'[c] \in {"take", "unlock"}
        \/ pc[c] = "take" /\ pc'[c] = "bump"
        \/ pc[c] = "bump" /\ pc'[c] = "put"
        \/ pc[c] = "put" /\ pc'[c] = "unlock"
    <3>1. \A l : Goto(c, l) => pc'[c] = l
      BY <1>1 DEF Goto, IInv, TypeOK
    <3>. QED
      BY <2>4, <3>1 DEF MethodStep, ProfileStep, ProfileBegins, RLock, ReadUser, RUnlock, CreateStep,
         CreateBegins, Lock, Locked, CheckUser, TakeID, BumpID, PutUser, Unlock, OtherCreate,
         Return, Leave
  <2>6. StepsLeft[pc'[c]] < StepsLeft[pc[c]]
    BY <2>5 DEF StepsLeft
  <2>. QED  BY <2>4, <2>6
<1>2. IInv /\ [Next]_vars => [\A c \in Clients : pc[c] # "idle" =>
               \/ pc'[c] = pc[c]
               \/ MethodStep(c) /\ StepsLeft[pc'[c]] < StepsLeft[pc[c]]]_vars
  BY <1>1
<1>. QED  BY <1>2, InitIInv, Induction, PTL DEF Spec
=============================================================================
