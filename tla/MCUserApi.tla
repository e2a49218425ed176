----------------------------- MODULE MCUserApi -----------------------------
(* An instance of UserApi for TLC, with logins of nine and of ten bytes. *)
EXTENDS UserApi, TLC

CONSTANTS c1, c2

MCClients == {c1, c2}

MCLength == ("" :> 0) @@ ("nine_long" :> 9) @@ ("ten__long_" :> 10) @@ ("new_moder_" :> 10)
            @@ ("bad_username" :> 12) @@ ("bad_user" :> 8) @@ ("rvasily" :> 7) @@ ("Ivan" :> 4)
            @@ ("user" :> 4) @@ ("admin" :> 5) @@ ("adm" :> 3) @@ ("ab" :> 2) @@ ("warrior" :> 7)
            @@ ("-1" :> 2) @@ ("0" :> 1) @@ ("1" :> 1) @@ ("50" :> 2) @@ ("51" :> 2) @@ ("128" :> 3) @@ ("129" :> 3)

MCNumber == ("-1" :> -1) @@ ("0" :> 0) @@ ("1" :> 1) @@ ("50" :> 50) @@ ("51" :> 51) @@ ("128" :> 128) @@ ("129" :> 129)

MCLower == ("Login" :> "login") @@ ("Name" :> "name") @@ ("Status" :> "status") @@ ("Age" :> "age")
           @@ ("Username" :> "username") @@ ("Class" :> "class") @@ ("Level" :> "level")

None == << >>
Request(api, url, method, auth, query, body) ==
  [api |-> api, url |-> url, method |-> method, auth |-> auth, query |-> query, body |-> body]

Create(l, s, a) == ("login" :> l) @@ ("status" :> s) @@ ("age" :> a) @@ ("full_name" :> "Ivan")
Post(url, auth, query, body) == Request("MyApi", url, "POST", auth, query, body)
OtherPost(name, class, level) ==
  Request("OtherApi", "/user/create", "POST", TRUE, None,
          ("username" :> name) @@ ("level" :> level) @@ ("class" :> class))

MCRequests ==
  {Request("MyApi", "/user/profile", "GET", FALSE, "login" :> l, None) :
     l \in {"", "bad_user", "ten__long_"}}
  \cup {Post("/user/create", TRUE, None, Create(l, "", "128")) :
          l \in {"nine_long", "ten__long_", "bad_username"}}
  \cup {Post("/user/create", TRUE, None, Create("new_moder_", s, "0")) : s \in {"admin", "adm"}}
  \cup {Post("/user/create", TRUE, None, Create("ten__long_", "", a)) : a \in {"", "-1", "129"}}
  \cup {Post("/user/create", TRUE, "age" :> "1", "login" :> "ten__long_"),
        Post("/user/profile", FALSE, "login" :> "ten__long_", "login" :> "rvasily"),
        Request("MyApi", "/user/create", "GET", TRUE, Create("ten__long_", "", "0"), None),
        Post("/user/create", FALSE, None, Create("ten__long_", "", "0")),
        Request("MyApi", "/user/unknown", "GET", FALSE, None, None)}
  \cup {OtherPost("rvasily", class, "1") : class \in {"", "adm"}}
  \cup {OtherPost(name, "warrior", "50") : name \in {"ab", "adm"}}
  \cup {OtherPost("rvasily", "", level) : level \in {"0", "51"}}
=============================================================================
