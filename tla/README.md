# Verification of golang_tuition

The repository holds eight homework programs of a Go course.  Each is a small,
self-contained system; the ones with concurrency, a protocol or a validation
contract are modelled here in TLA+, checked with TLC on small instances, and the
properties that matter most are proved with TLAPS for every value of the
constants.  Paths below are relative to the repository root (`src/`).

## 1. The system and its parts

| Part | Code | State | Operations | Module | Status |
|---|---|---|---|---|---|
| Event bus | `hw7_microservice/service.go:100-354` | `AdminManager` (channel, mutex, lists of loggers and staters), one channel per subscriber, a `Stat` per statistics stream | `GenerateEvt`, `AddLogger`, `AddStater`, the manager goroutine, `Logging`, `Statistics`, `Check/Add/Test` | `AdminManager`, `EventFanout` | modelled |
| Service lifecycle | `service.go:356-400`, grpc `Server.Serve/Stop` | contexts, error channel, listener | `StartMyMicroservice` and its three goroutines | `Lifecycle` | modelled |
| Access control | `service.go:26-133` | none between calls | the unary and the stream interceptor | `Acl` | modelled |
| Signer pipeline | `hw2_signer` | channels between stages, wait groups, md5 mutex, overheat flag | `ExecutePipeline`, `SingleHash`, `MultiHash`, `CombineResults` | `Signer` | modelled |
| Database explorer | `hw6_db_explorer/db_explorer.go` | the schema read at start; the database's rows | `NewDbExplorer`, six handlers | `DbExplorer` | modelled |
| User API | `hw5_codegen/api.go`, `new_api.go` | users, `nextID`, RWMutex | wrappers, `Profile`, `Create` (two APIs) | `UserApi`, `UserStore` | modelled |
| Code generator | `hw5_codegen/handlers_gen` | none | reads comments, tags and types, writes wrappers and validators | `HandlersGen` | modelled |
| Search client | `hw4_test_coverage` | none between calls | `FindUsers`, `SearchServer`, `ProcessQuery` | `SearchPaging` | modelled |
| Directory tree | `hw1_tree/main.go` | the file system it walks | `dirTree`: `InspectDir`, `StringifyPoints` | `DirWalk`, `DirTree` | modelled |
| Fast search | `hw3_bench` | a `sync.Pool` with texts of the data file | `FastSearch`, `SlowSearch` | `FastSearch` | modelled |
| i2s | `hw8_i2s/i2s.go` | the caller's variable | `i2s` and its recursion | `I2s` | modelled |
| Lecture example of a generator | `hw5_codegen/example` | none | | - | not modelled |
| Generated and vendored code | `service.go:402-1121`, `hw7_microservice/vendor`, protoc | | | - | not modelled |

How they interact.  The programs do not call one another.  Inside hw7 the parts
do: `StartMyMicroservice` builds the interceptors, the manager and the server; an
interceptor lets a call through to a handler; every handler first puts an event
on the bus; the stream handlers then register with the manager and forward what
arrives; `finishAdmin` cancels the context all of them derive theirs from.
`Lifecycle` has the manager goroutine only as something that runs and then returns or
gets stuck; `AdminManager` has its work, and of the lifecycle only `finishAdmin` and
`server.Stop`.  In hw5 the generator reads `api.go` and writes `new_api.go`, which
is checked in: `UserApi` has the checked-in code and EXTENDS `HandlersGen`, the
generator, so that the two can be compared.

What is hard:

- **hw7 bus**: registrations, slow clients, departures and shutdown race the one
  goroutine that copies events; it holds the mutex while it sends on bounded
  channels, and handlers close their own channels.
- **hw7 lifecycle**: `Stop` may come before `Serve`; a result may be sent when
  nobody receives it; a restart on the same port races the old `Stop`.
- **hw2**: a goroutine per value on unbuffered channels, a shared global flag
  guarded by a mutex in another file, results that must not depend on timing.
- **hw6**: the handlers check a body against a schema read at start, then run a
  statement, with other clients in between.
- **hw5**: check-then-insert and read-then-increment under one lock, an early
  return with the lock held, a pointer used after the lock is let go.
  Nothing ties the checked-in wrappers to the tags they were generated from.
- **hw4**: the off-by-one of "ask for one more", a cap on the page, offsets at
  the end, retries.
- **hw3**: calls share texts through a pool that may lose them, and each call
  eats the text it got.
- **hw8**: an error in the middle of a structure leaves a part of it written, and
  slices are appended to from call to call.
- **hw1**: one system call after the other on a tree that others may change.

`PROJECT.json` lists the hazards at their lines with the properties that would
catch each one going wrong.

## 2. Modules, and how they correspond to the code

### AdminManager, EventFanout (hw7 bus)

An RPC is a constant and makes one event, so the RPC stands for its event.  A Go
channel is the sequence of everything ever sent on it (`log`, `sub[s]`) with the
number of elements received (`taken`, `rd[s]`); it is full when the difference
is its capacity.  `pc` is where each handler is, `mpc` where the manager
goroutine is (`select`, `lock`, `loggers`, `staters`, `statput`, `stopped`, and
`panic`, after which nothing moves).  One action per channel operation, lock and
return:

| Action | Code |
|---|---|
| `GenerateEvt` | 143-152, the send on `AdminManager.Chan` |
| `AddLogger`, `AddStater` | 219-249, under the mutex, which the manager holds in a round (`Locked`) |
| `MgrDone`, `MgrRecv`, `MgrLock` | 184-197 |
| `MgrSendLogger`, `MgrLoggersDone` | 198-201; the send panics if `Logging` has closed the channel |
| `MgrCheckStater`, `MgrSendStater`, `MgrUnlock` | 201-211, with `newStaters` as `kept` |
| `LoggerRecv`, `LoggerSend`, `LoggerEnd` | 260-272 |
| `StaterCount`, `StatTick`, `StaterEnd` | 289-326 |
| `FinishAdmin`, `ServerStop`, `PropagateCancel`, `Disconnect` | 387-397, context cancellation, the client leaving |

`EventFanout` says what the bus promises, without channels or locks: events in
one order, handed out in rounds; a subscriber joins between rounds and gets every
event from then on, once and in order, until it leaves.  `ImplementsFanout` is
the refinement (`history <- log`, `front <- Dispatched`, `active <-` both lists,
`from <- base`, `view <- sub`).  `base` and `reported` are history variables.

### Lifecycle (hw7 StartMyMicroservice)

Several services on one address.  `main` is the call, `manager`, `server` and
`stopper` its three goroutines, `errChan` channel `c`, `port` who listens, `quit`
the services whose `Stop` has fired.  `Listen` starts the goroutines, or returns
the error with the manager running.  The manager looks at adminCtx only in its select
(`service.go:184-185`), so it may return (`ManagerReturns`) or, once a client has
connected (`ClientConnects`), be left for ever at a send nobody receives, mutex held
(`ManagerStuck`, 196-207): `AdminManager` shows in `bus_leak` that it can be.  The panic of
`bus_panic` ends the process with every service in it and is no state here.  `StopServer` closes the listener if `Serve`
has registered it; otherwise `ServeBegins` finds the server stopped and closes it
itself, as the vendored `Server.Serve` does (`server.go:609-616`).

### Acl (hw7 interceptors)

One action per step of `NewStreamACLInterceptor`, which the unary one shares
except for the renaming of "AdminManager" (`RewriteMethod`): `method` is the name that was
called and `methName` the one the loop compares.  Then metadata, exactly one consumer, its entry, the loop over
the patterns.  Methods and patterns are short sequences of symbols; a pattern's
last symbol may be the star.

### Signer (hw2)

`ExecutePipeline` over the five jobs of the tests: source, SingleHash, MultiHash,
CombineResults, sink.  Each value has a SingleHash worker (crc of the value, md5
under the mutex, crc of the md5) and a MultiHash worker with `CycleNum`
goroutines.  The `md5` steps split `OverheatLock`/`Unlock`, so that two of them
could meet.  `feedback`, chosen initially, is whether the source waits for each
answer before it sends the next value.  A hash is what `MultiHash` joins: the number
`Rank` gives the value, which stands for its place among the strings, and the parts in
their order.  `Sorted` is `sort.Strings`: a permutation in ascending order.

### DbExplorer (hw6)

`NewDbExplorer` reads the schema or fails.  A handler has two steps: up to its
statement (`TablesList`, `ByTable`, `ByIndex` with `ItemPut` and `ItemPost`), and
the statement with the answer (`RunRead`, `RunInsert`, `RunUpdate`, `RunDelete`,
or `DbFails`).  The database is what the handlers rely on: rows by id, an
auto_increment counter, a key of 0 takes the counter.

### HandlersGen, UserApi, UserStore (hw5)

`HandlersGen` is the generator of `codegen.go` as operators of the declarations it
reads.  `Wrapped` and `Validated` are the methods and structs it generates code
for; `Generated` is what that code does with a request: `Refused` for the wrapper
(authorisation, method, validation in that order), `Invalid` and `Release` for the
validator (parameter names, defaults before enums, bounds on bytes or values).
`UserApi` is the other side: `Types` and `Funcs` are the declarations of `api.go`,
the `Validate...` operators and `ServeHTTP` the checked-in `new_api.go`, and then
every step of `Profile` and `Create`.  The RWMutex is its writer and
its readers; `Lock` is two steps, as in Go: it keeps new readers out, then waits
for the present ones.  `UserStore` is what `MyApi` promises: a call takes effect in
one step between its request and its answer, the answer is what that step gives, and
ids have no gaps.  `ImplementsStore` is the refinement: a call is in the store what
`Stage` makes of its handler's `pc`, and an id is taken in the store when the user is put,
not when `nextID` is read or incremented.

### SearchPaging (hw4)

`FindUsers`, `SearchServer`, `DoFails`, `Interpret` are the client and the
service; `Walk` is a caller who asks for the next page while there is one, from
behind the users it has, and again after a timeout.  Two errors the client drops are
there too: `badUrl`, for which `http.NewRequest` makes no request and the next line panics
(`client.go:90-91`), and `BodyIsCut`, a body that ends or times out while it is read
(`client.go:101`) and then does not parse.  `order` is what `sort.Slice`
returns: any order of records that compare equal, the same for every page.

### FastSearch (hw3)

Calls of `FastSearch` on one `filePool`.  `GetNew` is the pool's `New`, which reads
the file, `GetPooled` a text another call put back; the pool is a set that may lose
an element at any time (`Collect`).  `ScanLine` is one turn of the loop: it cuts the
line off `data`, decodes it, counts browsers and, if the user is found, keeps an
entry; `PanicOnDecode` and `PanicOnCut` are the two panics, with the deferred `Put`;
`PrintFound` and `PutText` are the end.  A line is what the loop asks of it: whether
it is JSON, its browsers, the "@" in its e-mail.  `origin` is a history variable:
the call that read the text another works on.  `SlowPanics`, `SlowEntries` and
`SlowBrowsers` are `SlowSearch` of `common.go`, the reference.

### I2s (hw8)

`Decode` is a call of `i2s` on a variable that earlier calls have written to.  The calls
of `i2s_impl` under way (`Impl`) are the stack `decoding`, each with the value it writes to
and the field of `m2s` or the element of `s2s` it is at.  `NextField` and `NextElement` make
the next call, `SetScalar`, `LoopEnds` and `Error` return from one, and `After` is what
its caller does with the answer, so that what was written before an error stays.
`Fits`, `Merged` and `PartlyMerged` are the reference: the data of a type, what it makes of
a value, and what data that does not fit makes of it.  They and `Zero` go by recursion
over data and types; `FitsBy`, `MergedBy`, `PartlyMergedBy` and `ZeroBy` are one step of
it, and the assumptions say that each is a solution of its equation, which for data
and types of finite depth is the only one.  TLC is given the recursive operators and
evaluates the assumptions on them.

### DirWalk, DirTree (hw1)

`DirWalk` is `InspectDir` with its system calls as steps (`Lstat`, `Readdir` for `Open`
and the names, `StatName` for the lookup of one name) and its recursion on `stack`.
Between any two steps other processes may remove a path or put another node there
(`RemovePath`, `PutPath`).  `[]FSPoint`, whose directories hold their own `[]FSPoint`,
is kept flat: a sequence of points with their paths, each directory before what is in
it; `Ascend` is the `append` of a `Directory` with its `Insides`.  `always` and `ever`
are history variables: the entries that were there in every state and in some state.
`DirTree` adds the text.  The calls of `StringifyPoints` are the stack `drawing`, each with
its directory, its prefix and the point it looked at last: `CallStringify` begins,
`DrawPoint` is one turn of the loop with the recursive call it makes for a directory,
`StringifyReturns` is the return of such a call, and `Write` hands the whole text over in one
call.  Each call appends what it was returned to its own `s`, so the lines of all of them
are one sequence, `drawn`.

## 3. The runs

| Run | Instance | Shows |
|---|---|---|
| `bus_fanout` | 2 loggers, 1 of whom may leave, 1 statistics stream, 1 call, server up | the refinement; nobody behind between rounds; no panic and no waiting for the dead while nothing is finishing |
| `bus_live` | 1 + 1 subscribers that stay, 1 call, shutdown at any moment | streams are pieces of the one order; registrations are not lost; reports neither repeat nor lose an event; calls return, subscribers catch up, handlers end at shutdown |
| `bus_panic` (violated) | 1 logger, 1 call, shutdown | `NeverPanics` fails |
| `bus_leak` (violated) | 1 statistics stream, 2 calls, shutdown | `ManagerReturns` fails |
| `bus_starve` (violated) | 2 loggers, one leaves, 1 call | `OthersKeepReceiving` fails |
| `service` | 3 calls on one address, one with a bad ACL; lists of up to 2 patterns out of 7, up to 2 names | one acceptor at a time; ports freed; once a service is finished, or its Serve has failed, its port is free and no goroutine is left but a manager that is stuck, and none at all if its listen failed.  The interceptors' loop grants exactly what a declarative reading grants, by the renamed method for a stream; it panics only on an empty pattern |
| `signer` | 3 values, 2 equal, 2 hashing goroutines | no overheating, no send on a closed channel, one result, the pipeline ends |
| `explorer` | 2 clients, 2 databases, 10 bodies | rows stay well typed, ids do not come back, only the named record changes |
| `users` | 2 clients, 15 requests around every boundary | unique ids, each call atomic to its client (the refinement of `UserStore`, whose users are for good), every request answered, and the checked-in wrappers do what the generator would make of `api.go` now |
| `search` | 5 records, pages of at most 2, 6 limits, 6 offsets | next page iff more; a walk collects every record once; a page that announces another leads on, unless it was asked for no records |
| `exercises` | 3 FastSearch calls on files of up to 3 segments out of 7; i2s calls on one variable of 7 types, again and again; 4 trees, 2 changes under the walk | a FastSearch that reads the file prints what SlowSearch finds up to the last line break; i2s succeeds exactly on data that fits and leaves exactly the prefix when it fails; the walk returns what was there all the time, in order, and the tree is drawn right |
| `pool_stale` (violated) | 2 FastSearch calls on files of up to 3 lines, one "@" an e-mail, nobody who counts on the last line | `FastMatchesSlow` fails |

Bounds.  Channel capacities are 1 where the code has 10: full and empty are then
one event apart, so blocking, which is what capacity decides, happens in every
run.  `bus_live` has no departures, so that its
liveness may be asked for, and `bus_fanout` has them; the invariants of both are
proved with departures and shutdown together (section 4).
Two subscribers are the fewest of which one can be the other's obstacle;
two clients of the database or of the users the fewest that race.  `CycleNum` is
2 for 6: enough to finish out of order.  `MaxLimit` is 2 for 25.  `MaxId`
(explorer) stops insertions after two records a table, enough to delete one and
try its id again.  Events are bounded by the set of RPCs, each of which calls
once.  Three
FastSearch calls let a text be read, put back, taken and put back again while a
third reads the file anew; three segments are two lines and the end.  `Values` is
what the variable may hold for `i2s` to be called once more: slices of up to two elements of
one kind, so that every call meets both a variable that is empty and one that calls before
it have filled.  `MaxChanges` is 2, so
that an entry can go and come back as something else; `MaxDepth` is 3, one below
the deepest tree.  The three programs of `exercises` share nothing: an initial state
picks one of them and the others rest, so the run is their three runs side by side; so is
`service`, of `Lifecycle` and `Acl`.
Nothing else is bounded.  `explorer` identifies states that differ
only in which client is which; its properties speak of all clients alike, and
none is a liveness property.

`CHECK_DEADLOCK FALSE` everywhere: all RPCs made, a finished pipeline, a full
table or a walk that is over are states in which the system really stops.

Fairness.  In the bus every goroutine that can go on does (`WF`), the Go
scheduler being fair; nothing forces a client to call or to leave, the caller to
finish, or the timer to fire.  `AddLogger` and the mutex compete with a manager
that must take events to lock again, of which there are finitely many, so `WF`
is enough.  `LoggerEnd` and `StaterEnd` have their own `WF`: `select` picks at
random between ready cases.  `Lifecycle` has `WF` for the server and the stopper, and a
manager that is told to end either gets back to its select and returns or gets stuck on the
way: nothing says which.  No client need come and no listener need fail.  `Signer` has it
for some goroutine, since every step is taken at most once.  `UserApi` has `SF`
for a handler's steps: `sync.RWMutex` lets a writer in when the readers before
it are gone, readers in when a writer leaves, and its mutex hands over to a
waiter that has waited long.

### Where the code and what is said of it part

Shown by a run (see `findings` in `PROJECT.json`):

1. `bus_panic`: `Logging` closes its channel when its context is done
   (`service.go:262`); the manager, in the middle of a round, sends on it.
2. `bus_leak`: `Statistics` returns without draining its channel; the manager
   blocks on the full channel, holding the mutex, and never returns.
3. `bus_starve`: `Logging` returns on a Send error without cancelling its view;
   the manager fills the channel nobody reads, and then everybody waits.
4. `pool_stale`: `FastSearch` puts back into the pool what is left of the text it has
   consumed (`fast.go:48-51`, 68), so a later call that gets it prints nobody and no
   browser, while `main_test.go:28` wants what `SlowSearch` prints.  The test is exposed to it:
   `init` at lines 11-14 has called `FastSearch` before `TestSearch` does, and the
   benchmark calls it many times.  Only a garbage collection, or a pool of another
   processor, gives the test a text that is fresh.  `PooledCallFindsNobody` (section 4) is the
   extent of it.

Met while modelling, visible in the models, with no run of their own:

- hw7: a logger may receive its own `Logging` event: only a sleep of 200
  microseconds (`service.go:253-257`) stands between the event and the
  registration, while `service_test.go:265-269` expects not to see it.
- hw7: a failing `net.Listen` (`service.go:376-379`) returns with the manager
  goroutine running; only the caller's context ends it.
- hw6: `hw6.md` names `PUT /$table`; the code takes `PUT /$table/` and answers
  400 to the other.  A POST body with no known field gives 500 (`SET =?`), while
  hw6.md says unknown fields are ignored.  JSON numbers are float64, so an int
  column cannot be set; and no MySQL type is called float64, so a table with a
  float column makes `NewDbExplorer` fail.
- hw5: `hw5.md` orders errors as method, authorisation, parameters; the wrappers
  check the authorisation first.
- hw4: `client.go:55` says -1 sorts descending and 1 ascending; the constants
  (`client.go:43-45`) and the service have it the other way round, and "as is"
  sorts ascending.  The query is documented as a substring; the service takes it
  as the name of a field and filters nothing.  An offset at or past the end
  returns the last record.  A limit of 0 passes `client.go:71` and, while there are
  records, gives an empty page that claims a next one: a caller who follows it never gets
  on (`PagesAdvance` excepts it).  The errors of `http.NewRequest` and `ioutil.ReadAll` are dropped
  (`client.go:90`, 101): the one leads to a panic, the other to "cant unpack", and a
  timeout while the body is read is not reported as one.
- hw3: `FastSearch` never looks at a last line without a line break, and `SlowSearch`
  panics on the empty segment after a last line break.  An e-mail with several "@" has all of them
  replaced by `SlowSearch`, and only the first by `FastSearch`.
- hw8: a call that fails has changed the variable, and a slice is appended to rather
  than replaced.
- hw5: a struct with one field of another type gets no validator, with no message
  (`HandlersGen.Validated`).

## 4. What is proved

All theorems hold for every value of the constants that meets the named
assumptions of the module; none assumes fairness.

- **AdminManagerProofs** (assumes `DisjointRpcs`, `CapAssumption`,
  `EventAssumption`, `EnvAssumption`).  `Invariance` proves the inductive
  invariant `IInv`.  The safety properties alone are not inductive: that nobody
  is behind between rounds needs to be said of every point of a round.
  `RoundInv` therefore places each listed subscriber: a logger before the
  manager's index has the event in hand and one after it has not; so for the
  statistics streams, except that one passed over has a done context; `kept` is
  the list of those that have it; handlers that have not registered are on no
  list.  From it: `StreamsAreSegments`, `NobodyBehind`, `NoRegistrationLost`,
  `PanicOnlyInShutdown`, `StaterDrops`, and `Refinement`: every step of the bus is a
  `Publish`, `Join`, `Deliver`, `EndRound` or a stutter of `EventFanout`.
  `TypeCorrect` has the channel bounds and the manager's index in range.
  `WaitsForReaders` needs two more facts (`HandlersInv`): a
  handler fails only when its own client is gone, and only loggers have a "send"
  state.  `StatsAreExact` needs that a report never runs ahead of what was received;
  its lemmas on cardinalities (`CountNext`) say that one event more is counted once.
  `NoDeadlock`: while the server is up, a handler that waits to put its event on the bus
  or to subscribe is in no deadlock; if the manager waits for room in a channel, the
  handler it waits for can go on, unless that one's client is gone.  That exception is
  `bus_starve`.  `WorkRunsOut`: of finitely many RPCs, each step but a timer's report ages a
  handler, the manager (by event, part of its round, subscriber) or the server's life, nothing gets
  younger, and the ages are bounded, since each RPC puts its event on the bus once (`OnceInv`).
- **LifecycleProofs** (`ServiceAssumption`, `NoneAssumption`): `PortIsExclusive` and
  `PortIsFreed`, from an invariant that ties the port to the state of its owner's
  server and stopper.  `WakeInv` adds who may wait for whom: a
  service that has started has both its server and its stopper; what Serve returned is in the
  channel as long as the stopper waits for it; a server drains only after `Stop`; a stopper that
  has got to `Stop` has ended adminCtx, which otherwise ends only with the caller's context; a call
  at `net.Listen` has its manager running until then.  From it `CleanUpNeverStuck` (on its
  way to the end its server or its stopper can always take a step, whatever the manager does,
until both have ended, the port is free of it and the manager has been told to end: nobody
waits for the manager, which may be stuck), `EndIsFinal`
  (it never leaves that way, nor comes back) and `ListenErrorLeaks` (the manager that
  a failed Listen leaves behind).  `LifeRunsOut`: each step makes one service older and
  touches the age of no other, and nobody gets older than 16, so that the way to the end is
  a short one.
- **AclProofs** (the five assumptions of `Acl`, which say only that patterns and
  methods are sequences of symbols and that the bounds are numbers):
  `HandlersAreGuarded`, `GrantedIsNotRefused`, `PanicsAreExplained`.  The invariant says
  what each stage of the interceptor has established (that the loop compares the renamed
  method if and only if the call is a stream), and of the loop that no pattern
  before the index grants the method (`Passed`); lemma `MatchesGranted` ties the
  code's slices to the declarative `Grants`.
- **SignerProofs** (`InputAssumption`, `RankAssumption`: a hash's place among the strings is
  a number; `CycleAssumption`): `NoOverheat`, since the flag
  is set only by the worker that holds the mutex; `TypeCorrect` and `NoSendAfterClose`,
  since a stage that has returned has no worker left (`StageInv`).  `ResultStands`: the
  result is the sorted list of the hashes of all values, whatever the schedule.  Its
  invariant says that a worker that sends has each part in its place (`PartsInv`), which values are
  at which stage and which channels may be closed (`FlowInv`), and that what `CombineResults`
  holds are the hashes of the values done with, each once, in the order of some arrival
  (`CollectInv`).  The lemmas below it say that a finite sequence can be sorted and that two sortings of two
  permutations of the same hashes are the same sequence.  `NoDeadlock`: until
  `ExecutePipeline` returns, some goroutine can take a step (`CanStep` is the guards of all
  of them).  `StepsRunOut`: every step reaches one of finitely many milestones, and none is
  lost.
- **DbExplorerProofs** (`SchemasAssumption`: field names of a table are unique, exactly
  one column is the auto_increment key, an int that is not null, and no MySQL type is
  called float64): `RowsMeetSchema`, `IdsAreNew`, `OthersAreUntouched`.  The invariant
  covers the time between validation and statement: a pending insert has a value that
  fits for every column and 0 or nothing for the key, a pending update only fields that
  fit and no key (`StmtInv`), and ids stay below the counter (`RowsInv`).
- **UserApiProofs** (`ClientsAssumption`; `RequestsAssumption`: a request is for one of the two
  APIs and its parameters are texts; `TextAssumption`: what the length of a text and its
  number are; `LowerAssumption`: the lower-case names of the fields of `api.go`):
  `TypeCorrect`, `UniqueIds`, `UsersForGood`, from
  who can be inside the critical section (`LockInv`) and what the holder knows there
  (`HolderInv`): the login it checked is free, the id it took unused.  `Refinement`: every
  step of `MyApi` is a step of `UserStore` or a stutter, by the same invariant.
  `NewApiIsGenerated` compares, for every request, the checked-in wrappers with the
  generator on the declarations of `api.go`, one validator at a time, and `GeneratedStands`
  carries it to every request that is served.  `NoDeadlock`: while some handler is at work,
  some handler can take a step, because whoever holds the lock is at a step that leads to
  its release (`GivesBack`); `AnswerComesNearer`: each step of a handler lessens its
  `StepsLeft`, and nobody else's changes it.
- **SearchPagingProofs** (`SearchAssumption`, `ArgumentsAssumption`: finitely many records,
  at least one, a page size of at least one, whole-number limits and offsets):
  `NextPageIsTrue`, `PagesLeadOn`, `WalksCollect`.  The invariant carries a page from request to
  result: what was sent asks for one record more than the page (`SentInv`), the answer
  is that slice (`AnswerInv`), the result is the page with the truth about the next
  (`ThePage`; behind the records no page is followed, `PagePastEnd`), and what the walk has seen is the order from its start up to the offset it
  asks for (`WalkInv`).
- **ExercisesProofs**, of `FastSearch` (`SearchAssumption`, `TextsAssumption`,
  `LinesAssumption`): `PrintsReference` and `PooledCallFindsNobody`.  A text in the pool has no line left
  (`PoolInv`), a call that got one from there searches nothing and has found nobody (`UsedInv`), and one that read
  the file has done to the lines before its index what the reference says (`RestInv`,
  `ReadInv`).
  Of `DirWalk` (`TreesAssumption`: whatever is in a file system at the start is in a
  directory; nothing is asked of what others put where): `WalkTypeOK`,
  `WalkFinds`.  The result alone says nothing of a walk under way, so `WalkInv` says of every
  call on the stack what it has done (`FrameInv`): an entry of its directory that was there all
  the time is among its points or still to come, each point was there at some time, infos and
  points are in order and the points before the infos; that the frames are on one path from the
  root (`PathInv`); that the innermost call has no points before its loop and loses no name in `Readdir` (`TopInv`);
  and that what was there in every state is there now, and what is there now was there in some
  state (`HistoryInv`).
  Of `DirTree` (with `RankAssumption`: names have an order): `TextDrawsTree`, on top of that
  invariant.  The points of every call under way hold the directories of everything they
  hold (`ListInv`); with the order of `WalkFinds` this makes the returned points a list of a
  tree (`Listed`): a path is there once (`ListedOnce`), its directories come before it
  (`DirListed`), what is in a directory stands together right after it (`ListedTogether`), and
  the last entry of a directory is the one no other follows (`LastListed`).  `DrawInv` says
  which calls of `StringifyPoints` are open when the first n lines are drawn (`Drawing`): each
  call's directory is drawn and it has looked at exactly the drawn points in it (`CallOK`), and
  a directory that still has something to be drawn below it has a call (`OpenOK`).  So
  the next point of the innermost call is the next of the list (`NextDrawn`), a call that
  returns has left nothing below (`NothingLeft`), and what is written is complete.
  Of `I2s` (`TypesAssumption`, `DataAssumption`, `ValuesAssumption`: parts of types, data and
  values are types, data and values themselves; `FitsAssumption`, `MergedAssumption`,
  `PartlyMergedAssumption`: the equations of the reference): `DecodesRight` and
  `ErrorsLeavePrefix`.  Both speak of a call that has returned, so `CopyInv` says of every call
  of `i2s_impl` on the stack what it has written since it began (`SoFar`: the fields or
  elements before the one it is at are merged, the others as they were), and of one
  whose field or element has failed that it has left what `PartlyMerged` says (`Failed`); that each call is for
  the field or element its caller is at (`Calling`), on the value that stood there
  (`StartAt`).  Whatever a call returns is then what the reference says of it (`Outcome`), and its
  caller's loop goes on or ends with that (`AfterOK`).  The recursion of the program is
  the stack, so that no induction over data is needed: the equation for a whole is used
  when its last part has returned.

Only model-checked, and why:

- Liveness under fairness (`CallsReturn`, `SubscribersCatchUp`, `SubscribersEnd`,
  `FinishCleansUp`, `ServeErrorCleansUp`, `PipelineEnds`, `RequestsAnswered`): the prover
  has neither ENABLED nor fairness.  Its safety half is proved where it could be stated: no
  deadlock (`NoDeadlock` of the bus, the signer and the user API, `CleanUpNeverStuck`) and
  that the work left is finite (`StepsRunOut`, `AnswerComesNearer`, `WorkRunsOut`,
  `LifeRunsOut`).  These
  theorems spell the guards of the actions out (`CanStep`, `CanServe`, `CanEnd`, `MgrCanGo`,
  `HandlerCanGo`) where ENABLED would be.
- That the equations of the reference of `I2s` have a solution, which takes induction over
  data: TLC evaluates them on the recursive operators of `MCExercises`.

## 5. What is not modelled, and the abstractions

- Text and encodings: JSON, XML, URLs, log lines, error wording (except where the
  client branches on it).  Strings are model values or numbers, a float64 is counted
  in halves.
- gRPC: flow control inside `Send` (it completes or fails), the transport, and
  everything of `Server` but `Serve` and `Stop`.
- MySQL beyond what section 2 names; a statement that fails changes nothing.  The errors
  of the queries and scans with which `NewDbExplorer` reads the schema.
- hw4: `sort.Slice` is not stable, but on the same records it does the same, so `order`
  is fixed for a walk.  The retry after a timeout is the modelled caller's.
- hw7: what the manager would lose without the mutex if its `range` over the staters kept
  to the list as it was: in the model it goes over the live list.  The refinement
  sees the missing mutex all the same.
- The generator's reading of Go source and its writing of text; a struct it skips because
  a min or max is no integer (`codegen.go:429-437`; `HandlersGen` has bounds as numbers);
  declarations it panics on (an unknown tag key) or for which it writes code that Go does not compile (an enum
  on an int).
- `sync.Pool` is a set that may lose elements; its per-processor caches are not seen.
- hw1: symbolic links and permissions; anything that is not a directory is a file.
  `Open` and the reading of the names are one step: a directory removed in between counts
  as removed before.
- hw8: wide integers, maps as Go values, and unexported fields, on which reflect panics.
- The lecture example `hw5_codegen/example` is not part of any program; the protobuf and
  gRPC stubs (`service.go:402-1121`) and easyjson's encoder are generated encoding; vendored
  code and protoc are third-party.  None of them has logic of this repository.

## 6. Plan

Done: every program of the repository has a module, and all of them have theorems:
`EventFanout` and `AdminManager`, `Lifecycle`, `Acl`, `Signer`, `DbExplorer`,
`HandlersGen` with `UserApi` and `UserStore`, `SearchPaging`, `FastSearch`, `DirWalk` with
`DirTree`, and `I2s`.  Every safety property that a passing run checks is a theorem.

What could follow:

1. Composition of `Lifecycle` and `AdminManager`: the manager's real loop in place of a
   manager that may get stuck at any time, so that it is seen when it does.
2. `DbExplorer` as the refinement of a table of rows with atomic requests.
3. `HandlersGen` for declarations other than those of `api.go`, with the generator's
   panics.
