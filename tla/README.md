# devtool-box in TLA+

TLA+ models, TLC runs and machine-checked proofs for devtool-box, a Go web server
with a plain JavaScript page: saved database and redis connections, SQL and redis
queries, command templates, an image generation proxy, an upload to object storage,
business overviews and small text tools.

Paths below are relative to `src/`; `service/` and `handler/` stand for
`internal/service/` and `internal/handler/`. `PROJECT.json` maps every definition to the
lines it models and lists hazards, findings, runs, mutants and theorems.

## 1. Inventory

Every HTTP request runs in a goroutine of its own. The services are singletons built in
`internal/app/app.go`; one `ConnStore` is shared by the database, redis, business query and
connection handlers. `cmd/server/main.go` handles no signal, so stopping the container kills
the process wherever it is.

| Component | State | Operations | Hard behaviour | What makes it correct |
|---|---|---|---|---|
| jsonStore (`service/jsonstore.go`) | one JSON list in a file | load, save | read, parse, open and write failures; a kill between truncation and write | a write is all or nothing, or its failure is known |
| ConnStore (`service/connstore.go`, `handler/connstore.go`) | `db_conns.json`, a `sync.RWMutex` | List, ListDB, ListByType, FindByName, Save (deduplicates on type and DSN, renames in place), Delete | read-modify-write by concurrent requests; renames against list order | no duplicates, no lost record, a stable order, each connection in one panel, look-up by name |
| CmdTemplateStore (`service/cmdtemplate.go`, `handler/cmdtemplate.go`) | `cmd_templates.json`, a mutex | List by kind, Save (refuses blanks, idempotent), Delete | the same | retries store one template; the two kinds stay apart |
| ImageConfigStore (`service/imageconfig.go`, `handler/imageconfig.go`) | a document in a file and its cache | Load, Save | double-checked locking; cache against file, which read differently after a save; the normaliser is not idempotent | a load answers what the last save means, before and after a restart |
| UploadConfigStore (`service/uploadconfig.go`) | the same | Load, Save with normalisation | the same | the cache is the file |
| DBService (`service/db.go`, `handler/db.go`) | a map from type and DSN to `sql.DB` | getDB, Query, ListTables (saves the connection), DescribeTable | racing opens, a ping without deadline under the write lock, five connections a pool | one pool a key, none lost or closed under a user, only working connections saved |
| RedisService (`service/redis.go`, `handler/redis.go`) | a map from address and database to `redis.Client` | Ping (saves the connection), ScanKeys, GetValue, Exec | a cached client is not asked anything; the key has no password | the same, and every request ends |
| BusinessQueryService (`service/businessquery.go`) | none; its own DBService | user overview: normalize, look the connection up, read five sections | five reads at different moments, an error in one fails all, deadlines of 30 s against 90 s in the page | the sections are about the same accounts, show nobody else's sessions, and add up |
| ImageService (`service/image.go`, `openai_image.go`, `handler/image.go`) | none | GenerateImage, GenerateWithImage, the SDK, the fallback, the event stream parser | fallback after a failure, calls of up to 600 s without the request's context, saves of the configuration meanwhile | a key goes only to its own url, a stream is read to its mark, everything ends |
| UploadService (`service/cos.go`, `handler/upload.go`) | none; objects in COS | Upload, presign, the configuration's handlers | an answer of the put is lost; the put succeeds and signing fails; saves meanwhile; seconds that overflow as nanoseconds | the url leads to the object, a signed one lasts as configured, no orphan without need |
| AuthService (`service/auth.go`, `handler/auth.go`, `handler/middleware.go`) | none: the session is a signed cookie | Login, LoginPage, Logout, RequireAuth | restarts with other settings, times cut to seconds twice | private paths only within a session, a session lasts as granted |
| Text tools (`service/session.go`, `cookie.go`, `jwt.go`, `json.go`, `codec.go`, `util.go`, `wechat.go`) | none | parse and convert | corner cases of input | round trips |
| Web page (`internal/web/static/js`) | current panel, connection, table, modal; fields, recent tables and histories in localStorage | selection, switching panels, modal, histories | late answers overwrite newer selections, a session that ends under an open page | what is shown belongs to what is selected; the recent tables are the latest |
| App and main (`internal/app/app.go`, `cmd/server/main.go`) | wiring | New, Run | none of its own | sharing as above |

Interactions: `DBHandler.ListTables` and `RedisHandler.Ping` call `ConnStore.Save` after
their service succeeded (the first reports its failure, the second ignores it);
`BusinessQueryHandler` calls `ConnStore.FindByName` and then its own `DBService`;
`ImageService` and `UploadService` load their configuration at every call.

## 2. The modules

| Module | Models | State and code |
|---|---|---|
| `Lists` | the filter of a list | `Sift` is the loop of `ListDB`, `ListByType` and the templates' `List`, and `Array.filter` of the page |
| `Records` | the pure list edits of Save and Delete | `Prepend`, `Renamed`, `Without`, `Hit` are the slice code of `connstore.go:101-139` |
| `RecordStore` | a list store: file, mutex, the methods, faults and kills | `disk`, `items` are the file; `writer`, `readers` the RWMutex; `pc`, `req`, `buf`, `ret`, `err` a goroutine in a method with its local slice, its result and its error |
| `Registry` | abstract: an atomic list | every call takes effect in one step, or is refused; a broken write loses the list for good |
| `RecordStoreRefinement` | the mapping RecordStore to Registry | a write takes effect when it truncates the file |
| `RecordStoreProofs` | proofs about RecordStore | section 5 |
| `ConnStore` | RecordStore with types, DSNs and `buildName`; ListDB, ListByType, FindByName | `born` and `named` are history variables |
| `CmdTemplateStore` | RecordStore with name, command and kind | the handler's two kinds; blanks after TrimSpace |
| `ConfigStore` | a configuration store: file, cache, mutex, Load and Save | `cache = NoConfig` is `!loaded`; `current` and `damaged` are history |
| `ImageConfigStore`, `UploadConfigStore` | its two instances | `ImageNorm` and `UploadNorm` are the normalisers as functions of document classes |
| `PoolCache` | the map of pools that DBService and RedisService share in shape | `pools` is the map, `made` the open handles, `net` the servers |
| `ImageService` | image generations on an `ImageConfigStore` | `gen[p]` is the generation of goroutine p: where it is, the configuration it has loaded, where its call goes |
| `UploadService` | uploads on an `UploadConfigStore` | `up[p]` the same, with the bucket that holds the object, the url answered and the time it is signed for; `secs` in it is history |
| `Int64` | the wrap of an int64 | `Wrapped` is what is left of the product at `redis.go:141` and `cos.go:148` |
| `PoolClients` | what the requests of both services have in common: a handle, work in stages, the save at the end | `stage`, `saved` |
| `DBService` | PoolClients with the queue for a connection and the three requests | `KeyOf` is the type and the DSN |
| `RedisService` | PoolClients with `poolKey` and Ping | `KeyOf` leaves out the password; `heard` is history |
| `RedisCommands` | ScanKeys, GetValue and Exec command by command on RedisService | `cmd[p]` is the command and its locals, `data` the keys on the server; `steady` in `cmd` is history |
| `UserOverview` | the five SQL queries of a user overview as operators on tables | rows are records of the columns that decide what is found and which amounts are shown |
| `BusinessQuery` | a request for an overview on `UserOverview` | `named` is what `FindByName` finds, `data` the databases, `conn` and `sections` the locals of the request; `written` is history |
| `AuthService` | the login: settings of the environment, cookies, RequireAuth, restarts | `auth` is the service, `jar` the browsers' cookies, `now` the clock in parts of a second; `session` is history |
| `WebPage` | the database panel of one browser behind `AuthService` | `active`, `structure`, `box` are `_dbActiveTable`, `dbStructureResult`, `dbQuery`; `calls` the describe calls in flight; `tab`, `kept` the panel shown and the fields in localStorage; `recent` the recent tables; `log`, `upset` are history |
| `ListProofs`, `PoolProofs`, `ConfigProofs`, `ImageProofs`, `UploadProofs`, `BusinessProofs`, `AuthProofs` | proofs | section 5 |
| `MCConnStore`, `MCPools`, `MCRedis`, `MCImage`, `MCUpload`, `MCBusinessQuery`, `MCWeb` | values and symmetry for TLC | - |

How the code was abstracted:

- A store method is split where the state of others can matter: waiting for the mutex, the
  section under it, and the truncation and the write of `os.WriteFile`. A section
  that only reads under a read lock is one step. `RLock` may overtake a waiting `Lock` in the
  model, which `sync.RWMutex` would not allow: the model has more interleavings than the
  code.
- A record is its uuid, its identity and its display name. `uuid.New` gives a uuid that is
  not stored, acknowledged or named by a call in flight.
- A DSN is its type, the part `buildName` shows and the part it hides, because two DSNs may
  get the same automatic name. Nothing else of its text is looked at by the store.
- A configuration is a choice of document classes: with no, one or two endpoint suffixes;
  text fields trimmed, padded or padded within padding; expiries around zero and beyond what a `time.Duration` holds. The models of
  the image configuration and their default are left out: no generation looks at them. The
  normalisers remove one layer a pass, as the code does, and are not the identity.
- A server is up, down or silent, and changes at any moment. A silent server is the reason
  for deadlines: `db.Ping` and `db.Query` have none, redis calls have one.
- In `DBService` rows are an answer or an error. In `RedisService` so are the commands that
  `RedisCommands` takes apart; there a key holds a string or a list, and what keys hold
  matters only while a command reads them, so a command begins with any contents. One request
  reads and the other pings, because requests share nothing but the clients.
  A command line is a list of plain characters, blanks and quotes.
- An `int64` is in `-Half..(Half - 1)` and wraps, and a second has `Second` nanoseconds (`Int64`). Only products of unbounded
  inputs are taken to wrap: the limit of a search and the expiry of a url.
- `ImageService` and `UploadService` run on the whole store: every load of theirs takes the
  store's own steps, while other goroutines load and save. Pictures, prompts, object names and
  what storage and upstream do inside are left out: they answer, fail, or the answer is lost.
  A stream is a sequence of lines of three classes.
- In `AuthService` a signature is the secret that made it, and the clock ticks in parts of a second.
  A request that changes nothing is no step; `Answer` says what it would get in each state.
- In `WebPage` a pane is the table it shows, or the spinner, an error, or a typed query. Calls
  are answered in any order, by an error, or never.
- In `UserOverview` a result is the set of its rows without the columns that are only
  displayed; `NULL` is a model value that `Same` never finds equal; `NOW()` is decided in the
  row (`expired`, `locked`, `active`). `BusinessQuery` runs one request, because requests share
  nothing but the pools, which `DBService` models; what others do to the connection's name and
  to the data are the actions `Rename` and `Write`.
- Operators whose comment begins "Faulty variant" are not part of any specification. Each is
  a plausible mistake in the definition that follows it; substituting it must violate the
  property `PROJECT.json` names under "mutants".

## 3. The runs

| Run | Question | Bounds | States |
|---|---|---|---|
| `conn_store` | Do concurrent saves, renames, deletes and lists keep the file free of duplicates and of lost records and in order, and implement the atomic list? | 2 goroutines, 2 identities, 2 names, 4 uuids | 77 000 |
| `cmd_templates` | Are retries idempotent and kinds apart, with blanks refused and whatever fails, and does every call end? | 2 goroutines, 2 valid and 6 blank templates, 3 uuids | 87 000 |
| `image_config` | Does a load answer what the last save means, through cache, file and restart? Where does a restart show? Does a save repair a torn file? Does a key only go to its own url? Is a stream read to its mark? Does every request end? | 2 goroutines that load, save and generate, 6 documents, streams of up to 2 lines and one of 3 | 107 000 |
| `upload_config` | Is the cache what a restart would read? Does a url lead to its object, and does a signed one last as configured? When does a failed upload leave an object? | 2 goroutines that load, save and upload, 11 documents in 2 buckets, 2 of 6 expiries overflow 23 bits | 432 000 |
| `db` | Do racing requests leak, double or close pools? Is what is saved known to answer? Does every request end unless a server is silent? | 2 goroutines, 4 settings on 2 servers, 2 handles, 1 connection a pool | 13 000 |
| `redis` | Does every request end? Did the saved address answer? Are type and value of one key, is a short search complete, are a command's words kept? | 2 goroutines, 2 passwords of one address, 2 keys, 3 cursors, limits 1, 3 and 9, 5 bits, commands of up to 2 words | 99 000 |
| `business` | Do the sections of an overview agree, keep other members' sessions out, and add up? | 32 databases, 5 identifiers and one that is none, limits 2 and 4, 1 write a request | 88 000 |
| `web` | Are private paths handled only within a session, and throughout it? Does the panel show the highlighted table? Are the recent tables the latest? | 1 browser, 2 users, 2 secrets, 2 session times, 3 ticks of half a second, 3 tables, 2 calls in flight, 3 choices | 1 138 000 |
| `conn_find`, `redis_ping`, `redis_ttl`, `business_limit` | findings, section 4 | as the runs above, or smaller | - |

Why the bounds are enough to meet the interesting cases:

- Two goroutines are enough for every race of a store, since each property relates the step
  of one call to one other call; kills and failures may hit both. Two identities of
  different types tell the panels apart, two names make a rename meet a name in use.
- Uuids run out after a while only in the sense that a new record needs one that no record,
  acknowledged result or call holds; with 4 uuids for 2 goroutines and 2 identities a Save is
  never blocked for want of one, which the runs check: deadlock is checked everywhere, and
  `EveryCallEnds` for templates.
- The settings in `db` are a right and a wrong DSN of one server, one of another server that is
  refused and one that does not parse. With one connection a pool the second request has to
  queue. Only one key answers and only the holder of the write lock opens, so two handles never
  block an open. The safety properties are proved for any number (section 5).
- The databases of `business` are all combinations of five facts: a removed login, a linked
  user, a removed member, a suspended organization, an overdue credit. The owner has a login
  with the address of her own account, so that each kind of account is found next to another,
  and the other member's session has the owner's user id. With three sessions of her own the
  limit of two bites. A second connection holds another database, so that a section read from
  the wrong one shows.
- Of the limits in `redis` one overflows 5 bits when it is multiplied by `maxScanBatches`, one is
  reached and one is not; the second of three cursors has no key, so a scan meets an empty batch.
  The words of a command are all pairs of an empty one, a plain one and one with a blank.
- The documents of `image_config` have three providers' urls and keys, so a key at another's url
  shows; a generation may find a save before, between and after its two calls. The streams have
  an image before, after, and on both sides of the mark, with and without a line of another kind.
- The seconds of `upload_config` are below, at and above zero, and two that overflow: one wraps to a negative time, the
  other to one of less than a second.
- With 3 half-second ticks and granted times of 2 and (by default) 3, the cut to whole seconds bites, a session ends
  within the run, and a restart may come before or after that and grant another time. Three tables
  and two places for recent ones make one fall out; two calls can overtake each other.
- Symmetry is declared for model values in the safety runs only.

### Fairness

`FairSpec` and its kin assume weak fairness of what a goroutine does once it may proceed
(the scheduler runs it) and strong fairness of taking a lock (`sync.RWMutex` makes readers and
writers take turns) and of getting a connection (`database/sql` serves its waiting requests
in order). Nothing is assumed of new requests, of faults, of kills or of the servers. In
`DBService` a silent server disables the steps that need its answer, because nothing in
the code ends them. In `RedisService` a call to one ends by its deadline, so the steps that
report an error are enabled and fair; `CommandsFairSpec` adds that a request goes on to its next
command. `GenFairSpec` assumes that an upstream call ends, which the http client's 600 s (and the
SDK's) see to. The upload and the page are checked for safety only: nothing ends a describe call
of a silent database but the page's own deadline, after which the spinner stays.

### What the runs show

- The list stores lose nothing and duplicate nothing under any interleaving, and a reader
  sees all finished writes, up to one exception: a write cut short by a failure or a kill
  leaves a file that nothing ever repairs (`TornForever`). `Registry` states this exception
  and no other, and `IsRegistry`, which is checked and proved, says that the store promises no less than that.
- The configuration stores repair themselves at the next save, and cache and file never
  disagree about what a document means that one pass of the normaliser settles. They may read differently:
  the image store caches a document as it was given, and GET shows the cache as it is (`handler/imageconfig.go:27`), so
  after a save of `gateway/images/generations` it answers that until the restart and `gateway` afterwards. `RestartKeepsMeaning`
  says that this is the only difference; a generation normalises what it loads and sees none. For other
  documents (two endpoint suffixes, a blank within slashes) the answer does change at a
  restart; the properties exclude them by `Settled`, and nothing documents which answer is
  meant.
- The pool maps never leak, replace or close a handle in use. A database pool is keyed by its
  whole DSN, so what `ListTables` saves did answer. A redis client is not, see below.
- A redis value is never shown with another type's, though it is asked in two commands; an
  empty list may be shown for one that is gone meanwhile. A search that finds less than its
  limit has every key that was there all along, unless the limit overflows. The words of a command are
  kept but for an empty one in quotes, which is dropped.
- A generation works with the configuration of its start: no key is sent to another provider's url,
  whatever is saved between the call and its fallback. There is one fallback and no more.
  A stream without its mark is an error only when it breaks.
- An upload's url leads to the bucket of its object, because both use the document that
  was loaded once. An object is left behind only by an answer that was lost, or when signing fails; a public
  base url never needs signing, also when the form asks for it. A signed url is good for the configured seconds, and a
  positive number of them, as long as they fit: above 9 223 372 036 the product with `time.Second` wraps (`cos.go:148`), and
  the url has expired when it is made or is good for some other time. Nothing refuses such seconds, and nothing says what
  should happen; `SignedLasts` leaves them out.
- The server keeps no sessions, and needs none for what it promises: after any restarts a private
  path is handled only for a cookie signed under the secret of now, for the user of now, within
  its time. A session may end up to a second early and never late. A password changed
  alone ends no session, since a cookie does not name it.
- The panel shows the highlighted table when calls are answered one after the other and the panel is
  not left during one. Otherwise it may not: a late answer overwrites a newer one, and a query that came
  while another panel was shown is overwritten by the kept one. `upset` marks these behaviours,
  which the model has and the property excludes.
- An overview is consistent as long as nobody writes to the database while it is read: the
  accounts are found by two separately written texts (`tokenRouterIdentitySQL` and the common
  table expression), and capacities are computed in the member query apart from the
  organization query, and they agree. A rename of the connection disturbs nothing. A write
  between two sections does: there is no transaction, and the properties exclude it by
  `~written`.
- A database request ends unless some server is silent. "Some" cannot be made "its own": a
  ping of a silent server holds the write lock, and everybody waits for it.

## 4. Findings

| Run | The code | A comment or document |
|---|---|---|
| `conn_find` | `FindByName` returns the first record in list order, and a rename does not move a record: after saving A, then B as n, then A as n, it returns B | `service/connstore.go:74`: returns the latest saved connection of that name; likewise `connstore.go:37`, by save time, if a later save counts: `NewestFirst` shows that it holds of first saves |
| `redis_ping` | with a cached client an error of INFO is answered "PONG": Ping succeeds although the server is down; and since `poolKey` leaves out the password, it succeeds with a wrong one, which the handler then saves | `service/redis.go:76`: tests the connectivity |
| `redis_ttl` | go-redis answers -1 and -2 as nanoseconds, `ttlToSeconds` compares with seconds: a key that never expires is reported as gone, and the page says so (`app.js:526`) | `service/redis.go:252`: -1 = never expires, -2 = expired or absent |
| `business_limit` | an organization's owner looked up by uuid is a PERSONAL and an ORG_WALLET account, so DISTINCT leaves each of her sessions twice and LIMIT 20 shows ten | `internal/web/index.html:658`: the latest 20 sessions |

Beyond these, `README.md:36` promises that the configuration survives when the container is deleted and rebuilt; it
does not when the process is killed between the truncation and the write of `os.WriteFile`
(`service/jsonstore.go:39`): `TornForever` says so of the list stores, and `Registry` has the loss as an action.

## 5. Proofs

The theorems hold for any number of goroutines, records, names, uuids, settings, handles, secrets, keys, cursors,
tables and calls, and for lines, streams and histories of any length. The assumptions are the named ASSUMEs:

- sentinels are not values (`NamesAssumption`, `ProcsAssumption`, `PoolAssumption`, `NoCookieAssumption`), every identity has
  an automatic name, the settings the servers accept and those that do not parse are settings and apart;
- a normaliser maps documents to documents (`ConfigAssumption`); `ImageAssumption` and `UploadAssumption` say which
  documents there are, `StreamAssumption` that a stream has lines of three classes;
- a second has ticks, `TrimSpace` maps names to names (`AuthAssumption`); the recent tables have a place and the bound of the
  history is a number (`PageAssumption`);
- an `int64` has positive values and a second has nanoseconds (`Int64Assumption`); expiries are integers (`UploadAssumption`);
- one request reads keys, there is a key, the limits of the source are positive, and a word has no quote, since nothing in
  `splitCmd` escapes one (`CommandsAssumption`);
- the connections of type postgres are connections and the name of none is not, no text is a uuid and an address (`BusinessAssumption`), and the
  organizations and members have primary keys (`SchemaAssumption`: `Keyed` is all that is assumed of a database).

TLC evaluates all of them. Every safety property that a passing run checks is stated by a theorem. The type invariants of
`PoolCache`, `ConfigStore` and `AuthService`, `PublishedAnswered` and `PublishedStays` are proved and need no run.

`RecordStoreProofs` proves `Spec => []TypeOK`, `[]NoDuplicates`, `[]AckedKept`,
`[]ReadsAcked`, `[]NoTornRead` and `TornForever` of `RecordStore`. None of the interesting ones
is inductive: `AckedKept` says nothing of the slice a writer is about to write, which is where
an update would get lost. The inductive invariant `IInv` adds

- `CallInv`: which calls are at which point, and only returning calls have failed;
- `LockInv`: the mutex is held exactly by the calls past their Lock or RLock;
- `FileInv`: the file is torn exactly while a writer is between its two steps or after a
  broken write, and after that nobody writes;
- `SliceInv`: a slice about to be written is a valid list and has every acknowledged record
  its own call does not supersede;
- `ResultInv`: a Save about to return without error stored what it returns;
- `AckedInv`: an acknowledged record is stored, or the call that superseded it has taken effect
  and is about to return;
- `ListInv`: a list about to be returned has every acknowledged record.

Each part has a lemma that every step preserves it; four lemmas say what the list edits return
(`HitFacts`, `PrependFacts`, `RenamedFacts`, `WithoutFacts`), and the lemmas about `Fails`,
`Answers` and `Edits` group the actions that do the same to the state. `AckedKept` follows from
`AckedInv`, since a call that superseded a record is a call that disputes it.

The rest of `RecordStoreProofs` builds on `IInv`:

- `SaveIsIdempotentHolds`: what a Save returns is stored, and any other acknowledged record of its identity is
  either stored too, hence the same, or superseded by a call that holds the lock, hence by this one.
- `OfferedOnceHolds`, `KindsApartHolds`: a filter keeps the places it is told to (`SiftMembers`), so what `ListInv` says of
  the whole list carries over.
- `NewestFirstHolds` needs `BornInv`: the list in the file, and every slice about to be written, show their uuids in the
  reverse order of `born`, with the new record counted in (`BirthsWith`). `EditsKeepOrder` says so of each edit.
- `TemplatesAreRecords` and `ConnectionsAreRecords`: the two stores take no step that `RecordStore` does not take, so all of
  this holds of them (`TemplatesHold`, `ConnectionsHold`).
- `RefinementHolds`: `Spec => IsRegistry`. Two more invariants are needed. `FreshInv`: a call that loaded nothing has nothing
  to return. `EditInv`: the slice of a writer is its edit of the list that is in the file *now*. Then one lemma per
  group of actions shows that a call is the call of the atomic list, that locks and loads are stutters, that a truncation is
  where a write takes effect, and that a failed write and a kill are `Registry`'s losses.

`PoolProofs` proves of `PoolCache` that types are kept, `[]UsesOpenHandle`, `[]NoHandleLeaks`,
`[]OneHandlePerKey`, `[]PublishedAnswered` and `PublishedStays`. Its `IInv` adds `LockInv` (who
opens and pings holds the lock), `TryInv` (what is tried is open, unpublished and its key
missing), `MapInv` (a published handle is open, under its key, and answered) and `UseInv` (a
request uses what is published under its key).

A chain of implementations carries this to the services: `RedisCommands` and `RedisService` and `DBService` take
only steps of `PoolClients` (`CommandsAreClient`, `RedisIsClient`, `DBIsClient`), and that takes only steps of `PoolCache`
(`ClientsUsePool`). `SavedKeyAnsweredHolds` is proved once, of `PoolClients`: some settings of the key that is saved answered,
because a request that saves still works with the handle it got (`StageInv`). `SavedAnsweredHolds` says more of
`ListTables`, whose key is the whole settings (`KeyOf = DBKey`); of Ping it is false, see section 4.

Of the redis commands, `CmdInv` says what a reader may have at each point: a type that was read, or the gap between the
two commands (`GetOK`), and every key that is there all along and whose cursor SCAN has passed (`ScanOK`). It gives `ValueOfTypeHolds` and
`ScanCompleteHolds`; `Unwrapped` is where the overflow is excluded. `WordsKeptHolds` says that `splitCmd` undoes the quoting for any
command. Its lemmas say what reading a part of the line leads to (`Leads`): a quoted or plain word leads from
nothing to that word (`LeadsWord`), a separator closes it, and `SplitLine` puts the words together.

`ConfigProofs` proves `[]TypeOK`, `[]SaveRepairs`, `[]RestartKeepsMeaning`, `LoadsCurrent` and `NoTornLoad` for any
documents and any normaliser. `IInv` says that who works under the lock holds it (`LockInv`), who is between which steps (`CallInv`),
that the file is torn only during a save or after damage (`TornInv`), that the file has the document of the last save
that succeeded, normalised (`FileInv`), and the cache the same or, where it is raw, that document itself (`CacheInv`). The last two carry
everything: neither `RestartKeepsMeaning` nor `LoadsCurrent` says which document the file has after a save that failed.

`ImageProofs` and `UploadProofs` show that generations and uploads take no step of the store that `Spec` does not
take, and then that a call goes where the document of its own load says (`GenInv`), that cache and answers are
normalised (`NormalInv`; with `LifetimeFits`, where the overflow is excluded, it gives `SignedLasts`),
and what an upload carries from its load to its url (`UploadInv`). `StreamsReadHolds` rests on the invariant of the parser's
loop: after any number of lines it has stopped if one of them was the mark, and has counted the images before every mark (`StreamRead`).

`BusinessProofs` is about the SQL texts. `tokenRouterIdentitySQL` and the common table expression are written apart;
`AccountIsIdentity` and `IdentityIsAccount` show that they find the same accounts in every database, though they join in
different orders and one adds what a login may still do. On that rest the lemmas of the sections (`WalletsAgree`, `OrganizationsAgree`,
`MembersAgree`, `SessionOrigin`, `AmountsAgree`), which need that an organization or member is found once by its key. `ReadInv` brings
them to the request: as long as nobody writes, every section read so far is a result of its query on the database of now.

`AuthProofs` proves `[]AuthTypeOK`, `[]Locked` and `[]SessionLasts`. The server has no state that relates
a cookie to a login; `CookieOfSession` does: the cookie says the user, the secret and the end of the login it came from,
cut to seconds, and a browser that has none any more has lost it less than a second early. The
arithmetic of the two cuts is in `EarlierSecond` and `SecondApart`. `WebImplementsAuth` carries this to the page, and
`PaneOfActiveTableHolds` rests on `PaneInv`: as long as nothing was upset, the last call in flight is for the
highlighted table and the panel is shown, and what is kept in the storage is what the panel would show.
`RecentAreLatestHolds` rests on `RecentInv`: the place of a table in the recent ones is its rank by the number of other tables chosen since
(`Ranked`). `PushKeepsRanks` says what `pushRecent` does to the ranks and `RanksAfterOneMore` what a choice does to the numbers, for any
cut at `MAX_RECENT_TABLES`.

`ListProofs` has what several of these need of lists and loops. The induction theorems of the library cannot be used here, so
`Induction` and `Recursion` are derived from the least number of a set (`LeastNatural`, by well-foundedness) and speak of sets and
functions instead of formulas. Loops are recursive functions in the modules, and a proof names the function a loop
computes (`SiftUnfolds`, `StreamRead`, `Reading`) before it says what the loop keeps.

Only model-checked: liveness under fairness (`EveryCallEnds` and its like), which is beyond the prover, and the
four properties that runs show to be violated, section 4.

## 6. What is not modelled

- The text tools: functions of strings, one call each, without state. Unit tests reach them, and taking strings apart
  character by character would only repeat the code. (A raw session value that ends in `=` padding is read as a cookie's name,
  `service/session.go:107`.)
- Of the page: the modal (it covers the page, so a second one cannot be opened by hand), the templates panel
  (`applyTemplate` writes the query box and then clicks the sidebar, whose handler, `SwitchTab`, restores the kept fields
  over it, `templates.js:78`), the connection lists, the query and command histories, the choice of
  another connection and the panels of the other tools. Layout and wording.
- Of `RedisService`: the TYPE and TTL pipeline over the keys a scan has found (it changes no state), hashes, sets and sorted sets (read
  as lists are), the reply of Exec.
- Of `ImageService`: the check of the form, the multipart body of an edit, the formats of pictures. The sizes that the page
  offers agree with the server's for generations; for edits it offers some that the server refuses.
- The `getDB` pool of the business queries (it is `DBService` again) and the 30 s and 90 s deadlines: a section that
  fails for any reason fails the request.
- Time as a number except in `AuthService`: deadlines are failures that may happen.
- Encodings done by libraries (JSON, base64, JWT, HMAC), the databases, redis, COS and the image providers, which are modelled by
  how the code uses them.

What could follow: the connection's choice and the templates of the page, with the order in which `applyTemplate` and
`SwitchTab` write the query box; the TYPE and TTL pipeline, in which keys may change between the scan and the answer.
