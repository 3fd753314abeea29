# Tile-Server-Sync-GO: specifications, model checking and proofs

Tile-Server-Sync-GO copies the geo objects of *maps* from one or more
tileserve-go servers into a MariaDB table. What to copy, from where, how often
and into which database is a configuration that users edit over HTTP while the
process runs, and that is kept in a SQLite file. This directory models the parts
of it where order, failure and concurrency decide whether it is right, checks
them with TLC and proves what matters most with TLAPS.

    tlc -config MCRunner.cfg MCRunner          # a run
    tlapm RunnerProofs.tla                     # a proof module

## The system

| Component | State it keeps | Operations | Talks to |
|---|---|---|---|
| **Runner** (`internal/runner`) | `stored` (the configuration being edited), the active triple `cfg`/`clients`/`db`, `writeMu`, `syncMu`, `mu`, the channel `wake` | CreateMap, UpdateMap, DeleteMap, CreateAPI, UpdateAPI, DeleteAPI, SaveDatabase, `apply`, SyncMap, `runSyncMaps`/`syncAll`, TestAPI, TestDatabase | all of the others |
| **Schedule** (`runner/schedule.go`) | `lastSync`, the sleep of its loop | `Run`, `tick`, `scheduleTick` | Runner's active state and `syncMu`; woken through `wake` |
| **Config database** (`internal/configdb`) | the tables of the SQLite file | Open with its migrations, Load, Save, one method per edit, the security log | called by Runner under `writeMu` |
| **Configuration rules** (`internal/config`) | none | Validate, ValidateMaps, ValidateAPIs, DSN and TLS conversion, the bootstrap file | called by Runner and `main` |
| **Geo object store** (`internal/store/store.go`) | a connection pool; the `geo_objects` table in MariaDB | Open, EnsureSchema, UpsertGeoObjects (batches, prune), DeleteMapObjects, Close | opened and closed by `apply`, used by syncs and purges |
| **EDP overlays** (`internal/store/overlays.go`) | `map_src_overlays` in MariaDB | create, update, delete a map's rows | called by the map and API handlers under `syncMu` |
| **Tile server client** (`internal/tileserve`) | a token per client | lazy login, GeoObjects, one retry after a 401 | used by syncs |
| **Status recorder** (`internal/status`) | last result per map and version, last run, log ring | RecordMapVersion, RecordRun, RemoveMap, Snapshot | written by syncs and purges, read by the web server |
| **Web server** (`internal/webserver`) | verifier cache of the SSO bearer check | a handler per operation, authentication, static files | calls Runner, each request on a goroutine of its own |
| **Frontend** (`frontend/src`) | the OIDC session, page state | renewal, logout, retry after a 401; forms | the web server |
| **Process** (`cmd/...`) | none | start, graceful shutdown, Windows service | starts and stops Runner and the web server |

How they interact. A change request runs on its own goroutine: it takes
`writeMu`, copies `stored`, edits and checks the copy, writes SQLite, replaces
`stored`, then, still under `writeMu`, purges the rows of a deleted map and
rewrites overlay rows (both under `syncMu`), and calls `apply`. `apply`
validates, opens a new connection, swaps the active triple under `mu`, closes the
previous connection, *without waiting for a sync that uses it*, and pings `wake`.
Syncs, manual ones and the scheduler's, take `syncMu`, read the active triple
once, and work through it map by map and version by version, each version one
transaction. The scheduler's loop computes what is due, syncs, and sleeps until
the next map is due or `wake` is pinged.

### What is hard here, and what makes each component correct

- *Runner.* Handlers, manual syncs and the scheduler interleave at every lock;
  `apply` runs against a sync in flight; anything outside the process can fail at
  any step; the process can end anywhere. Correct means: memory, SQLite and the
  active state agree when they should, a deleted map stays deleted everywhere, no
  edit is lost, no connection leaks, nobody waits forever.
- *Schedule.* A sync takes minutes, during which maps come due and applies land.
  Correct means: nothing sleeps through a new map, a late map is late by a known
  bound, the loop never spins, and every map with an interval is synced again and
  again.
- *Config database.* Edits delete and re-insert rows in several statements. Correct
  means: a Load after any failure or crash sees whole edits, in the order the
  user sees.
- *Geo object store.* A sync is several statements over rows that versions of a map
  may share. Correct means: whole syncs or nothing, and a prune that takes only
  what it should.
- *Migrations.* A database of any age is brought to today's form in many steps, with
  foreign keys off on purpose. Correct means: cut short anywhere and started again,
  nothing configured is lost or changed.
- *EDP overlays.* Rows are written one by one without a transaction, and found again
  only by a URL made of the API, the map and the version. Correct means: a failure
  spoils no other row, and an edit touches no row that should stay.
- *Tile server client.* The server forgets tokens at any moment, and a client is not
  safe for concurrent use. Correct means: an expiry between two calls is never seen, no
  call goes on for ever, and no session is left behind at the server.
- *Frontend session.* Calls, an expiry timer, a renewal, a logout and a reload meet at
  every wait for the network. Correct means: a refresh token is presented once, a call
  is not repeated with the token just refused, and a session that ended is neither
  stored nor shown.
- *Process.* Cancelling the process's context ends no request. Correct means: a stop ends,
  in a time that can be stated, and closes the databases last; and a request that waits
  for the SSO provider waits only while discoveries fail, and for one more.

## Modules

| Module | Models |
|---|---|
| `Runner` | the change handlers, `apply`, syncs per map, purges, the scheduler's loop, restarts: all of `internal/runner`'s shared state |
| `MCRunner` | instances of `Runner` |
| `RunnerProofs` | the inductive invariant of `Runner` and its theorems |
| `Scheduler`, `MCScheduler` | `schedule.go` with its clock: what is due, how long the loop sleeps |
| `SchedulerProofs` | its theorems |
| `ConfigStore` | abstract: one ordered configuration, changed by whole edits |
| `ConfigDB`, `MCConfigDB` | `configdb`: rows, statements, transactions, crashes; implements `ConfigStore` |
| `ConfigDBProofs` | its theorems, the refinement of `ConfigStore` among them |
| `GeoSync` | abstract: a table changed by storing a fetch, all of it or nothing, and by purges in between |
| `GeoStore`, `MCGeoStore` | `store.go` and `syncAll` over rows; implements `GeoSync` |
| `GeoStoreProofs` | its theorems, the refinement of `GeoSync` among them |
| `ConfigMigration`, `MCConfigMigration` | `configdb.Open` on a database of any age |
| `Overlays`, `MCOverlays` | `overlays.go` and the edits that call it |
| `OverlaysProofs` | its theorems |
| `TileserveClient`, `MCTileserveClient` | `tileserve/client.go`, and how the runner shares clients |
| `TileserveClientProofs` | its theorems |
| `OidcSession`, `MCOidcSession` | `oidc.ts`, `client.ts`, `AuthContext.tsx`, the callback page |
| `OidcSessionProofs` | its theorems |
| `Process`, `MCProcess` | `main.go`'s run, the Windows service's stop, the verifier cache of `sso_bearer.go` |
| `LifecycleProofs` | theorems about how `run` begins and ends: about `ConfigMigration` and `Process` |

Definitions named in a comment as a *slip* are variants of the definition
that follows them, the way a plausible bug would have it. No specification uses
them; putting one in the place of its original must break a property.
`PROJECT.json` says which, for every property of every run.

### Runner

`disk`, `stored` and `active` are SQLite's contents, `Runner.stored` and the triple
`cfg`/`clients`/`db`. `writeMu` and `syncMu` hold the process that has them. `mu`
is only ever held around a pointer swap or a copy, so each of those is one step and
`mu` needs no variable. `conn` says which connections are open and on which
database, `rows` which maps have rows in which database, `results` which maps the
status page has a result for. `pc` is where each goroutine is:

| `pc` | In the code |
|---|---|
| `lock` | at `writeMu.Lock` (a handler, or `Run`'s first apply) |
| `locked`, `persisted` | before and after the write to SQLite |
| `purge`, `overlay` | `deleteMapObjects`; the overlay writes, map by map |
| `apply`, `opened`, `close`, `unlock` | in `apply`: before the pool is opened, before its Ping and EnsureSchema, after the swap; and the deferred unlock |
| `sync`, `syncing` | at `syncMu.Lock`; in `syncAll` |
| `tick`, `rest`, `sleep` | `tick`; after it returned; `Run`'s select |

Every failure is a choice: `Reject` (the checks, the connection test or SQLite),
`ApplyFails` (validation, before anything is opened), `OpenFails` (Ping or EnsureSchema,
with a pool open that has to be closed again), `SyncMapFails` and the roll back in
`EndTx`. Two details matter. `BeginTx` needs an open connection, while a
transaction that has begun outlives the pool's `Close`, as in `database/sql`. And
handles are reused only once nothing refers to them, standing for a new
`*store.Store` each.

A map is its API and its mode: `off` (disabled), `once` (no interval) or `repeat`.
Rows are abstracted to "this map has rows in this database"; `GeoStore` has the
rows. Time is abstracted to choices; `Scheduler` has the clock.

### Scheduler

The code keeps when each map was last synced; the model keeps how long ago that was
(`age`), so no clock has to run, and ages stop counting at `Cap`, beyond every
interval plus every sync. `others` is the set of remaining times `scheduleTick`
computes, `syncFor` the duration of the running sync, `timer` what is left of
the sleep. `Swap` and `RemoveActiveMap` change the configuration at any moment, the
second without a ping. The ping of an apply is a step of its own, `Ping`, since `apply`
closes the previous connection between the two, holding no lock that `Run` waits for:
`applying` is true in between. In that moment the loop may sleep on a configuration it
has not seen with nothing pending, so the bounds below hold of sleeps that are `Settled`:
no ping is pending and none is about to be sent. How long the moment lasts is up to the
driver's `Close`; nothing else of the code bounds it.

### ConfigDB

The tables are sets of rows with `sort_order` and foreign keys to a map's row id,
which AUTOINCREMENT never gives out twice. Each edit is a list of statements
(`Statements`) that `Exec` runs one by one in the transaction `tx`; `Fails` rolls
back, `Restart` loses it. The refinement mapping is `Loaded(db)`, which is what
`Store.Load` returns, so the refinement says what a Load would see at *every*
moment. `stored` is the runner's in-memory copy, edited by append, replace and
remove rather than by re-reading. `InOrder`, the ORDER BY of a load, is *the* list of the
rows that is in order: `CHOOSE` and not a sorting algorithm, so that it can be reasoned about.

### GeoStore

`table` is what MariaDB has committed and `tx` what the open transaction sees. A
pass (`snap`, `maps`, `map`, `at`) goes through its maps and each map's versions in
order. Per version: `Fetched`, `UpsertBatch` per 500 objects, `PruneMissing` if
configured, `Commit`; `Fails` at any point; `FetchFails` and `FetchedNothing` where
no transaction is begun. `Apply` lands between any two of these, with other
versions, another prune setting or other static columns. `reporter` is a history
variable, read by the properties only: which version of the map reported an object
last. The mapping to `GeoSync` is `table` for its rows, and for what is being stored
the fetch the open transaction was begun with (`Storing`).

### ConfigMigration

`disk` is the database as committed: which tables are in today's shape, whether
`map_static_columns` still has its inline `UNIQUE(`, the maps (`Unassigned`: no API,
as before there were several), their versions and static columns, the API and the DSN
that only older versions wrote. `pc` is where `Open` is, `tx` and `todo` a transaction
and what it has left, `fk` SQLite's `foreign_keys` pragma, which is per connection and
off at first. `Ends` is a crash or an error at any point; `Edit` is any change a user
makes while the database is open, one step each since `ConfigDB` has their statements.
`AutoMigrated` is GORM's part, external, by what the comments in `schema.go` and
`configdb.go` say it does: it recreates a table of an older shape, which cascades if
foreign keys are enforced, and corrupts a table with an inline `UNIQUE`.

### Overlays

`rows` is `map_src_overlays` by SOURCE, `<<host, map, version>>`; `Host` drops the
slashes at the end of a URL, as `overlaySource` does, so that two URLs can mean the
same source. `apis`, `maps` and `sync` are the stored configuration; `active` is what
matters of the active store: whether it has SyncOverlays. Each edit persists, then
has the statements of `Upserts`, `Deletes` or `UpdateMapOverlays` to run (`todo`), then
applies. `Fails` is a statement that returns an error, executed or not. `missed` is a
history variable, read by the properties only: the sources whose last statement failed,
or was not run because of a crash or because the active store had no SyncOverlays.

### TileserveClient

`token`, `creds` are what a `Client` holds; `using` is the client a goroutine works with,
`pc` the round trip of `getJSON` (or of `newClient`'s login) it is at. The server is
external: `valid` are the tokens it accepts, numbered as it issues them, and `Expire`
takes one away at any moment. Passes (`Syncers`) share the `active` client under
`syncMu`; `RemoteMaps` and TestAPI (`Probers`) build one each. `kept`, `trips` and
`began` are history variables; `began` is how many tokens had been issued when the
`getJSON` in progress began, which tells its own tokens from older ones.

### OidcSession

JavaScript runs one callback at a time, so what lies between two waits for the network is
one action. `user` is the session in sessionStorage, `asking` the refresh token that
`renewing` has presented, `pc` and `sent` where each `apiFetch` is, `me` whether someone
is shown. `page` runs from `Mount` over `refreshMe` and, at the callback path,
`completeLogin` to `ready`; `Unload` ends it at any moment and cuts what is in flight,
while the stored session survives. The provider is external and rotates refresh tokens,
which is what `renewAccessToken` is written for; some providers issue none (`offline`).

### Process

`loop` is where `run` and then `Runner.Run` is, `holder` who has `writeMu` and `syncMu`,
`handling` where requests are: at the verifier cache first, then at work with any of the
locks; `verifying` is the one that holds `ssoVerifierCache.mu`. That mutex is given to any
request that wants it (`TakesCache`): a `sync.Mutex` lets one that arrives at the unlock go
before one it woke, and only puts a limit to that once a waiter has starved, so no property
may rest on an order. Time passes in ticks, and only when nothing that is bound to happen
at once is left (`Prompt`): a cancelled loop does not dawdle, a timeout is kept, a free
mutex is taken. A handler at work has no such bound. `waited`, `spent` and `blocked` are
history variables that say where the time went. What `Runner` and `Process` have in common is the two locks; `Runner` says
what is done under them, `Process` what that means for a stop.

## Runs

| Run | Configuration | Checks | States |
|---|---|---|---|
| `runner` | 1 map, 1 API, 2 URLs, 2 databases, 2 handlers, 1 manual sync, scheduler, 3 requests, 1 crash | 6 invariants, 3 action properties | 2,907,580 |
| `runner_live` | 1 map, 2 APIs, 1 database, 2 handlers, 1 manual sync, 2 requests, fairness | 1 invariant, 2 liveness properties | 114,004 |
| `scheduler` | 2 maps, intervals 2 and 3, syncs up to 3, 2 changes, fairness | 3 invariants, 2 liveness properties | 248,071 |
| `config_db` | 2 maps, 1 API, 1 or 2 versions, 4 edits, 1 crash | 3 invariants, refinement of `ConfigStore` | 57,754 |
| `geo_store` | 2 maps, 2 versions, 4 objects, batches of 2, 3 changes or restarts | 1 invariant, refinement of `GeoSync` | 251,024 |
| `config_migration` | 5 first databases, 2 maps, 2 APIs, 2 obsolete tables; any number of crashes and edits | 2 invariants, 1 action property | 6,061 |
| `overlays` | 2 maps, 2 versions, 2 APIs, 3 URLs of 2 hosts, 3 edits; any number of crashes | 1 invariant, 1 action property | 1,272,257 |
| `tileserve_client` | 3 clients, 2 passes, 1 connection test, 3 tokens | 2 invariants, 1 action property | 382,385 |
| `oidc_session` | 2 calls beside `refreshMe`, 3 sessions | 3 invariants, 1 action property | 160,312 |
| `process` | 2 requests, ticks of 5 seconds, fairness | 3 invariants, 1 liveness property | 15,990 |
| `orphan_rows`, `static_columns` | small | one refuted claim each | |

Every module has a type invariant, `TypeOK` (in `ConfigMigration`, `MigrationTypeOK`).
`config_db` checks its own; the others are theorems, for every value of the constants, and no run repeats them.

What the passing runs show:

- `runner`. Whenever `writeMu` is free, memory and SQLite agree
  (`StoredMirrorsDisk`), and SQLite only ever changes by the one edit asked for
  (`SavesOnlyTheEdit`), also for SaveDatabase, which rewrites every table from the
  handler's copy. A deleted map leaves the
  active configuration even when the apply after the deletion fails
  (`DeletedMapInactive`); no sync, running or queued, brings back its rows
  (`PurgeIsFinal`) or its results (`StatusOnlyLive`). Connections do not leak, neither the
  one an apply replaces nor the one it opened and could not Ping or prepare
  (`NoLeakedConnection`), the active one is open on the database of the active
  configuration (`ActiveIsConnected`), and an apply only ever activates what is stored and
  saved (`AppliesWhatIsStored`).
  In every pass the client used for a map is the one for the server that the pass's own
  configuration gives its API (`PassHasClients`), though the map or the API may have moved
  since the ids of the pass were found due.
- `runner_live`. Every change and every manual sync is answered, so the lock order
  `writeMu`, `syncMu` is never inverted; and no ping of `wake` is lost: a map
  applied live is attempted without waiting for a timer, wherever the loop was. With two
  APIs, one handler deletes an API while the other creates the map on it or moves it there:
  SQLite never has a map without its API (`ApisInUseStay`).
- `scheduler`. While the loop sleeps, with no ping pending and no apply between its swap
  and its ping, no map is waiting for its first sync
  (`NoneWaitsUnseen`); a map that came due during a sync is late by at most that
  sync (`LateByTheSyncAtMost`); the maps just synced are not late at all
  (`SyncedStayOnTime`); time always goes on (`NoSpin`); and a map with an interval
  is synced for ever (`KeepsSyncing`).
- `config_db`. A Load at any moment sees whole edits (`EditsAreAtomic`), equal to
  memory between edits and in the same order (`StoredIsLoaded`), and no version or
  static column outlives its map (`NoOrphanRows`).
- `geo_store`. The table changes only by storing all that was fetched of one version,
  or by a purge between syncs (`SyncsAreWhole`); and after a pass over a map without failures, every object is
  stored under the last version to report it and, with prune, nothing else is left
  of the versions synced (`MapSyncedWhole`).
- `config_migration`. No start changes what is configured, wherever the one before was
  cut short and whatever was edited in between (`StartsKeepConfig`); once `Open` has
  returned, nothing is left that only an older version would read (`OpenIsMigrated`);
  and rows of a map go with it on an upgraded database too (`RowsHaveMaps`). The first
  and the last pull in opposite directions: foreign keys enforced too early lose rows in
  the migration, never enforced they leave them behind.
- `overlays`. Between edits every row is what the stored configuration asks for, except
  those whose own last statement was missed (`RowsAreCurrent`): no failure spoils
  another row, and the next statement on the source repairs it. An edit never deletes
  the row of a source that stays in use (`RowsStay`), so EDP's users keep what they
  selected.

- `tileserve_client`. However often the server forgets tokens, a client with credentials
  reports a 401 only when the token refused was issued, and stored by the client, during
  that very call (`ExpiryIsInvisible`), and a call ends after two logins and two fetches
  (`BoundedTrips`). No client ever has two tokens the server accepts (`OneLiveToken`),
  which rests on `syncMu`: nothing in the client itself sees to it.
- `oidc_session`. Calls, the expiry timer and 401s share one renewal, and a failed one ends
  the session, so no refresh token is presented twice unless the page went away in
  between (`RefreshTokenOnce`). A call waiting after a 401 is repeated with another token,
  though the renewal may have been started by anyone, for another session
  (`RetryIsFresh`). A logout holds, and nobody is shown without a session, but for the one
  overtaken renewal and the one late answer the properties name (`LogoutHolds`,
  `ShownHasSession`).
- `process`. The databases outlive the handlers unless Shutdown's time ran out
  (`DatabasesOutliveHandlers`). A stop takes Shutdown's grace and the wait for locks that
  handlers hold, nothing else (`StopWaitsForHandlersOnly`). Between two failing discoveries,
  or before the first, a request waits at the verifier cache for one `oidcTimeout` at most
  (`VerifyWaitIsBounded`): failures are what it waits for, and once one discovery succeeds
  nobody waits. How many failures of others that is has no bound in the code, since later
  requests may get the mutex first. A stop ends although handlers that hold no lock hang (`StopCompletes`).

### Bounds, and why they are enough

- `Runner`: one map is enough for every property, each of which is about one map at
  a time, and with one map every edit contends for it; with two URLs for its API a client
  can be the one for the wrong server; two databases tell a
  connection from its replacement; two handlers contend for `writeMu` while a sync
  and the scheduler contend for `syncMu`; three requests cover create, delete,
  create again, or two changes under a manual sync; three handles suffice for the
  active connection, the one being opened and the one a pass still refers to. The
  proofs have none of these bounds. Liveness needs a smaller graph: `runner_live` has one
  database, one URL and only maps without an interval, which does not matter for who waits
  for whom; and two APIs, so that a map can be moved to the one that is being deleted.
- `Scheduler`: the intervals 2 and 3 and syncs of 0 to 3 have every order of
  "interval shorter than, equal to and longer than the sync"; two maps are needed
  for one to be late because of the other; two changes cover one during a sync and
  one asleep. `Cap` = 7 is beyond interval plus sync, which an assumption states.
- `ConfigDB`: two maps and up to four edits cover create, create, delete and save
  or create again, where orders and row ids diverge; two-element version lists in
  another order than the alphabet's show that the order is kept.
- `GeoStore`: three objects of one map make two batches of two. The configurations
  share objects between versions, list the versions in both orders and one of them
  twice, drop a version, drop a map, add a static column, and switch prune off.
- `ConfigMigration` needs no bound on crashes or edits, since its data is finite. The
  first databases are a fresh file and four of the oldest shape: with an API to move,
  with a DSN that cannot be split, without an API, and with an API that already has the
  id of the one to be moved. Newer shapes are what a cut-short start leaves of these.
- `Overlays`: two maps and two APIs show that an edit of one API touches only the maps
  it serves; two URLs with the same host make an edit that changes no source; three
  edits are create, change and change back or delete. Maps, versions and APIs are
  symmetric: nothing in the module tells them apart. The theorems have no such bounds.
- `TileserveClient`: three clients are the active one, the one a pass still has after an
  apply, and a prober's; two passes are what could share a client; three tokens beside the
  configured one are two sessions of one call and one more. A token that was replaced is
  never used again, so more of them repeat this.
- `OidcSession`: two calls beside `refreshMe` join, start and outlast each other's renewals;
  three sessions are a login, a renewal and either a second renewal or a second login.
- `Process`: with a tick of five seconds, Shutdown's grace is 1, a discovery 2 and the stop
  timeout 6. Two requests can hold both locks at a stop; and at the verifier cache one that
  failed can come back and have the mutex again before the one that waits, as often as it
  likes. The theorems have no such bound.
- `CHECK_DEADLOCK FALSE` is in `overlays` and `config_db`, where a behaviour ends once
  its edits are used up, and in `geo_store`, where it ends once its changes are used up and
  the last one left nothing configured. All other runs are checked for deadlock.

### Fairness

`Runner`: strong fairness per goroutine (`Serves` of each handler, `SyncStep` of
each manual sync, `Runs` of the scheduler). Weak fairness would not do, since a
lock that others keep taking is not always free; strong fairness is what Go's
`sync.Mutex` gives, which hands the lock to a waiter that has starved for a
millisecond. It also says that calls outside end in an answer or an error. For HTTP
that is the client's timeout; for MariaDB it is an assumption, since the driver is
given no read timeout. Nothing is assumed of `TimerFires`, so liveness of new maps
rests on `wake` alone. `Restart` and requests are never fair.

`Scheduler`: the loop is scheduled, and time passes, which bounds a sync by
`MaxSync`. Nothing is assumed of `Swap`, `Ping` and `RemoveActiveMap`: an apply may hang in
between, and `KeepsSyncing` still holds.

`Process`: the loop is scheduled, the verifier's mutex is taken when it is free, and time
passes (weak); the loop gets a lock that is free
again and again, as above, and its select does not ignore a done context for ever, since
Go's select picks at random among what is ready (both strong). Whoever holds a lock of the
runner lets go of it: this is the assumption that calls outside end, and it is only made
of holders, so the run shows that nothing else of a handler can keep a stop from
completing. `Exit` stands for the end of the process and its next start.

## Where the code and its comments part

Each is a run that ends in a counterexample; `PROJECT.json` has the quotations.

1. `orphan_rows`: `deleteMapObjects` skips the DELETE while no database is active. After a
   restart there *is* something to clean up by then, and nothing does so later. In the run's
   counterexample MariaDB is reachable: the deletion's handler takes `writeMu` before `Run`'s
   first apply does, since `startWebServer` comes before `Run`. A first apply that fails
   leaves the same window open until one succeeds.
2. `static_columns`: EnsureSchema does not alter a table that exists, so a static
   column added live is not created, and every later upsert fails.

### Seen while modelling, without a run

Behaviour of the code that a maintainer may want to know of. The models contain it, or
the properties name it as their exception; no run is spent on it.

- `lastSync` keeps the entry of a deleted map (`schedule.go:102`). Created again under its
  id, without an interval, it is never synced, although its rows were purged.
- A scheduled sync whose connection `apply` closes counts as done (`runner.go:210`,
  `schedule.go:115`), so a map without an interval is not retried on the next tick.
- The sleep after a sync is computed for the other maps from before it, so it can go past
  the time one of them is due, by at most the sync (`LateByTheSyncAtMost` is exactly that).
- CreateMap and UpdateMap check static columns against the stored column names, not the
  defaults these are completed with; SaveDatabase with a colliding name then blocks edits
  of other maps (`config.go:300`, `config.go:440`).
- The rows and results of a version that UpdateMap removed stay, and nothing prunes them
  (`maps.go:124`). When two versions share an object, one version's prune deletes the row
  and the other's fetch fails, the object is missing until the next sync (`sync.go:71`).
- A renewal in flight at a logout stores its session again when it arrives (`oidc.ts:92`,
  against "Forgets the SSO token locally" at `oidc.ts:129`); one in flight while the
  callback page logs in overwrites or drops the new session.
- An account answer that outlives its session shows a user without one
  (`AuthContext.tsx:31`), until the next call.
- A `refreshMe` on mount that fails with anything but a 401 leaves `ready` false, and the
  page blank until it is reloaded (`AuthContext.tsx:58`; `stuck` in `OidcSession`).
- A page reloaded with a renewal in flight finds the consumed refresh token and presents
  it again. A provider that takes that for theft ends the session.
- A cancelled `Run` may wait for a lock a handler holds. On the console that has no bound;
  as a service it ends after thirty seconds, with `run` still at work.
- Shutdown's five seconds are shorter than a discovery's ten, so a request that waits for
  the verifier can reach closed databases (`main.go:200`).
- As a service, `run` failing before it opened anything still reports Running, and exit
  code 0; its error is not logged when it arrives during a stop.

## Proofs

The theorems hold for every value of the constants that meets the `ASSUME`s of the
modules: any sets of maps, APIs, handlers, databases and connections, and any
bound. The assumptions say that the model's "none" values are none of the values
they stand beside, that the process sets are disjoint, that what is in SQLite at
first was valid, and, in `GeoStore`, that two maps have no object in common.

**RunnerProofs.** None of the safety properties is inductive. `PurgeIsFinal`, for
one, needs to know that the map whose transaction is in flight is live, which needs
that a purge waits for `syncMu`, which needs to know who holds it. The inductive
invariant `IInv` is the conjunction of

- `TypeInv`: types, that a handler past its request serves one, and that a pass with
  maps to sync has a connection;
- `LockInv`: a handler is between `locked` and `unlock` exactly while it holds
  `writeMu`; `SyncInv`: likewise `syncing` and `syncMu`, and outside a pass its
  locals are empty;
- `MirrorInv`: what the copy of the handler in the lock is worth at each label,
  and how `stored` and `disk` differ while it is between the two writes;
- `SwapInv`: what `apply` is about to activate is the stored configuration;
- `LiveInv`: the active configuration, every map of a pass in flight and every
  result is live;
- `ConnInv`: only the apply between opening a connection and closing the previous one
  refers to a connection other than the active one, and it closes the one it opened when
  Ping or EnsureSchema fails; the active one is open, on the database of
  the active configuration, with the clients of its APIs;
- `ApisInUseStay` and `PassHasClients`, inductive given the others.

From it follow `TypeCorrect`, `StoredIsSaved`, `ApisStay`, `DeletedIsInactive`,
`StatusIsLive`, `NoneLeaks`, `ActiveConnected`, `PassesHaveClients`, `OnlyTheEdit`,
`PurgedStaysPurged` and `AppliesStored`: every safety property of the two runs. Per action
the proof has a step, and under it one per conjunct the action can disturb.

**GeoStoreProofs.** `TxInv` says what an open transaction holds: the committed rows
with exactly the objects `fetched \ rest` moved to the current scope and, once the
prune ran, nothing else in that scope. With it `WholeSyncs` proves that `Fetched`
maps to `Fetch` of `GeoSync`, `Commit` to `Store` of all that was fetched, `Fails`
and a restart to `GiveUp`, `Purge` to `Purge` or a stutter, and every other step,
the batches and the prune among them, to a stutter.
`DoneInv` states `MapSyncedWhole` for the versions already done; an object moved
from one version to another by a later one is the interesting case. `MapWhole`
follows.

**OverlaysProofs.** `RowsAreCurrent` speaks of the time between edits only;
`OverlayInv` says what holds within one: a source whose row is not as wanted has a
statement left or is in `missed`, and every statement left writes what is wanted
(`Fits`). The lemmas `CreateCovers`, `UpdateCovers` and `DeleteCovers` show that what
each edit sends covers every source whose row it makes wrong, and fits; `EditInv` and
`StatementInv` carry that to a step. `RowsCurrent` and `RowsKept` follow: a statement
that deletes is on a source no longer in use.

**SchedulerProofs.** The bounds are arithmetic over what a tick knew: the invariant keeps,
for every map the tick did not sync, that its remaining time is among `others` unless a
ping is pending or an apply is between its swap and its ping, and that ages have grown by no
more than `syncFor` since. `NoneUnseen`,
`LateByTheSync` and `SyncedOnTime` follow for any intervals and sync durations with
`MaxSync < Cap`.

**TileserveClientProofs.** `OneSession` needs to know that of two goroutines with one
client only one is in `getJSON`, hence who holds `syncMu` and that a prober's client is its
own; and that a client logs in again only once the server has refused its token.
`CallsAreBounded` gives each label of `getJSON` its number of trips, and `ExpiryStaysInside`
from this: at the second fetch the client holds a token with a number above `began`, since
the login before it stored one issued then.

**OidcSessionProofs.** `PresentedOnce` rests on: every refresh token presented so far is older
than the stored one, or is the one `asking`, or was cut by an unload. `RetriesAreFresh`
needs that a call that waits sent a token older than the answer to come. `LogoutEndsSession`
and `ShownIsStored` follow the stored session through every way it can end.

**LifecycleProofs, `Process`.** `StopInv` balances the time: at every moment of a stop what is left of the
service's timeout and what went by, at work or waiting for a lock, make up the whole of
it. `WaitInv` says that, until there is a verifier, no request has waited longer than the
discovery in progress has run; with one, no time passes while a request is at the cache.
The theorems hold for any timeouts of
which Shutdown's is not longer than the service's.

**LifecycleProofs, `ConfigMigration`.** The first database may be any whose rows belong to maps. `StageInv`
says what `Open` has done by each stage; `Rewriting` and `Moving` say, for each statement
left of the two transactions, where the static columns are and how much of the move is
done. `ConfigKept` then needs one look at each commit, and `Migrated` is `StageInv` at
`open`.

**ConfigDBProofs.** The properties compare a configuration, which is lists, with tables, which
are sets of rows, so the proof needs to know when rows say what a list says. A *layout* of a
configuration is sort orders and row ids for its items, growing with the lists but otherwise
any: gaps are what deletions leave, and the row ids of a map say nothing of its place.
`TablesOf(c, l)` are the tables with `c` in layout `l`, and `Shows(t, c)` says that `t` are such
tables. The argument has four steps:

- *Loading gives the configuration back* (`LoadedIs`, from `InOrderIs`: rows with distinct
  orders are in order in one way only). This is where one would sort, and where an induction
  over the sort would come in. The model's `CHOOSE` asks for a list in order, and the
  uniqueness of that list has a proof without induction: where two such lists first differ,
  which is a least element of a set of naturals (`LeastNatural`), one of them skips a row.
- *Each statement leads from a layout of one configuration to a layout of another*, one
  lemma per statement (`InsertMapShows`, `ClearVersionsShows`, `DeleteMapShows`, ...).
- *An edit is its stages.* `Stage(c, t, o, k, now)` says what the tables are after the first
  `k` statements of edit `o`: within a Save the first APIs, then the first maps are back;
  within an UpdateMap its map is half the old one and half the new. `EditStep` leads from one
  stage to the next, `EditMade` from the last to the edited configuration, for lists of any
  length.
- *The invariant* `Inv`. That the runner's copy is what a load returns is not inductive: it
  fails between the commit and `setStored`, when the tables already show the edit, and it
  says nothing of the open transaction, whose commit is what could break it. `Inv` adds both:
  the tables show `stored`, or its edit in between; and an open transaction is at a stage of
  its edit, with the statements after it left in `todo`.

`TypeCorrect`, `StoredLoaded` and `NoOrphans` follow. For `EditsAtomic`, the refinement of
`ConfigStore`, every step but `Commit` leaves the committed tables alone, and `Commit` leads
from tables that show `stored` to tables that show an accepted edit of it. The theorem
assumes of the constants that versions are names, that "no transaction" is not a set of
tables and "no edit" not an edit, and that the bounds are naturals.

**Only model-checked.** Liveness (`RequestsAnswered`, `NewMapsGetSynced`, `NoSpin`,
`KeepsSyncing`, `StopCompletes`) needs ENABLED and fairness, beyond this prover's backends.
Every other property of a passing run is a theorem. The two findings are counterexamples,
which is what a run is for.

## What is left out, and assumed

- A tile server reports only objects of the map it was asked for, and object ids
  are unique to a map (`Objects`). `syncAll` rewrites the version of what it gets,
  not the map.
- `geo_objects` columns other than uuid, map, version and the static ones are data
  no property tells apart. A column mapping that skips the map or version column,
  for a table the tool does not own, is not modelled.
- In `Runner` the versions of a map are one; a restart stands for a kill and for a
  graceful shutdown, whose order is in `Process`.
- What a token's claims grant (groups, permissions, the superuser flag) is a pure function
  of the token and the bootstrap file. In `OidcSession` the backend accepts or refuses any
  token, which covers every such answer.
- The prune's list of ids is one statement, however long; beyond the protocol's 65,535
  placeholders it would fail, and roll back as any other statement does.
- The security log is an append nobody reads back but its page; a failure to
  append is logged and ignored by the code.
- Identifier patterns, interval and DSN parsing, status codes, rendering, the
  wording of logs: pure conversions. Where they can refuse a request they are part
  of `Reject` and `ApplyFails`.
- `ConfigDB` starts from an empty, current schema; older ones are `ConfigMigration`'s. A
  tls parameter lifted out of an old connection string is left out there.
- A database from before there were several APIs, with maps but no API, is opened with
  maps that name no API. Validation then refuses edits of other maps until these are
  updated or deleted. `ConfigMigration` has such a database; `Runner`'s first
  configurations are valid ones.
- A map's versions are a set in `Overlays`, with a flag for a list that names one twice.
  The second statement on a row repeats the first, so the two count as one.
- Overlay rows written by others, and the columns this tool writes the same for every
  row, are left out. Only one database is in `Overlays`; with another one active
  nothing is written to this one, which is `active # "on"`.
- The order of rows in a saved list
  is unique, so Load's second sort key never decides.

### Not modelled

Database DSN and TLS settings, the bootstrap file and SSO settings, and static file
serving keep no state: they are conversions and reads. The security log is an append that
no behaviour depends on. The status page's counters, display order and log ring, and what
the web server decodes and renders, are data the properties do not tell apart; of the
validation rules, those that relate two parts of the configuration and can be undone by
another edit (a map's API) are modelled, and the patterns are part of `Reject`.

## Plan

Done, in this order: `Runner` (the core: everything else hangs on its locks and its
active state) and `RunnerProofs`; `Scheduler`; `ConfigStore` and `ConfigDB`;
`GeoSync`, `GeoStore` and `GeoStoreProofs`; `ConfigMigration`; `Overlays` and
`OverlaysProofs`; `TileserveClient`, `OidcSession` and `Process`, with their proofs;
`SchedulerProofs`; the connections in `RunnerProofs`; the migrations and the stop in
`LifecycleProofs`; `ConfigDBProofs`.

Next, should the project grow: column collisions between `database.columns`, their
defaults and static columns, with the edits that can bring one about; and a module that
puts `Runner`'s `Persist` and `ConfigDB`'s transaction together, which share the configuration
and nothing else.
