------------------------------- MODULE Runner -------------------------------
(***************************************************************************)
(* internal/runner: the object every HTTP change handler, every manual     *)
(* sync and the scheduler loop share.                                      *)
(*                                                                         *)
(*   disk    the SQLite configuration (package configdb)                   *)
(*   stored  Runner.stored, the in-memory copy the config UI edits         *)
(*   active  Runner.cfg / clients / db, the triple syncs run against       *)
(*   writeMu serialises changes (read-modify-write of stored, then apply)  *)
(*   syncMu  serialises syncs, purges and overlay writes                   *)
(*                                                                         *)
(* Runner.mu is held only around pointer swaps and copies, so each of      *)
(* those is one atomic step here and mu needs no variable.                 *)
(*                                                                         *)
(* Data kept: which maps and APIs exist, the API a map is fetched from,    *)
(* how the map is scheduled, an API's base URL and the database chosen.    *)
(* Every outcome of SQLite, of MariaDB and of a tile server is a choice.   *)
(***************************************************************************)
EXTENDS Naturals, FiniteSets

CONSTANTS
    MapId,      \* map ids
    APIs,       \* ids of tileserve-go APIs
    URLs,       \* base URLs an API can be given
    Modes,      \* ways a map can be scheduled, out of "off", "once", "repeat"
    DBs,        \* MariaDB databases the configuration can name
    Handles,    \* identities of *store.Store connections
    Writers,    \* goroutines serving a configuration change
    Syncers,    \* goroutines serving a manual "sync now"
    Sched,      \* the goroutine in Runner.Run
    NoMap, NoAPI, NoDB, NoHandle, NoReq, NoTx, Nobody,
    FirstConfigs,   \* what the SQLite file may hold when the process starts
    MaxRequests,    \* bound: changes and manual syncs in a behaviour
    MaxCrashes      \* bound: process ends and restarts in a behaviour

ASSUME DistinctNone ==
    /\ NoAPI \notin URLs
    /\ NoDB \notin DBs
    /\ NoHandle \notin Handles

ASSUME DistinctProcs ==
    /\ Writers \cap Syncers = {}
    /\ Sched \notin Writers \cup Syncers
    /\ Nobody \notin Writers \cup Syncers \cup {Sched}

ASSUME Bounds == MaxRequests \in Nat /\ MaxCrashes \in Nat

Appliers  == Writers \cup {Sched}     \* whoever may run apply
SyncProcs == Syncers \cup {Sched}     \* whoever may run runSyncMaps
Procs     == Writers \cup Syncers \cup {Sched}

-----------------------------------------------------------------------------
(* Configurations and the changes asked for. *)

\* "off" is a Disabled map, "once" one without an Interval.
Mode == {"off", "once", "repeat"} \cap Modes

MapCfg == [api : APIs, mode : Mode]

\* NoMap is outside MapCfg and NoReq outside Requests: a model value in every
\* configuration, and what the proofs need of it.
ASSUME NoMapDistinct == NoMap \notin MapCfg

Config == [ apis : [APIs -> URLs \cup {NoAPI}],
            maps : [MapId -> MapCfg \cup {NoMap}],
            db   : DBs \cup {NoDB} ]

EmptyConfig == [ apis |-> [a \in APIs |-> NoAPI],
                 maps |-> [m \in MapId |-> NoMap],
                 db   |-> NoDB ]

MapsOf(c)     == {m \in MapId : c.maps[m] # NoMap}
UsersOf(c, a) == {m \in MapsOf(c) : c.maps[m].api = a}

\* Config.ValidateMaps: every map's apiId names a configured API.
ValidMaps(c) == \A m \in MapsOf(c) : c.apis[c.maps[m].api] # NoAPI

\* Config.Validate: the database must be filled in as well.
Valid(c) == c.db # NoDB /\ ValidMaps(c)

ASSUME FirstConfigsSaved == FirstConfigs \subseteq {c \in Config : ValidMaps(c)}

MapEdits == {"CreateMap", "UpdateMap", "DeleteMap"}
APIEdits == {"CreateAPI", "UpdateAPI", "DeleteAPI"}

PutMap  == [kind : {"CreateMap", "UpdateMap"}, id : MapId, to : MapCfg]
DropMap == [kind : {"DeleteMap"}, id : MapId, to : {NoMap}]
PutAPI  == [kind : {"CreateAPI", "UpdateAPI"}, id : APIs, to : URLs]
DropAPI == [kind : {"DeleteAPI"}, id : APIs, to : {NoAPI}]
PutDB   == [kind : {"SaveDatabase"}, to : DBs]

Requests == PutMap \cup DropMap \cup PutAPI \cup DropAPI \cup PutDB

ASSUME NoReqDistinct == NoReq \notin Requests

\* The configuration c with the change r merged in.
Edit(c, r) ==
    [ maps |-> IF r.kind \in MapEdits THEN [c.maps EXCEPT ![r.id] = r.to] ELSE c.maps,
      apis |-> IF r.kind \in APIEdits THEN [c.apis EXCEPT ![r.id] = r.to] ELSE c.apis,
      db   |-> IF r.kind = "SaveDatabase" THEN r.to ELSE c.db ]

\* The checks a handler makes on its copy of the configuration.
Accepts(c, r) ==
    /\ r.kind = "CreateMap" => c.maps[r.id] = NoMap
    /\ r.kind \in {"UpdateMap", "DeleteMap"} => c.maps[r.id] # NoMap
    /\ r.kind \in {"CreateMap", "UpdateMap"} => ValidMaps(Edit(c, r))
    /\ r.kind = "CreateAPI" => c.apis[r.id] = NoAPI
    /\ r.kind \in {"UpdateAPI", "DeleteAPI"} => c.apis[r.id] # NoAPI
    /\ r.kind = "DeleteAPI" => UsersOf(c, r.id) = {}

\* What configdb writes: Save replaces every table with the handler's whole
\* copy, the other methods touch only the rows of one map or API.
Written(d, c, r) == IF r.kind = "SaveDatabase" THEN Edit(c, r) ELSE Edit(d, r)

\* Maps whose EDP overlay rows the handler rewrites after saving r: the map
\* itself, or for an API moved to another URL every map that uses it.
OverlayMaps(before, r) ==
    IF r.kind \in MapEdits THEN {r.id}
    ELSE IF r.kind = "UpdateAPI" /\ before.apis[r.id] # r.to
         THEN UsersOf(before, r.id) ELSE {}

-----------------------------------------------------------------------------
VARIABLES
    disk,       \* what SQLite holds
    stored,     \* Runner.stored
    active,     \* Runner.cfg, clients and db
    conn,       \* handle -> the database it is open on, NoDB when not open
    rows,       \* database -> maps with geo_objects rows in it
    results,    \* maps the status page shows a result for
    writeMu, syncMu,
    wake,       \* Runner.wake, a channel with room for one ping
    lastSync,   \* Run's lastSync: the maps it holds an entry for
    pc,
    op,         \* writer -> the change it serves
    work,       \* applier -> its local copy of the configuration
    handle,     \* applier -> the connection it has just opened or must close
    pending,    \* writer -> maps whose overlay rows are still to be written
    ids,        \* syncing process -> the maps it was asked to sync
    pass,       \* syncing process -> the locals of runSyncMaps and syncAll
    requests, crashes   \* what is left of the two bounds

configVars == <<disk, stored>>
lockVars   == <<writeMu, syncMu>>
dbVars     == <<conn, rows>>
writerVars == <<op, work, handle, pending>>
syncVars   == <<ids, pass>>
schedVars  == <<wake, lastSync>>
budgetVars == <<requests, crashes>>
vars == <<configVars, active, dbVars, results, lockVars, schedVars, pc,
          writerVars, syncVars, budgetVars>>

Active == [ cfg     : Config,
            clients : [APIs -> URLs \cup {NoAPI}],
            db      : Handles \cup {NoHandle} ]

NotConfigured == [ cfg     |-> EmptyConfig,
                   clients |-> EmptyConfig.apis,
                   db      |-> NoHandle ]

\* tx is the transaction of UpsertGeoObjects in flight, if any.
Tx   == [map : MapId, db : DBs]
ASSUME NoTxDistinct == NoTx \notin Tx

Pass == [ snap : Active, todo : SUBSET MapId, tx : Tx \cup {NoTx} ]

NoPass == [snap |-> NotConfigured, todo |-> {}, tx |-> NoTx]

WriteHeld == {"locked", "persisted", "purge", "overlay", "apply",
              "opened", "close", "unlock"}
Label == WriteHeld \cup {"idle", "lock", "sync", "syncing", "tick", "rest", "sleep"}

TypeOK ==
    /\ disk \in Config
    /\ stored \in Config
    /\ active \in Active
    /\ conn \in [Handles -> DBs \cup {NoDB}]
    /\ rows \in [DBs -> SUBSET MapId]
    /\ results \subseteq MapId
    /\ writeMu \in Appliers \cup {Nobody}
    /\ syncMu \in SyncProcs \cup {Nobody}
    /\ wake \in BOOLEAN
    /\ lastSync \subseteq MapId
    /\ pc \in [Procs -> Label]
    /\ op \in [Writers -> Requests \cup {NoReq}]
    /\ work \in [Appliers -> Config]
    /\ handle \in [Appliers -> Handles \cup {NoHandle}]
    /\ pending \in [Writers -> SUBSET MapId]
    /\ ids \in [SyncProcs -> SUBSET MapId]
    /\ pass \in [SyncProcs -> Pass]
    /\ requests \in 0..MaxRequests
    /\ crashes \in 0..MaxCrashes

-----------------------------------------------------------------------------
Goto(p, l) == pc' = [pc EXCEPT ![p] = l]

AllClosed == [h \in Handles |-> NoDB]
BootPc    == [p \in Procs |-> IF p = Sched THEN "lock" ELSE "idle"]

\* New loads the saved configuration; nothing is applied yet. The web server
\* already runs, so a change request may be served before Run's first apply.
Init ==
    /\ disk \in FirstConfigs
    /\ stored = disk
    /\ active = NotConfigured
    /\ conn = AllClosed
    /\ rows = [d \in DBs |-> {}]
    /\ results = {}
    /\ writeMu = Nobody /\ syncMu = Nobody
    /\ wake = FALSE /\ lastSync = {}
    /\ pc = BootPc
    /\ op = [w \in Writers |-> NoReq]
    /\ work = [p \in Appliers |-> EmptyConfig]
    /\ handle = [p \in Appliers |-> NoHandle]
    /\ pending = [w \in Writers |-> {}]
    /\ ids = [p \in SyncProcs |-> {}]
    /\ pass = [p \in SyncProcs |-> NoPass]
    /\ requests = 0 /\ crashes = 0

-----------------------------------------------------------------------------
(* A configuration change: CreateMap .. DeleteAPI and SaveDatabase. *)

Request(w) ==
    /\ pc[w] = "idle"
    /\ requests < MaxRequests
    /\ requests' = requests + 1
    /\ \E r \in Requests : op' = [op EXCEPT ![w] = r]
    /\ Goto(w, "lock")
    /\ UNCHANGED <<configVars, active, dbVars, results, lockVars, schedVars,
                   work, handle, pending, syncVars, crashes>>

\* Slip: the copy is taken without waiting for the lock.
LockNotTaken(p) ==
    /\ pc[p] = "lock"
    /\ writeMu' = p
    /\ work' = [work EXCEPT ![p] = stored]
    /\ Goto(p, IF p = Sched THEN "apply" ELSE "locked")
    /\ UNCHANGED <<configVars, active, dbVars, results, syncMu, schedVars,
                   op, handle, pending, syncVars, budgetVars>>

\* writeMu.Lock, then storedCopy. Run's first apply takes the same lock.
Lock(p) ==
    /\ pc[p] = "lock"
    /\ writeMu = Nobody
    /\ writeMu' = p
    /\ work' = [work EXCEPT ![p] = stored]
    /\ Goto(p, IF p = Sched THEN "apply" ELSE "locked")
    /\ UNCHANGED <<configVars, active, dbVars, results, syncMu, schedVars,
                   op, handle, pending, syncVars, budgetVars>>

\* Slip: the edit is made on stored itself, so an error leaves it there.
RejectKeepsEdit(w) ==
    /\ pc[w] = "locked"
    /\ stored' = Edit(stored, op[w])
    /\ Goto(w, "unlock")
    /\ UNCHANGED <<disk, active, dbVars, results, lockVars, schedVars,
                   writerVars, syncVars, budgetVars>>

\* Slip: an early return that does not release the lock.
RejectKeepsLock(w) ==
    /\ pc[w] = "locked"
    /\ Goto(w, "idle")
    /\ UNCHANGED <<configVars, active, dbVars, results, lockVars, schedVars,
                   writerVars, syncVars, budgetVars>>

\* The change is invalid, its connection test fails, or SQLite reports an
\* error: the handler returns and nothing was saved.
Reject(w) ==
    /\ pc[w] = "locked"
    /\ Goto(w, "unlock")
    /\ UNCHANGED <<configVars, active, dbVars, results, lockVars, schedVars,
                   writerVars, syncVars, budgetVars>>

\* The change is valid, its connection test (if any) passes and SQLite commits.
Persist(w) ==
    /\ pc[w] = "locked"
    /\ Accepts(work[w], op[w])
    /\ disk' = Written(disk, work[w], op[w])
    /\ work' = [work EXCEPT ![w] = Edit(@, op[w])]
    /\ Goto(w, "persisted")
    /\ UNCHANGED <<stored, active, dbVars, results, lockVars, schedVars,
                   op, handle, pending, syncVars, budgetVars>>

\* setStored; the audit entry that follows is best effort and not modelled.
SetStored(w) ==
    /\ pc[w] = "persisted"
    /\ stored' = work[w]
    /\ pending' = [pending EXCEPT ![w] = OverlayMaps(stored, op[w])]
    /\ Goto(w, IF op[w].kind = "DeleteMap" THEN "purge" ELSE "overlay")
    /\ UNCHANGED <<disk, active, dbVars, results, lockVars, schedVars,
                   op, work, handle, syncVars, budgetVars>>

\* Slip: the active config keeps the map until the next successful apply.
RemoveNothing(m) == active

RemoveActiveMap(m) == [active EXCEPT !.cfg.maps[m] = NoMap]

\* The status page, which keeps the last result of each map.
RecordMapVersion(m) == results' = results \cup {m}
RemoveMap(m) == results' = results \ {m}

\* Slip: the purge does not wait for a running sync.
PurgeDuringSync(w) ==
    /\ pc[w] = "purge"
    /\ LET m == op[w].id
       IN /\ active' = RemoveActiveMap(m)
          /\ RemoveMap(m)
          /\ \/ UNCHANGED rows
             \/ /\ active.db # NoHandle
                /\ rows' = [rows EXCEPT ![conn[active.db]] = @ \ {m}]
    /\ Goto(w, "overlay")
    /\ UNCHANGED <<configVars, conn, lockVars, schedVars, writerVars,
                   syncVars, budgetVars>>

\* Slip: the status page keeps the map's results.
PurgeKeepsStatus(w) ==
    /\ pc[w] = "purge"
    /\ syncMu = Nobody
    /\ active' = RemoveActiveMap(op[w].id)
    /\ \/ UNCHANGED rows
       \/ /\ active.db # NoHandle
          /\ rows' = [rows EXCEPT ![conn[active.db]] = @ \ {op[w].id}]
    /\ Goto(w, "overlay")
    /\ UNCHANGED <<configVars, conn, results, lockVars, schedVars, writerVars,
                   syncVars, budgetVars>>

\* deleteMapObjects: one critical section of syncMu, so one step. The DELETE
\* itself may fail, which the handler reports and does not retry.
Purge(w) ==
    /\ pc[w] = "purge"
    /\ syncMu = Nobody
    /\ LET m == op[w].id
       IN /\ active' = RemoveActiveMap(m)
          /\ RemoveMap(m)
          /\ \/ UNCHANGED rows
             \/ /\ active.db # NoHandle
                /\ rows' = [rows EXCEPT ![conn[active.db]] = @ \ {m}]
    /\ Goto(w, "overlay")
    /\ UNCHANGED <<configVars, conn, lockVars, schedVars, writerVars,
                   syncVars, budgetVars>>

\* createMapOverlays, updateMapOverlays or deleteMapOverlays for one map: a
\* critical section of syncMu that writes another table.
WriteOverlay(w) ==
    /\ pc[w] = "overlay"
    /\ syncMu = Nobody
    /\ \E m \in pending[w] : pending' = [pending EXCEPT ![w] = @ \ {m}]
    /\ UNCHANGED <<configVars, active, dbVars, results, lockVars, schedVars,
                   pc, op, work, handle, syncVars, budgetVars>>

\* Slip: the lock is released once the change is saved, before it is applied.
OverlaysDoneUnlocks(w) ==
    /\ pc[w] = "overlay"
    /\ pending[w] = {}
    /\ writeMu' = Nobody
    /\ Goto(w, "apply")
    /\ UNCHANGED <<configVars, active, dbVars, results, syncMu, schedVars,
                   writerVars, syncVars, budgetVars>>

OverlaysDone(w) ==
    /\ pc[w] = "overlay"
    /\ pending[w] = {}
    /\ Goto(w, "apply")
    /\ UNCHANGED <<configVars, active, dbVars, results, lockVars, schedVars,
                   writerVars, syncVars, budgetVars>>

-----------------------------------------------------------------------------
(* apply, run under writeMu by a handler and once by Run. *)

\* Validate fails, or the settings make no connector: nothing was opened and
\* the previous active state stays.
ApplyFails(p) ==
    /\ pc[p] = "apply"
    /\ Goto(p, "unlock")
    /\ UNCHANGED <<configVars, active, dbVars, results, lockVars, schedVars,
                   writerVars, syncVars, budgetVars>>

\* A handle nobody refers to any more stands for a newly made *store.Store.
FreeHandles ==
    {h \in Handles : /\ conn[h] = NoDB
                     /\ active.db # h
                     /\ \A p \in Appliers : handle[p] # h
                     /\ \A p \in SyncProcs : pass[p].snap.db # h}

NewHandle == CHOOSE h \in FreeHandles : TRUE

\* Slip: apply does not validate.
ApplyOpensInvalid(p) ==
    /\ pc[p] = "apply"
    /\ work' = [work EXCEPT ![p] = stored]
    /\ FreeHandles # {}
    /\ conn' = [conn EXCEPT ![NewHandle] = stored.db]
    /\ handle' = [handle EXCEPT ![p] = NewHandle]
    /\ Goto(p, "opened")
    /\ UNCHANGED <<configVars, active, rows, results, lockVars, schedVars,
                   op, pending, syncVars, budgetVars>>

\* storedCopy, Validate, one lazy client per API, and the connection pool of
\* openStore, whose Ping and EnsureSchema are still to come.
ApplyOpens(p) ==
    /\ pc[p] = "apply"
    /\ Valid(stored)
    /\ work' = [work EXCEPT ![p] = stored]
    /\ FreeHandles # {}
    /\ conn' = [conn EXCEPT ![NewHandle] = stored.db]
    /\ handle' = [handle EXCEPT ![p] = NewHandle]
    /\ Goto(p, "opened")
    /\ UNCHANGED <<configVars, active, rows, results, lockVars, schedVars,
                   op, pending, syncVars, budgetVars>>

\* Slip: the error is returned without closing the pool.
OpenFailsUnclosed(p) ==
    /\ pc[p] = "opened"
    /\ handle' = [handle EXCEPT ![p] = NoHandle]
    /\ Goto(p, "unlock")
    /\ UNCHANGED <<configVars, active, dbVars, results, lockVars, schedVars,
                   op, work, pending, syncVars, budgetVars>>

\* Ping or EnsureSchema fails: the pool just opened is closed again, and the
\* previous active state stays.
OpenFails(p) ==
    /\ pc[p] = "opened"
    /\ conn' = [conn EXCEPT ![handle[p]] = NoDB]
    /\ handle' = [handle EXCEPT ![p] = NoHandle]
    /\ Goto(p, "unlock")
    /\ UNCHANGED <<configVars, active, rows, results, lockVars, schedVars,
                   op, work, pending, syncVars, budgetVars>>

\* Slip: an API that already has a client keeps it.
SwapReusesClients(p) ==
    /\ pc[p] = "opened"
    /\ active' = [ cfg     |-> work[p],
                   clients |-> [a \in APIs |-> IF active.clients[a] # NoAPI
                                              THEN active.clients[a] ELSE work[p].apis[a]],
                   db      |-> handle[p] ]
    /\ handle' = [handle EXCEPT ![p] = active.db]
    /\ Goto(p, "close")
    /\ UNCHANGED <<configVars, dbVars, results, lockVars, schedVars,
                   op, work, pending, syncVars, budgetVars>>

\* Ping and EnsureSchema succeeded: the pointer swap under mu.
Swap(p) ==
    /\ pc[p] = "opened"
    /\ active' = [cfg |-> work[p], clients |-> work[p].apis, db |-> handle[p]]
    /\ handle' = [handle EXCEPT ![p] = active.db]
    /\ Goto(p, "close")
    /\ UNCHANGED <<configVars, dbVars, results, lockVars, schedVars,
                   op, work, pending, syncVars, budgetVars>>

\* Slip: wake has no buffer, so a ping is lost unless Run is in its select.
CloseOldUnbuffered(p) ==
    /\ pc[p] = "close"
    /\ conn' = [h \in Handles |-> IF h = handle[p] THEN NoDB ELSE conn[h]]
    /\ handle' = [handle EXCEPT ![p] = NoHandle]
    /\ wake' = (wake \/ pc[Sched] = "sleep")
    /\ Goto(p, "unlock")
    /\ UNCHANGED <<configVars, active, rows, results, lockVars, lastSync,
                   op, work, pending, syncVars, budgetVars>>

\* oldDB.Close, then the non-blocking send on wake.
CloseOld(p) ==
    /\ pc[p] = "close"
    /\ conn' = [h \in Handles |-> IF h = handle[p] THEN NoDB ELSE conn[h]]
    /\ handle' = [handle EXCEPT ![p] = NoHandle]
    /\ wake' = TRUE
    /\ Goto(p, "unlock")
    /\ UNCHANGED <<configVars, active, rows, results, lockVars, lastSync,
                   op, work, pending, syncVars, budgetVars>>

Unlock(p) ==
    /\ pc[p] = "unlock"
    /\ writeMu' = Nobody
    /\ op' = [w \in Writers |-> IF w = p THEN NoReq ELSE op[w]]
    /\ work' = [work EXCEPT ![p] = EmptyConfig]
    /\ Goto(p, IF p = Sched THEN "tick" ELSE "idle")
    /\ UNCHANGED <<configVars, active, dbVars, results, syncMu, schedVars,
                   handle, pending, syncVars, budgetVars>>

-----------------------------------------------------------------------------
(* runSyncMaps and syncAll. *)

\* SyncMap: a manual sync of one map, whatever its schedule.
SyncRequest(s) ==
    /\ pc[s] = "idle"
    /\ requests < MaxRequests
    /\ requests' = requests + 1
    /\ \E m \in MapId : ids' = [ids EXCEPT ![s] = {m}]
    /\ Goto(s, "sync")
    /\ UNCHANGED <<configVars, active, dbVars, results, lockVars, schedVars,
                   writerVars, pass, crashes>>

Due(p) == ids[p] \cap MapsOf(active.cfg)

\* A tick records every map it found due, whatever became of the sync.
FinishSync(p) ==
    /\ lastSync' = IF p = Sched THEN lastSync \cup ids[p] ELSE lastSync
    /\ ids' = [ids EXCEPT ![p] = {}]
    /\ Goto(p, IF p = Sched THEN "rest" ELSE "idle")

\* Not configured yet, or none of the maps is in the active config any more.
SyncNothing(p) ==
    /\ pc[p] = "sync"
    /\ syncMu = Nobody
    /\ active.db = NoHandle \/ Due(p) = {}
    /\ FinishSync(p)
    /\ UNCHANGED <<configVars, active, dbVars, results, lockVars, wake,
                   writerVars, pass, budgetVars>>

\* syncMu.Lock, then the active triple is read once for the whole pass.
SyncBegins(p) ==
    /\ pc[p] = "sync"
    /\ syncMu = Nobody
    /\ active.db # NoHandle
    /\ Due(p) # {}
    /\ syncMu' = p
    /\ pass' = [pass EXCEPT ![p] = [snap |-> active, todo |-> Due(p), tx |-> NoTx]]
    /\ Goto(p, "syncing")
    /\ UNCHANGED <<configVars, active, dbVars, results, writeMu, schedVars,
                   writerVars, ids, budgetVars>>

HasClient(p, m) ==
    LET snap == pass[p].snap IN snap.clients[snap.cfg.maps[m].api] # NoAPI

\* No client for the map's API, the fetch fails, or no transaction can begin.
SyncMapFails(p) ==
    /\ pc[p] = "syncing"
    /\ pass[p].tx = NoTx
    /\ \E m \in pass[p].todo :
          /\ pass' = [pass EXCEPT ![p].todo = @ \ {m}]
          /\ RecordMapVersion(m)
    /\ UNCHANGED <<configVars, active, dbVars, lockVars, schedVars, pc,
                   writerVars, ids, budgetVars>>

\* Fetched; the transaction begins on the pass's connection if that is still
\* open, and can outlive the connection pool's Close.
BeginTx(p) ==
    /\ pc[p] = "syncing"
    /\ pass[p].tx = NoTx
    /\ LET d == conn[pass[p].snap.db]
       IN /\ d # NoDB
          /\ \E m \in pass[p].todo :
                /\ HasClient(p, m)
                /\ pass' = [pass EXCEPT ![p].todo = @ \ {m},
                                        ![p].tx = [map |-> m, db |-> d]]
    /\ UNCHANGED <<configVars, active, dbVars, results, lockVars, schedVars,
                   pc, writerVars, ids, budgetVars>>

\* Commit or roll back. The map may end up with rows, or with none when the
\* fetch was empty and pruneMissing is set.
EndTx(p) ==
    /\ pc[p] = "syncing"
    /\ pass[p].tx # NoTx
    /\ LET tx == pass[p].tx
       IN /\ RecordMapVersion(tx.map)
          /\ \/ UNCHANGED rows
             \/ rows' = [rows EXCEPT ![tx.db] = @ \cup {tx.map}]
             \/ rows' = [rows EXCEPT ![tx.db] = @ \ {tx.map}]
    /\ pass' = [pass EXCEPT ![p].tx = NoTx]
    /\ UNCHANGED <<configVars, active, conn, lockVars, schedVars, pc,
                   writerVars, ids, budgetVars>>

SyncEnds(p) ==
    /\ pc[p] = "syncing"
    /\ pass[p].todo = {}
    /\ pass[p].tx = NoTx
    /\ syncMu' = Nobody
    /\ pass' = [pass EXCEPT ![p] = NoPass]
    /\ FinishSync(p)
    /\ UNCHANGED <<configVars, active, dbVars, results, writeMu, wake,
                   writerVars, budgetVars>>

-----------------------------------------------------------------------------
(* Run's loop. Time is abstracted: which of the maps seen before have waited *)
(* out their interval, and when a sleep ends, are choices.                   *)

Enabled(c) == {m \in MapsOf(c) : c.maps[m].mode # "off"}
Repeats(c) == {m \in MapsOf(c) : c.maps[m].mode = "repeat"}

Tick ==
    /\ pc[Sched] = "tick"
    /\ \E late \in SUBSET (Repeats(active.cfg) \cap lastSync) :
          LET due == IF active.db = NoHandle THEN {}
                     ELSE (Enabled(active.cfg) \ lastSync) \cup late
          IN /\ ids' = [ids EXCEPT ![Sched] = due]
             /\ Goto(Sched, IF due = {} THEN "rest" ELSE "sync")
    /\ UNCHANGED <<configVars, active, dbVars, results, lockVars, schedVars,
                   writerVars, pass, budgetVars>>

\* tick has returned its wait; Run enters its select.
Rest ==
    /\ pc[Sched] = "rest"
    /\ Goto(Sched, "sleep")
    /\ UNCHANGED <<configVars, active, dbVars, results, lockVars, schedVars,
                   writerVars, syncVars, budgetVars>>

TimerFires ==
    /\ pc[Sched] = "sleep"
    /\ Goto(Sched, "tick")
    /\ UNCHANGED <<configVars, active, dbVars, results, lockVars, schedVars,
                   writerVars, syncVars, budgetVars>>

WakeReceived ==
    /\ pc[Sched] = "sleep"
    /\ wake
    /\ wake' = FALSE
    /\ Goto(Sched, "tick")
    /\ UNCHANGED <<configVars, active, dbVars, results, lockVars, lastSync,
                   writerVars, syncVars, budgetVars>>

\* The process ends at any point (killed, or Run returned on a cancelled
\* context) and is started again. Only SQLite and MariaDB keep their contents.
Restart ==
    /\ crashes < MaxCrashes
    /\ crashes' = crashes + 1
    /\ stored' = disk
    /\ active' = NotConfigured
    /\ conn' = AllClosed
    /\ results' = {}
    /\ writeMu' = Nobody /\ syncMu' = Nobody
    /\ wake' = FALSE /\ lastSync' = {}
    /\ pc' = BootPc
    /\ op' = [w \in Writers |-> NoReq]
    /\ work' = [p \in Appliers |-> EmptyConfig]
    /\ handle' = [p \in Appliers |-> NoHandle]
    /\ pending' = [w \in Writers |-> {}]
    /\ ids' = [p \in SyncProcs |-> {}]
    /\ pass' = [p \in SyncProcs |-> NoPass]
    /\ UNCHANGED <<disk, rows, requests>>

-----------------------------------------------------------------------------
WriterStep(w) ==
    \/ Request(w) \/ Reject(w) \/ Persist(w) \/ SetStored(w)
    \/ Purge(w) \/ WriteOverlay(w) \/ OverlaysDone(w)

ApplyStep(p) ==
    \/ Lock(p) \/ ApplyFails(p) \/ ApplyOpens(p) \/ OpenFails(p)
    \/ Swap(p) \/ CloseOld(p) \/ Unlock(p)

SyncStep(p) ==
    \/ SyncNothing(p) \/ SyncBegins(p) \/ SyncMapFails(p)
    \/ BeginTx(p) \/ EndTx(p) \/ SyncEnds(p)

SchedStep == Tick \/ Rest \/ TimerFires \/ WakeReceived

Next ==
    \/ \E w \in Writers : WriterStep(w)
    \/ \E p \in Appliers : ApplyStep(p)
    \/ \E s \in Syncers : SyncRequest(s)
    \/ \E p \in SyncProcs : SyncStep(p)
    \/ SchedStep
    \/ Restart

Spec == Init /\ [][Next]_vars

-----------------------------------------------------------------------------
(* Safety. *)

\* Whenever no change is being made, the in-memory configuration the UI edits
\* is what SQLite holds, so a restart neither loses nor resurrects an edit.
StoredMirrorsDisk == writeMu = Nobody => stored = disk

\* What SQLite holds changes only by the one edit a handler was asked for.
\* SaveDatabase rewrites every table from the handler's copy, so a stale copy
\* would silently undo somebody else's edit.
SavesOnlyTheEdit ==
    [][ disk' # disk =>
          \E w \in Writers : pc[w] = "locked" /\ disk' = Edit(disk, op[w]) ]_vars

\* SQLite never holds a map whose API is gone (DeleteAPI's in-use check
\* against a map being created or moved to that API).
ApisInUseStay == ValidMaps(disk)

\* A map is live while it is configured, or its deletion has not purged yet.
Live(m) ==
    \/ m \in MapsOf(stored)
    \/ \E w \in Writers : /\ pc[w] = "purge"
                          /\ op[w].kind = "DeleteMap"
                          /\ op[w].id = m

\* Syncs never run against a map whose deletion has purged, even when the
\* apply after the deletion failed and the previous config stays active.
DeletedMapInactive == \A m \in MapsOf(active.cfg) : Live(m)

\* Rows of a map appear only while it is live: once DeleteMap has purged, no
\* sync that was already running or queued brings its rows back.
PurgeIsFinal ==
    [][ \A d \in DBs : \A m \in rows'[d] \ rows[d] : Live(m) ]_vars

\* The status page shows no result of a map whose deletion has purged.
StatusOnlyLive == \A m \in results : Live(m)

\* Every connection open on MariaDB is the active one or held by the apply in
\* progress: an apply that opened one and then failed its Ping or EnsureSchema
\* closed it, and one that succeeded closed the connection it replaced.
NoLeakedConnection ==
    \A h \in Handles : conn[h] # NoDB =>
        \/ h = active.db
        \/ \E p \in Appliers : h = handle[p]

\* The active connection is open, on the database of the active config.
ActiveIsConnected ==
    active.db # NoHandle => conn[active.db] = active.cfg.db /\ Valid(active.cfg)

\* The configuration and the clients of snap agree on the server of m's API.
AsksItsServer(snap, m) ==
    LET api == snap.cfg.maps[m].api
    IN  snap.clients[api] # NoAPI /\ snap.clients[api] = snap.cfg.apis[api]

\* A pass asks, for every map left to sync, the server its own configuration
\* names for the map's API: the clients are of the apply the configuration is
\* of, whatever moved the API or the map since, and syncAll never finds an API
\* without a client.
PassHasClients ==
    \A p \in SyncProcs : \A m \in pass[p].todo : AsksItsServer(pass[p].snap, m)

\* The active configuration is replaced only by the one just saved: no queued
\* apply brings back an older one.
AppliesWhatIsStored ==
    [][ active'.db # active.db /\ active'.db # NoHandle
          => active'.cfg = stored /\ stored = disk ]_vars

-----------------------------------------------------------------------------
(* Liveness. A goroutine that can go on does; a tile server, MariaDB and     *)
(* SQLite eventually answer or fail. Go's mutexes hand a lock over to a      *)
(* waiter starved for a millisecond, hence strong fairness; a process is at  *)
(* one label at a time, so one condition on all its steps is one on each.    *)
(* Nothing is assumed of TimerFires: a sleep may be as long as an interval.  *)

Serves(w) ==
    \/ Reject(w) \/ Persist(w) \/ SetStored(w)
    \/ Purge(w) \/ WriteOverlay(w) \/ OverlaysDone(w) \/ ApplyStep(w)

Runs == ApplyStep(Sched) \/ SyncStep(Sched) \/ Tick \/ Rest \/ WakeReceived

Fairness ==
    /\ \A w \in Writers : SF_vars(Serves(w))
    /\ \A s \in Syncers : SF_vars(SyncStep(s))
    /\ SF_vars(Runs)

FairSpec == Spec /\ Fairness

\* Every change and every manual sync is answered: the lock order writeMu,
\* syncMu leaves nobody waiting on anybody for good.
RequestsAnswered ==
    \A p \in Writers \cup Syncers : pc[p] # "idle" ~> pc[p] = "idle"

\* No lost wake-up: a map applied live that the scheduler has never seen is
\* attempted without waiting for a timer, wherever Run's loop was when the
\* apply landed, unless it is disabled or removed first.
NewMapsGetSynced ==
    \A m \in MapId :
        (m \in Enabled(active.cfg) \ lastSync)
            ~> (m \in lastSync \/ m \notin Enabled(active.cfg))

-----------------------------------------------------------------------------
(* What a comment of the code says and the code does not do, refuted by a    *)
(* run.                                                                      *)

\* deleteMapObjects before the first successful apply: "there's nothing to
\* clean up then".
NothingToCleanUp ==
    \A w \in Writers : pc[w] = "purge" /\ active.db = NoHandle
                          => \A d \in DBs : op[w].id \notin rows[d]
=============================================================================
