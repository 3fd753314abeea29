------------------------------ MODULE GeoStore ------------------------------
(***************************************************************************)
(* internal/store and runner.syncAll at the level of rows: a pass over     *)
(* some maps, version by version, each version a transaction of upsert     *)
(* batches and a prune, while applies change the configuration under it.   *)
(*                                                                         *)
(* Runner has the locks, the connections and the failing applies; here any *)
(* statement may fail, a closed connection being one reason. What a row    *)
(* holds besides its uuid, map and version is left out, as is what a tile  *)
(* server has: a fetch returns any of the map's objects.                   *)
(***************************************************************************)
EXTENDS Naturals, Sequences, FiniteSets

CONSTANTS
    MapId, Version, ObjectsOf, NoRow,
    Columns,    \* names of static columns
    Configs,    \* configurations that can be applied
    FirstCols,  \* static columns of a table made before, NoTable for none
    BatchRows,  \* upsertBatchRows
    NoTable, NoTx, NoMap, NoVersion,
    MaxApplies  \* bound: applies, purges and restarts in a behaviour

UUID  == UNION {ObjectsOf[m] : m \in MapId}
Scope == [map : MapId, version : Version]
Rows  == [UUID -> Scope \cup {NoRow}]
Fetches == [at : Scope, objects : SUBSET UUID, prune : BOOLEAN]

\* A map's versions in their order, <<>> when it is not configured; the static
\* columns of all maps together; Database.PruneMissing.
Config == [ versions : [MapId -> Seq(Version)],
            statics  : SUBSET Columns,
            prune    : BOOLEAN ]

\* Before the first apply, or after a restart until the next one.
NotConfigured == [versions |-> [m \in MapId |-> <<>>], statics |-> {}, prune |-> FALSE]

ASSUME Objects == \A m, n \in MapId : m # n => ObjectsOf[m] \cap ObjectsOf[n] = {}
ASSUME SomeRows == BatchRows \in Nat \ {0} /\ MaxApplies \in Nat
ASSUME KnownConfigs == Configs \subseteq Config
ASSUME KnownCols == FirstCols \subseteq (SUBSET Columns) \cup {NoTable}
ASSUME DistinctNone == NoRow \notin Scope /\ NoMap \notin MapId /\ NoVersion \notin Version
ASSUME NoTxDistinct == NoTx \notin Rows /\ NoTx \notin Fetches

VARIABLES
    cfg,        \* the active configuration
    cols,       \* static columns the table has, NoTable before it exists
    table,      \* its committed rows
    tx,         \* the rows as the open transaction sees them, or NoTx
    snap,       \* the configuration the running pass has read
    maps,       \* maps the pass has yet to begin
    map,        \* the map it is at, NoMap between passes
    at,         \* its position in that map's versions
    rest,       \* fetched objects not upserted yet
    fetched,    \* all fetched objects of the current version
    pruned,     \* the prune statement has run
    failed,     \* some version of this map failed (syncAll's errs)
    reporter,   \* history: object -> the last version of this map to report it
    applies

passVars == <<snap, maps, map, at, rest, fetched, pruned, failed, reporter>>
vars == <<cfg, cols, table, tx, passVars, applies>>

TypeOK ==
    /\ cfg \in Config /\ snap \in Config
    /\ cols \in (SUBSET Columns) \cup {NoTable}
    /\ table \in Rows
    /\ tx \in Rows \cup {NoTx}
    /\ maps \subseteq MapId /\ map \in MapId \cup {NoMap}
    /\ at \in Nat \ {0}
    /\ rest \subseteq fetched /\ fetched \subseteq UUID
    /\ pruned \in BOOLEAN /\ failed \in BOOLEAN
    /\ reporter \in [UUID -> Version \cup {NoVersion}]
    /\ applies \in 0..MaxApplies

NoReporter == [u \in UUID |-> NoVersion]

-----------------------------------------------------------------------------
Init ==
    /\ cfg = NotConfigured /\ snap = NotConfigured
    /\ cols \in FirstCols
    /\ table = [u \in UUID |-> NoRow] /\ tx = NoTx
    /\ maps = {} /\ map = NoMap /\ at = 1
    /\ rest = {} /\ fetched = {} /\ pruned = FALSE
    /\ failed = FALSE /\ reporter = NoReporter
    /\ applies = 0

\* Budgets every change from outside the pass.
Counted == applies < MaxApplies /\ applies' = applies + 1

\* EnsureSchema: CREATE TABLE IF NOT EXISTS, no ALTER TABLE.
EnsureSchema(c) == cols' = IF cols = NoTable THEN c.statics ELSE cols

\* A successful apply. It does not wait for a running pass.
Apply ==
    /\ Counted
    /\ cfg' \in Configs
    /\ EnsureSchema(cfg')
    /\ UNCHANGED <<table, tx, passVars>>

\* A pass is running from Begin on, until its last NextMap: it holds syncMu.
Idle == map = NoMap

\* deleteMapObjects; the DELETE may fail.
Purge(m) ==
    /\ Idle
    /\ Counted
    /\ cfg.versions[m] # <<>>
    /\ cfg' = [cfg EXCEPT !.versions[m] = <<>>]
    /\ \/ UNCHANGED table
       \/ table' = [u \in UUID |-> IF table[u] \in [map : {m}, version : Version]
                                   THEN NoRow ELSE table[u]]
    /\ UNCHANGED <<cols, tx, passVars>>

\* A version of the pass's map is left.
Left == ~Idle /\ at <= Len(snap.versions[map])

\* The next map of the pass, if there is one.
StartMap(m, left) ==
    /\ map' = m
    /\ maps' = left
    /\ at' = 1
    /\ failed' = FALSE
    /\ reporter' = NoReporter

Quiet == rest' = {} /\ fetched' = {} /\ pruned' = FALSE

\* runSyncMaps: the maps asked for that are still in the active config.
Begin ==
    /\ Idle
    /\ snap' = cfg
    /\ \E due \in SUBSET {m \in MapId : cfg.versions[m] # <<>>} :
          \E m \in due : StartMap(m, due \ {m})
    /\ Quiet
    /\ UNCHANGED <<cfg, cols, table, tx, applies>>

\* Leaves the current version: recorded, and on to the next.
NextVersion(ok) ==
    /\ at' = at + 1
    /\ failed' = (failed \/ ~ok)
    /\ Quiet
    /\ UNCHANGED <<snap, maps, map>>

\* The fetch fails, or no transaction can be begun.
FetchFails ==
    /\ Left /\ tx = NoTx
    /\ NextVersion(FALSE)
    /\ UNCHANGED <<cfg, cols, table, tx, reporter, applies>>

\* Nothing reported and nothing to prune: UpsertGeoObjects returns at once.
FetchedNothing ==
    /\ Left /\ tx = NoTx
    /\ ~snap.prune
    /\ NextVersion(TRUE)
    /\ UNCHANGED <<cfg, cols, table, tx, reporter, applies>>

\* GeoObjects answers and UpsertGeoObjects begins its transaction.
Fetched ==
    /\ Left /\ tx = NoTx
    /\ \E objects \in SUBSET ObjectsOf[map] :
          /\ objects # {} \/ snap.prune
          /\ fetched' = objects /\ rest' = objects
    /\ tx' = table
    /\ pruned' = FALSE
    /\ UNCHANGED <<cfg, cols, table, snap, maps, map, at, failed, reporter, applies>>

Here == [map |-> map, version |-> snap.versions[map][at]]

\* INSERT ... ON DUPLICATE KEY UPDATE, uuid being the key.
Upserted(objects) == [u \in UUID |-> IF u \in objects THEN Here ELSE tx[u]]

\* Slip: the prune is scoped by the map alone.
PrunedWholeMap ==
    [u \in UUID |-> IF /\ tx[u] \in [map : {map}, version : Version]
                       /\ u \notin fetched
                    THEN NoRow ELSE tx[u]]

\* DELETE ... WHERE map = ? AND version = ? AND uuid NOT IN (...).
Pruned == [u \in UUID |-> IF tx[u] = Here /\ u \notin fetched THEN NoRow ELSE tx[u]]

\* Slip: each batch is committed by itself.
UpsertBatchAutocommit ==
    /\ tx # NoTx /\ rest # {}
    /\ snap.statics \subseteq cols
    /\ \E batch \in SUBSET rest :
          /\ Cardinality(batch) = IF Cardinality(rest) < BatchRows
                                  THEN Cardinality(rest) ELSE BatchRows
          /\ tx' = Upserted(batch)
          /\ rest' = rest \ batch
    /\ table' = tx'
    /\ UNCHANGED <<cfg, cols, snap, maps, map, at, fetched, pruned,
                   failed, reporter, applies>>

\* One statement of upsertObjects. It names every static column of its store.
UpsertBatch ==
    /\ tx # NoTx /\ rest # {}
    /\ snap.statics \subseteq cols
    /\ \E batch \in SUBSET rest :
          /\ Cardinality(batch) = IF Cardinality(rest) < BatchRows
                                  THEN Cardinality(rest) ELSE BatchRows
          /\ tx' = Upserted(batch)
          /\ rest' = rest \ batch
    /\ UNCHANGED <<cfg, cols, table, snap, maps, map, at, fetched, pruned,
                   failed, reporter, applies>>

PruneMissing ==
    /\ tx # NoTx /\ rest = {}
    /\ snap.prune /\ ~pruned
    /\ tx' = Pruned
    /\ pruned' = TRUE
    /\ UNCHANGED <<cfg, cols, table, snap, maps, map, at, rest, fetched,
                   failed, reporter, applies>>

Commit ==
    /\ tx # NoTx /\ rest = {}
    /\ snap.prune => pruned
    /\ table' = tx /\ tx' = NoTx
    /\ reporter' = [u \in UUID |-> IF u \in fetched THEN Here.version
                                   ELSE IF reporter[u] = Here.version THEN NoVersion
                                   ELSE reporter[u]]
    /\ NextVersion(TRUE)
    /\ UNCHANGED <<cfg, cols, applies>>

\* A statement or the commit fails and the deferred Rollback runs.
Fails ==
    /\ tx # NoTx
    /\ tx' = NoTx
    /\ NextVersion(FALSE)
    /\ UNCHANGED <<cfg, cols, table, reporter, applies>>

\* syncAll's outer loop.
NextMap ==
    /\ ~Idle /\ ~Left
    /\ IF maps = {} THEN snap' = NotConfigured /\ StartMap(NoMap, {})
                    ELSE /\ UNCHANGED snap
                         /\ \E m \in maps : StartMap(m, maps \ {m})
    /\ Quiet
    /\ UNCHANGED <<cfg, cols, table, tx, applies>>

\* The process ends, MariaDB rolls back, the next process starts.
Restart ==
    /\ Counted
    /\ cfg' = NotConfigured /\ snap' = NotConfigured
    /\ tx' = NoTx
    /\ StartMap(NoMap, {})
    /\ Quiet
    /\ UNCHANGED <<cols, table>>

Next ==
    \/ Apply \/ \E m \in MapId : Purge(m)
    \/ Begin \/ FetchFails \/ FetchedNothing \/ Fetched
    \/ UpsertBatch \/ PruneMissing \/ Commit \/ Fails \/ NextMap
    \/ Restart

Spec == Init /\ [][Next]_vars

-----------------------------------------------------------------------------
\* What the open transaction has been begun to store.
Storing == IF tx = NoTx THEN NoTx
           ELSE [at |-> Here, objects |-> fetched, prune |-> snap.prune]

Geo == INSTANCE GeoSync WITH rows <- table, fetch <- Storing, NoFetch <- NoTx

\* The table changes only by whole syncs of one version or by a purge: no
\* failure, crash or apply during a pass leaves part of a fetch behind, a sync
\* stores exactly what was fetched as the pass's own configuration says, and
\* no prune reaches the rows of another map or version.
SyncsAreWhole == Geo!Spec

Synced == {snap.versions[map][i] : i \in DOMAIN snap.versions[map]}

\* After a pass over a map in which nothing failed, every object a version of
\* it reported is stored, under the last version to report it (versions may be
\* aliases of each other and share objects, or even be listed twice). With
\* prune, these are all the rows the map's versions have.
MapSyncedWhole ==
    ~Idle /\ ~Left /\ ~failed =>
        \A u \in ObjectsOf[map] :
            /\ reporter[u] # NoVersion => table[u] = [map |-> map, version |-> reporter[u]]
            /\ snap.prune /\ reporter[u] = NoVersion
                 => table[u] \notin [map : {map}, version : Synced]

-----------------------------------------------------------------------------
\* config.MapTarget: static columns "are created automatically by
\* EnsureSchema". Refuted: only when the table itself does not exist yet.
StaticColumnsCreated == cfg # NotConfigured => cfg.statics \subseteq cols
=============================================================================
