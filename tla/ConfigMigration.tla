--------------------------- MODULE ConfigMigration ---------------------------
(***************************************************************************)
(* configdb.Open on a database of any age: obsolete tables go, tables are  *)
(* brought to their present shape, and the one API of older versions moves *)
(* to the apis table. The process may end, or a statement fail, anywhere;  *)
(* the next start takes up what it finds. In between, users edit.          *)
(*                                                                         *)
(* ConfigDB has the edits of a current database statement by statement;    *)
(* here an edit is one step. Row ids are left out: a row of map_versions   *)
(* or map_static_columns is kept under the id of its map.                  *)
(***************************************************************************)
EXTENDS Sequences

CONSTANTS
    MapId, Version, Column,
    ApiId, URLs, Default,       \* legacyAPIID
    Settings,                   \* what config.Database, or a DSN, can say
    Obsolete,                   \* users, sessions, sso_identities, sso_config
    NoMap, Unassigned, NoURL, NoSettings, Unreadable, NoTx,
    FirstDisks                  \* what the first start may find

Tables == {"config_scalar", "apis", "maps", "map_versions", "map_static_columns"}

\* temp is the table the static columns are rewritten into.
Disk == [ obsolete  : SUBSET Obsolete,
          current   : SUBSET Tables,    \* in the shape of today's models
          inline    : BOOLEAN,          \* map_static_columns has its old UNIQUE(
          maps      : [MapId -> ApiId \cup {Unassigned, NoMap}],
          versions  : [MapId -> SUBSET Version],
          statics   : [MapId -> SUBSET Column],
          temp      : [MapId -> SUBSET Column],
          legacyAPI : URLs \cup {NoURL},
          apis      : [ApiId -> URLs \cup {NoURL}],
          dsn       : Settings \cup {NoSettings, Unreadable},
          host      : Settings \cup {NoSettings} ]

ASSUME KnownDisks == FirstDisks \subseteq Disk /\ Default \in ApiId
ASSUME FirstRowsHaveMaps ==
    \A d \in FirstDisks : \A m \in MapId :
        d.maps[m] = NoMap => d.versions[m] = {} /\ d.statics[m] = {}
ASSUME DistinctNone ==
    /\ {Unassigned, NoMap} \cap ApiId = {} /\ Unassigned # NoMap
    /\ NoURL \notin URLs
    /\ {NoSettings, Unreadable} \cap Settings = {}
    /\ NoTx \notin Disk

VARIABLES
    disk,   \* committed
    fk,     \* PRAGMA foreign_keys of the one connection
    pc,     \* where Open is
    tx,     \* the database as the open transaction sees it, or NoTx
    todo    \* statements it has left

migrationVars == <<disk, fk, pc, tx, todo>>

Stages == {"closed", "obsolete", "maps", "inline", "create", "auto", "api", "open"}

MigrationTypeOK ==
    /\ disk \in Disk
    /\ fk \in BOOLEAN
    /\ pc \in Stages
    /\ tx \in Disk \cup {NoTx}
    /\ todo \in Seq({"dropTemp", "copy", "drop", "rename",
                     "createAPI", "pointMaps", "clearLegacy"})
    /\ tx # NoTx => pc \in {"inline", "api"}
    /\ tx = NoTx => todo = <<>>

-----------------------------------------------------------------------------
(* Load. *)

\* applyLegacyDSN: while no host is stored, the old DSN, if it can be split.
LoadedSettings(d) ==
    IF d.host = NoSettings /\ d.dsn \in Settings THEN d.dsn ELSE d.host

Loaded(d) == [ apis |-> d.apis, maps |-> d.maps, versions |-> d.versions,
               statics |-> d.statics, database |-> LoadedSettings(d) ]

-----------------------------------------------------------------------------
MigrationInit ==
    /\ disk \in FirstDisks
    /\ fk = FALSE /\ pc = "closed" /\ tx = NoTx /\ todo = <<>>

\* Slip: foreign keys are enforced from the start.
ConnectEnforcing ==
    /\ pc = "closed" /\ pc' = "obsolete"
    /\ fk' = TRUE
    /\ UNCHANGED <<disk, tx, todo>>

\* A connection enforces no foreign keys until it is told to.
Connect ==
    /\ pc = "closed" /\ pc' = "obsolete"
    /\ fk' = FALSE
    /\ UNCHANGED <<disk, tx, todo>>

\* removeObsoleteTables, a statement per table.
DropObsolete ==
    /\ pc = "obsolete"
    /\ \E t \in disk.obsolete : disk' = [disk EXCEPT !.obsolete = @ \ {t}]
    /\ UNCHANGED <<fk, pc, tx, todo>>

ObsoleteDropped ==
    /\ pc = "obsolete" /\ disk.obsolete = {}
    /\ pc' = "maps"
    /\ UNCHANGED <<disk, fk, tx, todo>>

NoRows == [m \in MapId |-> {}]

\* GORM's AutoMigrate of one table. It recreates a table of an older shape;
\* dropping maps then cascades if foreign keys are enforced, and its parser
\* corrupts the copy of a table with an inline UNIQUE.
AutoMigrated(t) ==
    LET cascades == fk /\ t = "maps" /\ t \notin disk.current
        corrupts == disk.inline /\ t = "map_static_columns"
    IN [disk EXCEPT !.current  = @ \cup {t},
                    !.versions = IF cascades THEN NoRows ELSE @,
                    !.statics  = IF cascades \/ corrupts THEN NoRows ELSE @]

MigrateMaps ==
    /\ pc = "maps" /\ pc' = "inline"
    /\ disk' = AutoMigrated("maps")
    /\ UNCHANGED <<fk, tx, todo>>

\* dropLegacyInlineUniqueConstraint, by what the stored DDL says.
BeginRewrite ==
    /\ pc = "inline" /\ tx = NoTx
    /\ disk.inline
    /\ tx' = disk
    /\ todo' = <<"dropTemp", "copy", "drop", "rename">>
    /\ UNCHANGED <<disk, fk, pc>>

NothingInline ==
    /\ pc = "inline" /\ tx = NoTx
    /\ ~disk.inline
    /\ pc' = "create"
    /\ UNCHANGED <<disk, fk, tx, todo>>

\* fkTableStatements: CREATE TABLE IF NOT EXISTS, in today's shape. AutoMigrate
\* only adds their indexes then.
CreateTables ==
    /\ pc = "create" /\ pc' = "auto"
    /\ UNCHANGED <<disk, fk, tx, todo>>

AutoMigrate ==
    /\ pc = "auto"
    /\ \E t \in Tables \ disk.current : disk' = AutoMigrated(t)
    /\ UNCHANGED <<fk, pc, tx, todo>>

AutoMigrateDone ==
    /\ pc = "auto" /\ disk.current = Tables
    /\ pc' = "api"
    /\ UNCHANGED <<disk, fk, tx, todo>>

\* migrateLegacyAPI, when there is an API to move.
BeginAPI ==
    /\ pc = "api" /\ tx = NoTx
    /\ disk.legacyAPI # NoURL
    /\ tx' = disk
    /\ todo' = IF disk.apis[Default] = NoURL
               THEN <<"createAPI", "pointMaps", "clearLegacy">>
               ELSE <<"pointMaps", "clearLegacy">>
    /\ UNCHANGED <<disk, fk, pc>>

\* Slip: foreign keys stay off.
EnforceNothing ==
    /\ pc = "api" /\ tx = NoTx
    /\ disk.legacyAPI = NoURL
    /\ pc' = "open"
    /\ UNCHANGED <<disk, fk, tx, todo>>

\* Slip: an API with the id Default is taken for the migrated one.
EnforceKeysTaken ==
    /\ pc = "api" /\ tx = NoTx
    /\ disk.legacyAPI = NoURL \/ disk.apis[Default] # NoURL
    /\ fk' = TRUE
    /\ pc' = "open"
    /\ UNCHANGED <<disk, tx, todo>>

\* Nothing (left) to move: foreign keys are enforced and Open returns.
EnforceKeys ==
    /\ pc = "api" /\ tx = NoTx
    /\ disk.legacyAPI = NoURL
    /\ fk' = TRUE
    /\ pc' = "open"
    /\ UNCHANGED <<disk, tx, todo>>

\* What each statement makes of the database.
Copied(d)  == [d EXCEPT !.temp = d.statics]
Dropped(d) == [d EXCEPT !.statics = NoRows]
Renamed(d) == [d EXCEPT !.statics = d.temp, !.temp = NoRows, !.inline = FALSE,
                        !.current = @ \cup {"map_static_columns"}]
APICreated(d) == [d EXCEPT !.apis[Default] = d.legacyAPI]

MapsPointed(d) ==
    [d EXCEPT !.maps = [m \in MapId |-> IF @[m] = Unassigned THEN Default ELSE @[m]]]

\* The columns of the scalar row that only older versions wrote.
LegacyCleared(d) == [d EXCEPT !.legacyAPI = NoURL]

Run(d, s) ==
    CASE s = "dropTemp"    -> [d EXCEPT !.temp = NoRows]
      [] s = "copy"        -> Copied(d)
      [] s = "drop"        -> Dropped(d)
      [] s = "rename"      -> Renamed(d)
      [] s = "createAPI"   -> APICreated(d)
      [] s = "pointMaps"   -> MapsPointed(d)
      [] s = "clearLegacy" -> LegacyCleared(d)

Exec ==
    /\ todo # <<>>
    /\ tx' = Run(tx, Head(todo))
    /\ todo' = Tail(todo)
    /\ UNCHANGED <<disk, fk, pc>>

Commit ==
    /\ tx # NoTx /\ todo = <<>>
    /\ disk' = tx /\ tx' = NoTx
    /\ UNCHANGED <<fk, pc, todo>>

\* The process ends, or a statement fails and Open with it: rolled back.
Ends ==
    /\ pc # "closed" /\ pc' = "closed"
    /\ fk' = FALSE /\ tx' = NoTx /\ todo' = <<>>
    /\ UNCHANGED disk

-----------------------------------------------------------------------------
(* Edits, as the runner accepts them. *)

ValidMaps(maps, apis) ==
    \A m \in MapId : maps[m] = NoMap \/ (maps[m] \in ApiId /\ apis[maps[m]] # NoURL)

PutAPI ==
    \E a \in ApiId, u \in URLs : disk' = [disk EXCEPT !.apis[a] = u]

DeleteAPI ==
    \E a \in ApiId : /\ \A m \in MapId : disk.maps[m] # a
                     /\ disk' = [disk EXCEPT !.apis[a] = NoURL]

PutMap ==
    \E m \in MapId, a \in ApiId, vs \in (SUBSET Version) \ {{}}, cs \in SUBSET Column :
        /\ ValidMaps([disk.maps EXCEPT ![m] = a], disk.apis)
        /\ disk' = [disk EXCEPT !.maps[m] = a, !.versions[m] = vs, !.statics[m] = cs]

\* ON DELETE CASCADE takes a map's rows, if enforced.
DeleteMap ==
    \E m \in MapId :
        disk' = [disk EXCEPT !.maps[m] = NoMap,
                             !.versions[m] = IF fk THEN {} ELSE @,
                             !.statics[m] = IF fk THEN {} ELSE @]

\* Save writes what was loaded, with the new settings, and clears what only
\* older versions wrote.
SaveDatabase ==
    \E s \in Settings :
        disk' = [disk EXCEPT !.host = s, !.dsn = NoSettings, !.legacyAPI = NoURL]

Edit ==
    /\ pc = "open"
    /\ PutAPI \/ DeleteAPI \/ PutMap \/ DeleteMap \/ SaveDatabase
    /\ UNCHANGED <<fk, pc, tx, todo>>

MigrationNext ==
    \/ Connect \/ DropObsolete \/ ObsoleteDropped \/ MigrateMaps
    \/ BeginRewrite \/ NothingInline \/ CreateTables
    \/ AutoMigrate \/ AutoMigrateDone \/ BeginAPI \/ EnforceKeys
    \/ Exec \/ Commit \/ Ends \/ Edit

MigrationSpec == MigrationInit /\ [][MigrationNext]_migrationVars

-----------------------------------------------------------------------------
\* What the database says is configured, however old its form: a legacy API is
\* the API Default, unless there is one, of every map without an API.
Meaning(d) ==
    LET legacy == d.legacyAPI # NoURL
    IN [ apis     |-> IF legacy /\ d.apis[Default] = NoURL
                      THEN [d.apis EXCEPT ![Default] = d.legacyAPI] ELSE d.apis,
         maps     |-> [m \in MapId |-> IF legacy /\ d.maps[m] = Unassigned
                                       THEN Default ELSE d.maps[m]],
         versions |-> d.versions,
         statics  |-> d.statics,
         database |-> LoadedSettings(d) ]

\* No start changes what is configured, however often one is cut short, and
\* whatever was edited since the last: only edits do.
StartsKeepConfig == [][ Meaning(disk)' # Meaning(disk) => pc = "open" ]_migrationVars

\* Once Open has returned, Load finds all of it in today's tables: nothing
\* that only an older version would read still counts.
OpenIsMigrated ==
    pc = "open" => /\ Loaded(disk) = Meaning(disk)
                   /\ disk.obsolete = {} /\ ~disk.inline /\ disk.current = Tables

\* A map's versions and static columns go with it, on an upgraded database too.
RowsHaveMaps ==
    \A m \in MapId :
        disk.maps[m] = NoMap => disk.versions[m] = {} /\ disk.statics[m] = {}
=============================================================================
