--------------------------- MODULE LifecycleProofs ---------------------------
(***************************************************************************)
(* Theorems about how main.go's run begins and ends: about ConfigMigration *)
(* (configdb.Open), for any maps, APIs and settings and any first          *)
(* databases whose rows belong to maps; and about Process, for any number  *)
(* of requests and any timeouts of which Shutdown's is not longer than the *)
(* service's.                                                              *)
(***************************************************************************)
EXTENDS ConfigMigration, Process, TLAPS

-----------------------------------------------------------------------------
(* What is left of the two transactions, statement by statement.            *)

\* A transaction's first statement, and what is left after it.
LEMMA RewriteLeft ==
    /\ Head(<<"dropTemp", "copy", "drop", "rename">>) = "dropTemp"
    /\ Tail(<<"dropTemp", "copy", "drop", "rename">>) = <<"copy", "drop", "rename">>
    /\ Head(<<"copy", "drop", "rename">>) = "copy"
    /\ Tail(<<"copy", "drop", "rename">>) = <<"drop", "rename">>
    /\ Head(<<"drop", "rename">>) = "drop"
    /\ Tail(<<"drop", "rename">>) = <<"rename">>
    /\ Head(<<"rename">>) = "rename"
    /\ Tail(<<"rename">>) = <<>>
<1>1. /\ Head(<<"dropTemp", "copy", "drop", "rename">>) = "dropTemp"
      /\ Head(<<"copy", "drop", "rename">>) = "copy"
      /\ Head(<<"drop", "rename">>) = "drop"
      /\ Head(<<"rename">>) = "rename"
  OBVIOUS
<1>2. Tail(<<"dropTemp", "copy", "drop", "rename">>) = <<"copy", "drop", "rename">>
  OBVIOUS
<1>3. Tail(<<"copy", "drop", "rename">>) = <<"drop", "rename">>
  OBVIOUS
<1>4. Tail(<<"drop", "rename">>) = <<"rename">>
  OBVIOUS
<1>5. Tail(<<"rename">>) = <<>>
  OBVIOUS
<1> QED
  BY <1>1, <1>2, <1>3, <1>4, <1>5

\* The same of the transaction that moves the API.
LEMMA MoveLeft ==
    /\ Head(<<"createAPI", "pointMaps", "clearLegacy">>) = "createAPI"
    /\ Tail(<<"createAPI", "pointMaps", "clearLegacy">>) = <<"pointMaps", "clearLegacy">>
    /\ Head(<<"pointMaps", "clearLegacy">>) = "pointMaps"
    /\ Tail(<<"pointMaps", "clearLegacy">>) = <<"clearLegacy">>
    /\ Head(<<"clearLegacy">>) = "clearLegacy"
    /\ Tail(<<"clearLegacy">>) = <<>>
<1>1. /\ Head(<<"createAPI", "pointMaps", "clearLegacy">>) = "createAPI"
      /\ Head(<<"pointMaps", "clearLegacy">>) = "pointMaps"
      /\ Head(<<"clearLegacy">>) = "clearLegacy"
  OBVIOUS
<1>2. Tail(<<"createAPI", "pointMaps", "clearLegacy">>) = <<"pointMaps", "clearLegacy">>
  OBVIOUS
<1>3. Tail(<<"pointMaps", "clearLegacy">>) = <<"clearLegacy">>
  OBVIOUS
<1>4. Tail(<<"clearLegacy">>) = <<>>
  OBVIOUS
<1> QED
  BY <1>1, <1>2, <1>3, <1>4

-----------------------------------------------------------------------------
(* The inductive invariant.                                                 *)

\* What Open has done by each of its stages.
StageInv ==
    /\ pc \notin {"closed", "open"} => ~fk
    /\ pc = "open" => fk /\ disk.legacyAPI = NoURL
    /\ pc \notin {"closed", "obsolete"} => disk.obsolete = {}
    /\ pc \in {"create", "auto", "api", "open"} => ~disk.inline
    /\ pc \in {"api", "open"} => disk.current = Tables

\* The static columns are in their table or in temp, and in both when it counts.
Rewriting ==
    /\ tx.obsolete = disk.obsolete /\ tx.current \in SUBSET Tables
    /\ tx.maps = disk.maps /\ tx.versions = disk.versions
    /\ tx.legacyAPI = disk.legacyAPI /\ tx.apis = disk.apis
    /\ tx.dsn = disk.dsn /\ tx.host = disk.host
    /\ \/ todo = <<"dropTemp", "copy", "drop", "rename">> /\ tx.statics = disk.statics
       \/ todo = <<"copy", "drop", "rename">> /\ tx.statics = disk.statics
       \/ todo = <<"drop", "rename">> /\ tx.temp = disk.statics
       \/ todo = <<"rename">> /\ tx.temp = disk.statics
       \/ todo = <<>> /\ tx.statics = disk.statics

\* The API, then the maps without one, then the old column: what each
\* statement was to bring about holds once it has run.
Moving ==
    /\ disk.legacyAPI # NoURL
    /\ tx.obsolete = disk.obsolete /\ tx.current = disk.current /\ tx.inline = disk.inline
    /\ tx.versions = disk.versions /\ tx.statics = disk.statics
    /\ tx.dsn = disk.dsn /\ tx.host = disk.host
    /\ \/ /\ todo = <<"createAPI", "pointMaps", "clearLegacy">>
          /\ disk.apis[Default] = NoURL
          /\ tx.apis = disk.apis /\ tx.maps = disk.maps /\ tx.legacyAPI = disk.legacyAPI
       \/ /\ todo = <<"pointMaps", "clearLegacy">>
          /\ tx.apis = Meaning(disk).apis
          /\ tx.maps = disk.maps /\ tx.legacyAPI = disk.legacyAPI
       \/ /\ todo = <<"clearLegacy">>
          /\ tx.apis = Meaning(disk).apis /\ tx.maps = Meaning(disk).maps
       \/ /\ todo = <<>>
          /\ tx.apis = Meaning(disk).apis /\ tx.maps = Meaning(disk).maps
          /\ tx.legacyAPI = NoURL

TxInv ==
    /\ tx # NoTx => pc \in {"inline", "api"}
    /\ tx # NoTx /\ pc = "inline" => Rewriting
    /\ tx # NoTx /\ pc = "api" => Moving
    /\ tx = NoTx => todo = <<>>

TypeInv ==
    /\ disk \in Disk /\ fk \in BOOLEAN /\ pc \in Stages /\ tx \in Disk \cup {NoTx}

DiskInv == TypeInv /\ StageInv /\ TxInv /\ RowsHaveMaps

-----------------------------------------------------------------------------
(* Databases.                                                               *)

\* A table without rows, and what GORM makes of a table.
LEMMA AutoMigratedType ==
    ASSUME disk \in Disk, NEW t \in Tables
    PROVE  /\ AutoMigrated(t) \in Disk
           /\ AutoMigrated(t).obsolete = disk.obsolete
           /\ AutoMigrated(t).current = disk.current \cup {t}
           /\ AutoMigrated(t).inline = disk.inline
           /\ AutoMigrated(t).legacyAPI = disk.legacyAPI
           /\ AutoMigrated(t).apis = disk.apis /\ AutoMigrated(t).maps = disk.maps
           /\ AutoMigrated(t).dsn = disk.dsn /\ AutoMigrated(t).host = disk.host
           /\ ~(fk /\ t = "maps") => AutoMigrated(t).versions = disk.versions
           /\ ~(fk /\ t = "maps") /\ ~(disk.inline /\ t = "map_static_columns")
                => AutoMigrated(t).statics = disk.statics
<1>1. NoRows \in [MapId -> SUBSET Version] /\ NoRows \in [MapId -> SUBSET Column]
  BY DEF NoRows
<1> QED
  BY <1>1 DEF AutoMigrated, Disk

\* What is configured, read by field.
LEMMA MeaningFields ==
    ASSUME NEW d \in Disk, NEW e \in Disk,
           d.maps = e.maps, d.apis = e.apis, d.legacyAPI = e.legacyAPI,
           d.versions = e.versions, d.statics = e.statics,
           d.dsn = e.dsn, d.host = e.host
    PROVE  Meaning(d) = Meaning(e)
BY DEF Meaning, LoadedSettings

\* With nothing left to move, what is configured is what Load returns.
LEMMA NothingLegacy ==
    ASSUME NEW d \in Disk, d.legacyAPI = NoURL
    PROVE  Loaded(d) = Meaning(d)
<1>1. [m \in MapId |-> d.maps[m]] = d.maps
  BY DEF Disk
<1> QED
  BY <1>1 DEF Loaded, Meaning

\* The moved API and the maps that get it are well typed, and no map comes or goes.
LEMMA MeaningType ==
    ASSUME NEW d \in Disk
    PROVE  /\ Meaning(d).apis \in [ApiId -> URLs \cup {NoURL}]
           /\ Meaning(d).maps \in [MapId -> ApiId \cup {Unassigned, NoMap}]
           /\ \A m \in MapId : Meaning(d).maps[m] = NoMap => d.maps[m] = NoMap
BY KnownDisks, DistinctNone DEF Meaning, Disk

-----------------------------------------------------------------------------
(* The steps.                                                               *)

\* The database the first start finds.
LEMMA FirstDiskInv == MigrationInit => DiskInv
BY KnownDisks, FirstRowsHaveMaps, DistinctNone
   DEF MigrationInit, DiskInv, TypeInv, StageInv, TxInv, RowsHaveMaps, Stages

\* A statement of the rewrite of the static columns.
LEMMA RewriteStep ==
    ASSUME DiskInv, Exec, pc = "inline"
    PROVE  tx' \in Disk /\ Rewriting'
<1>1. tx # NoTx /\ tx \in Disk /\ Rewriting /\ disk' = disk
  BY DEF Exec, DiskInv, TxInv, TypeInv
<1>2. NoRows \in [MapId -> SUBSET Version] /\ NoRows \in [MapId -> SUBSET Column]
  BY DEF NoRows
<1>3. CASE todo = <<"dropTemp", "copy", "drop", "rename">>
  <2>1. tx' = [tx EXCEPT !.temp = NoRows] /\ todo' = <<"copy", "drop", "rename">>
    BY <1>3, RewriteLeft DEF Exec, Run
  <2> QED
    BY <1>1, <1>2, <1>3, <2>1 DEF Rewriting, Disk
<1>4. CASE todo = <<"copy", "drop", "rename">>
  <2>1. tx' = [tx EXCEPT !.temp = tx.statics] /\ todo' = <<"drop", "rename">>
    BY <1>4, RewriteLeft DEF Exec, Run, Copied
  <2> QED
    BY <1>1, <1>4, <2>1 DEF Rewriting, Disk
<1>5. CASE todo = <<"drop", "rename">>
  <2>1. tx' = [tx EXCEPT !.statics = NoRows] /\ todo' = <<"rename">>
    BY <1>5, RewriteLeft DEF Exec, Run, Dropped
  <2> QED
    BY <1>1, <1>2, <1>5, <2>1 DEF Rewriting, Disk
<1>6. CASE todo = <<"rename">>
  <2>1. tx' = Renamed(tx) /\ todo' = <<>>
    BY <1>6, RewriteLeft DEF Exec, Run
  <2> QED
    BY <1>1, <1>2, <1>6, <2>1 DEF Rewriting, Disk, Renamed, Tables
<1> QED
  BY <1>1, <1>3, <1>4, <1>5, <1>6 DEF Exec, Rewriting

\* A statement of the move of the API.
LEMMA MoveStep ==
    ASSUME DiskInv, Exec, pc = "api"
    PROVE  tx' \in Disk /\ Moving'
<1>1. tx # NoTx /\ tx \in Disk /\ disk \in Disk /\ Moving /\ disk' = disk
  BY DEF Exec, DiskInv, TxInv, TypeInv
<1>2. CASE todo = <<"createAPI", "pointMaps", "clearLegacy">>
  <2>1. tx' = [tx EXCEPT !.apis[Default] = tx.legacyAPI] /\ todo' = <<"pointMaps", "clearLegacy">>
    BY <1>2, MoveLeft DEF Exec, Run, APICreated
  <2>2. Meaning(disk).apis = [disk.apis EXCEPT ![Default] = disk.legacyAPI]
    BY <1>1, <1>2 DEF Moving, Meaning
  <2> QED
    BY <1>1, <1>2, <2>1, <2>2, KnownDisks DEF Moving, Disk
<1>3. CASE todo = <<"pointMaps", "clearLegacy">>
  <2>1. tx' = MapsPointed(tx) /\ todo' = <<"clearLegacy">>
    BY <1>3, MoveLeft DEF Exec, Run
  <2>2. Meaning(disk).maps
          = [m \in MapId |-> IF disk.maps[m] = Unassigned THEN Default ELSE disk.maps[m]]
    BY <1>1 DEF Moving, Meaning
  <2>3. tx'.maps = Meaning(disk).maps
    BY <1>1, <1>3, <2>1, <2>2 DEF MapsPointed, Moving, Disk
  <2> QED
    BY <1>1, <1>3, <2>1, <2>3, MeaningType DEF Moving, Disk, MapsPointed
<1>4. CASE todo = <<"clearLegacy">>
  <2>1. tx' = [tx EXCEPT !.legacyAPI = NoURL] /\ todo' = <<>>
    BY <1>4, MoveLeft DEF Exec, Run, LegacyCleared
  <2> QED
    BY <1>1, <1>4, <2>1 DEF Moving, Disk
<1> QED
  BY <1>1, <1>2, <1>3, <1>4 DEF Exec, Moving

\* What an edit of the open database leaves.
LEMMA EditStep ==
    ASSUME DiskInv, Edit
    PROVE  /\ disk' \in Disk /\ RowsHaveMaps'
           /\ disk'.obsolete = disk.obsolete /\ disk'.inline = disk.inline
           /\ disk'.current = disk.current /\ disk'.legacyAPI = NoURL
<1>1. disk \in Disk /\ fk /\ disk.legacyAPI = NoURL /\ RowsHaveMaps
  BY DEF Edit, DiskInv, TypeInv, StageInv
<1>2. CASE PutAPI
  BY <1>1, <1>2 DEF PutAPI, Disk, RowsHaveMaps
<1>3. CASE DeleteAPI
  BY <1>1, <1>3 DEF DeleteAPI, Disk, RowsHaveMaps
<1>4. CASE PutMap
  <2> PICK m \in MapId, a \in ApiId, vs \in (SUBSET Version) \ {{}}, cs \in SUBSET Column :
        /\ ValidMaps([disk.maps EXCEPT ![m] = a], disk.apis)
        /\ disk' = [disk EXCEPT !.maps[m] = a, !.versions[m] = vs, !.statics[m] = cs]
    BY <1>4, Zenon DEF PutMap
  <2>1. disk' \in Disk
    BY <1>1 DEF Disk
  <2>2. \A n \in MapId : n # m => /\ disk'.maps[n] = disk.maps[n]
                                  /\ disk'.versions[n] = disk.versions[n]
                                  /\ disk'.statics[n] = disk.statics[n]
    BY <1>1 DEF Disk
  <2>3. disk'.maps[m] # NoMap
    BY <1>1, DistinctNone DEF Disk
  <2>4. RowsHaveMaps'
    BY <1>1, <2>2, <2>3 DEF RowsHaveMaps
  <2> QED
    BY <1>1, <2>1, <2>4 DEF Disk
<1>5. CASE DeleteMap
  <2> PICK m \in MapId :
        disk' = [disk EXCEPT !.maps[m] = NoMap,
                             !.versions[m] = IF fk THEN {} ELSE @,
                             !.statics[m] = IF fk THEN {} ELSE @]
    BY <1>5, Zenon DEF DeleteMap
  <2>1. disk' \in Disk
    BY <1>1 DEF Disk
  <2>2. RowsHaveMaps'
    BY <1>1 DEF Disk, RowsHaveMaps
  <2>3. /\ disk'.obsolete = disk.obsolete /\ disk'.inline = disk.inline
        /\ disk'.current = disk.current /\ disk'.legacyAPI = disk.legacyAPI
    BY <1>1 DEF Disk
  <2> QED
    BY <1>1, <2>1, <2>2, <2>3, Zenon
<1>6. CASE SaveDatabase
  <2> PICK s \in Settings : disk' = [disk EXCEPT !.host = s, !.dsn = NoSettings, !.legacyAPI = NoURL]
    BY <1>6 DEF SaveDatabase
  <2>1. disk' \in Disk
    BY <1>1 DEF Disk
  <2>2. /\ disk'.maps = disk.maps /\ disk'.versions = disk.versions /\ disk'.statics = disk.statics
        /\ disk'.obsolete = disk.obsolete /\ disk'.inline = disk.inline
        /\ disk'.current = disk.current /\ disk'.legacyAPI = NoURL
    BY <1>1 DEF Disk
  <2> QED
    BY <1>1, <2>1, <2>2 DEF RowsHaveMaps
<1> QED
  BY <1>2, <1>3, <1>4, <1>5, <1>6 DEF Edit

\* What the commit of either transaction makes of the database.
LEMMA CommitStep ==
    ASSUME DiskInv, Commit
    PROVE  /\ disk' \in Disk /\ RowsHaveMaps'
           /\ Meaning(disk') = Meaning(disk)
           /\ disk'.obsolete = disk.obsolete
           /\ pc = "api" => disk'.current = disk.current /\ disk'.inline = disk.inline
<1>1. tx # NoTx /\ tx \in Disk /\ disk \in Disk /\ disk' = tx /\ todo = <<>> /\ RowsHaveMaps
  BY DEF Commit, DiskInv, TypeInv
<1>2. CASE pc = "inline"
  <2>1. /\ tx.obsolete = disk.obsolete /\ tx.statics = disk.statics
        /\ tx.maps = disk.maps /\ tx.versions = disk.versions
        /\ tx.legacyAPI = disk.legacyAPI /\ tx.apis = disk.apis
        /\ tx.dsn = disk.dsn /\ tx.host = disk.host
    BY <1>1, <1>2 DEF DiskInv, TxInv, Rewriting
  <2> QED
    BY <1>1, <1>2, <2>1, MeaningFields DEF RowsHaveMaps
<1>3. CASE pc = "api"
  <2>1. /\ tx.obsolete = disk.obsolete /\ tx.current = disk.current /\ tx.inline = disk.inline
        /\ tx.versions = disk.versions /\ tx.statics = disk.statics
        /\ tx.dsn = disk.dsn /\ tx.host = disk.host
        /\ tx.apis = Meaning(disk).apis /\ tx.maps = Meaning(disk).maps
        /\ tx.legacyAPI = NoURL
    BY <1>1, <1>3 DEF DiskInv, TxInv, Moving
  <2>2. Loaded(tx) = Meaning(disk)
    BY <2>1 DEF Loaded, Meaning, LoadedSettings
  <2>3. Loaded(tx) = Meaning(tx)
    BY <1>1, <2>1, NothingLegacy
  <2>4. RowsHaveMaps'
    BY <1>1, <2>1, MeaningType DEF RowsHaveMaps
  <2> QED
    BY <1>1, <2>1, <2>2, <2>3, <2>4
<1> QED
  BY <1>1, <1>2, <1>3 DEF DiskInv, TxInv

\* Every step but an edit and a commit, and what it does to the database.
Quietly ==
    /\ disk' \in Disk
    /\ disk'.maps = disk.maps /\ disk'.apis = disk.apis /\ disk'.legacyAPI = disk.legacyAPI
    /\ disk'.versions = disk.versions /\ disk'.statics = disk.statics
    /\ disk'.dsn = disk.dsn /\ disk'.host = disk.host

\* The stages of Open but for the two transactions.
LEMMA StageStep ==
    ASSUME DiskInv,
           \/ Connect \/ DropObsolete \/ ObsoleteDropped \/ MigrateMaps
           \/ NothingInline \/ CreateTables \/ AutoMigrate \/ AutoMigrateDone
           \/ EnforceKeys \/ Ends
    PROVE  TypeInv' /\ StageInv' /\ TxInv' /\ Quietly
<1>0. disk \in Disk /\ TypeInv /\ StageInv /\ TxInv
  BY DEF DiskInv, TypeInv
<1>1. CASE Connect
  BY <1>0, <1>1 DEF Connect, TypeInv, StageInv, TxInv, Quietly, Stages
<1>2. CASE DropObsolete
  <2>1. disk' \in Disk /\ disk' = [disk EXCEPT !.obsolete = disk'.obsolete]
    BY <1>0, <1>2 DEF DropObsolete, Disk
  <2>2. UNCHANGED <<fk, pc, tx, todo>> /\ pc = "obsolete"
    BY <1>2 DEF DropObsolete
  <2>3. Quietly
    BY <1>0, <2>1 DEF Quietly, Disk
  <2> QED
    BY <1>0, <2>1, <2>2, <2>3 DEF TypeInv, StageInv, TxInv
<1>3. CASE ObsoleteDropped
  BY <1>0, <1>3 DEF ObsoleteDropped, TypeInv, StageInv, TxInv, Quietly, Stages
<1>4. CASE MigrateMaps
  <2>1. "maps" \in Tables /\ ~fk /\ pc = "maps"
    BY <1>0, <1>4 DEF MigrateMaps, StageInv, Tables
  <2>2. Quietly /\ disk'.obsolete = disk.obsolete
    BY <1>0, <1>4, <2>1, AutoMigratedType DEF MigrateMaps, Quietly
  <2>3. UNCHANGED <<fk, tx, todo>> /\ pc' = "inline" /\ tx = NoTx
    BY <1>0, <1>4 DEF MigrateMaps, TxInv
  <2> QED
    BY <1>0, <2>1, <2>2, <2>3 DEF TypeInv, StageInv, TxInv, Stages, Quietly
<1>5. CASE NothingInline
  BY <1>0, <1>5 DEF NothingInline, TypeInv, StageInv, TxInv, Quietly, Stages
<1>6. CASE CreateTables
  BY <1>0, <1>6 DEF CreateTables, TypeInv, StageInv, TxInv, Quietly, Stages
<1>7. CASE AutoMigrate
  <2> PICK t \in Tables : disk' = AutoMigrated(t)
    BY <1>7 DEF AutoMigrate
  <2>1. ~fk /\ pc = "auto" /\ ~disk.inline
    BY <1>0, <1>7 DEF AutoMigrate, StageInv
  <2>2. Quietly /\ disk'.obsolete = disk.obsolete /\ disk'.inline = disk.inline
    BY <1>0, <2>1, AutoMigratedType DEF Quietly
  <2>3. UNCHANGED <<fk, pc, tx, todo>>
    BY <1>7 DEF AutoMigrate
  <2> QED
    BY <1>0, <2>1, <2>2, <2>3 DEF TypeInv, StageInv, TxInv, Stages, Quietly
<1>8. CASE AutoMigrateDone
  BY <1>0, <1>8 DEF AutoMigrateDone, TypeInv, StageInv, TxInv, Quietly, Stages
<1>9. CASE EnforceKeys
  BY <1>0, <1>9 DEF EnforceKeys, TypeInv, StageInv, TxInv, Quietly, Stages
<1>10. CASE Ends
  BY <1>0, <1>10 DEF Ends, TypeInv, StageInv, TxInv, Quietly, Stages
<1> QED
  BY <1>1, <1>2, <1>3, <1>4, <1>5, <1>6, <1>7, <1>8, <1>9, <1>10

\* Every step keeps the invariant, and but for an edit what is configured.
LEMMA MigrationStepInv ==
    ASSUME DiskInv, [MigrationNext]_migrationVars
    PROVE  DiskInv' /\ (Meaning(disk') = Meaning(disk) \/ pc = "open")
<1>0. disk \in Disk /\ TypeInv /\ StageInv /\ TxInv /\ RowsHaveMaps
  BY DEF DiskInv, TypeInv
<1>1. ASSUME \/ Connect \/ DropObsolete \/ ObsoleteDropped \/ MigrateMaps
             \/ NothingInline \/ CreateTables \/ AutoMigrate \/ AutoMigrateDone
             \/ EnforceKeys \/ Ends
      PROVE  DiskInv' /\ Meaning(disk') = Meaning(disk)
  <2>1. TypeInv' /\ StageInv' /\ TxInv' /\ Quietly
    BY <1>1, StageStep
  <2>2. RowsHaveMaps'
    BY <1>0, <2>1 DEF Quietly, RowsHaveMaps
  <2>3. Meaning(disk') = Meaning(disk)
    BY <1>0, <2>1, MeaningFields DEF Quietly
  <2> QED
    BY <2>1, <2>2, <2>3 DEF DiskInv
<1>2. CASE BeginRewrite
  <2>1. Rewriting'
    BY <1>0, <1>2 DEF BeginRewrite, Rewriting, Disk
  <2>2. TypeInv' /\ StageInv' /\ TxInv' /\ RowsHaveMaps'
    <3>1. disk' = disk /\ tx' = disk /\ pc = "inline" /\ UNCHANGED <<fk, pc>> /\ tx' # NoTx
      BY <1>0, <1>2, DistinctNone DEF BeginRewrite
    <3> QED
      BY <1>0, <2>1, <3>1 DEF TypeInv, StageInv, TxInv, RowsHaveMaps
  <2> QED
    BY <1>2, <2>2 DEF DiskInv, BeginRewrite
<1>3. CASE BeginAPI
  <2>1. \/ todo' = <<"createAPI", "pointMaps", "clearLegacy">> /\ disk.apis[Default] = NoURL
        \/ todo' = <<"pointMaps", "clearLegacy">> /\ disk.apis[Default] # NoURL
    BY <1>3 DEF BeginAPI
  <2>2. tx' = disk /\ disk' = disk /\ disk.legacyAPI # NoURL /\ pc = "api"
        /\ UNCHANGED <<fk, pc>>
    BY <1>3 DEF BeginAPI
  <2>3. disk.apis[Default] # NoURL => Meaning(disk).apis = disk.apis
    BY DEF Meaning
  <2>4. Moving'
    BY <2>1, <2>2, <2>3 DEF Moving
  <2>5. TypeInv' /\ StageInv' /\ TxInv' /\ RowsHaveMaps'
    BY <1>0, <2>2, <2>4, DistinctNone DEF TypeInv, StageInv, TxInv, RowsHaveMaps
  <2> QED
    BY <2>2, <2>5 DEF DiskInv
<1>4. CASE Exec
  <2>1. UNCHANGED <<disk, fk, pc>> /\ tx # NoTx
    BY <1>0, <1>4 DEF Exec, TxInv
  <2>2. tx' \in Disk /\ (pc = "inline" => Rewriting') /\ (pc = "api" => Moving')
        /\ pc \in {"inline", "api"}
    BY <1>0, <1>4, <2>1, RewriteStep, MoveStep DEF TxInv
  <2>3. TypeInv' /\ StageInv' /\ TxInv' /\ RowsHaveMaps'
    BY <1>0, <2>1, <2>2, DistinctNone DEF TypeInv, StageInv, TxInv, RowsHaveMaps
  <2> QED
    BY <2>1, <2>3 DEF DiskInv
<1>5. CASE Commit
  <2>1. /\ disk' \in Disk /\ RowsHaveMaps'
        /\ Meaning(disk') = Meaning(disk)
        /\ disk'.obsolete = disk.obsolete
        /\ pc = "api" => disk'.current = disk.current /\ disk'.inline = disk.inline
    BY <1>5, CommitStep
  <2>2. UNCHANGED <<fk, pc>> /\ tx' = NoTx /\ todo' = <<>> /\ pc \in {"inline", "api"}
    BY <1>0, <1>5 DEF Commit, TxInv
  <2>3. TypeInv' /\ StageInv' /\ TxInv'
    BY <1>0, <2>1, <2>2 DEF TypeInv, StageInv, TxInv
  <2> QED
    BY <2>1, <2>3 DEF DiskInv
<1>6. CASE Edit
  <2>1. /\ disk' \in Disk /\ RowsHaveMaps'
        /\ disk'.obsolete = disk.obsolete /\ disk'.inline = disk.inline
        /\ disk'.current = disk.current /\ disk'.legacyAPI = NoURL
    BY <1>6, EditStep
  <2>2. UNCHANGED <<fk, pc, tx, todo>> /\ pc = "open" /\ tx = NoTx
    BY <1>0, <1>6 DEF Edit, TxInv
  <2>3. TypeInv' /\ StageInv' /\ TxInv'
    BY <1>0, <2>1, <2>2 DEF TypeInv, StageInv, TxInv
  <2> QED
    BY <2>1, <2>2, <2>3 DEF DiskInv
<1>7. CASE UNCHANGED migrationVars
  BY <1>0, <1>7 DEF migrationVars, DiskInv, TypeInv, StageInv, TxInv, RowsHaveMaps, Rewriting, Moving
<1> QED
  BY <1>1, <1>2, <1>3, <1>4, <1>5, <1>6, <1>7 DEF MigrationNext

\* The inductive invariant the theorems below are read off.
THEOREM DiskInvariant == MigrationSpec => []DiskInv
BY FirstDiskInv, MigrationStepInv, PTL DEF MigrationSpec

\* The database, the pragma and what is left of a transaction keep their types.
THEOREM MigrationTypeCorrect == MigrationSpec => []MigrationTypeOK
<1>1. DiskInv => MigrationTypeOK
  <2> SUFFICES ASSUME DiskInv PROVE MigrationTypeOK
    OBVIOUS
  <2> DEFINE Known == {"dropTemp", "copy", "drop", "rename",
                       "createAPI", "pointMaps", "clearLegacy"}
  <2>1. todo \in {<<>>, <<"dropTemp", "copy", "drop", "rename">>, <<"copy", "drop", "rename">>,
                  <<"drop", "rename">>, <<"rename">>,
                  <<"createAPI", "pointMaps", "clearLegacy">>, <<"pointMaps", "clearLegacy">>,
                  <<"clearLegacy">>}
    BY DEF DiskInv, TxInv, Rewriting, Moving
  <2>2. /\ <<"dropTemp", "copy", "drop", "rename">> \in Seq(Known)
        /\ <<"copy", "drop", "rename">> \in Seq(Known)
        /\ <<"drop", "rename">> \in Seq(Known) /\ <<"rename">> \in Seq(Known)
    OBVIOUS
  <2>3. /\ <<"createAPI", "pointMaps", "clearLegacy">> \in Seq(Known)
        /\ <<"pointMaps", "clearLegacy">> \in Seq(Known) /\ <<"clearLegacy">> \in Seq(Known)
        /\ <<>> \in Seq(Known)
    OBVIOUS
  <2>4. todo \in Seq(Known)
    BY <2>1, <2>2, <2>3, Zenon
  <2> QED
    BY <2>4 DEF DiskInv, TypeInv, TxInv, MigrationTypeOK
<1> QED
  BY <1>1, DiskInvariant, PTL

\* Once Open has returned, however often it was cut short before, Load finds
\* everything in today's tables.
THEOREM Migrated == MigrationSpec => []OpenIsMigrated
<1>1. DiskInv => OpenIsMigrated
  BY NothingLegacy DEF DiskInv, TypeInv, StageInv, OpenIsMigrated
<1> QED
  BY <1>1, DiskInvariant, PTL

\* A map's versions and static columns go with it, on any database.
THEOREM RowsGoWithMaps == MigrationSpec => []RowsHaveMaps
<1>1. DiskInv => RowsHaveMaps
  BY DEF DiskInv
<1> QED
  BY <1>1, DiskInvariant, PTL

\* No start, wherever it ends, changes what is configured.
THEOREM ConfigKept == MigrationSpec => StartsKeepConfig
<1>1. DiskInv /\ [MigrationNext]_migrationVars => [Meaning(disk)' # Meaning(disk) => pc = "open"]_migrationVars
  <2>1. ASSUME DiskInv, [MigrationNext]_migrationVars PROVE Meaning(disk)' = Meaning(disk) \/ pc = "open"
    <3>1. Meaning(disk') = Meaning(disk) \/ pc = "open"
      BY <2>1, MigrationStepInv
    <3> QED
      BY <3>1 DEF Meaning, LoadedSettings
  <2> QED
    BY <2>1
<1> QED
  BY <1>1, DiskInvariant, PTL DEF MigrationSpec, StartsKeepConfig

-----------------------------------------------------------------------------
(* Process. The inductive invariant.                                        *)

\* The databases are closed and the web server is off before run opens them
\* and after it closed them.
OpenInv ==
    /\ loop = "opening" => ~open /\ ~serving /\ Busy = {}
    /\ ~open => loop \in {"opening", "returned"}
    /\ loop \in {"shutdown", "returned"} => ~serving
    /\ loop = "returned" => ~open /\ (Busy = {} \/ gaveUp)

\* Where the time since the cancellation went.
StopInv ==
    /\ loop \notin {"shutdown", "returned"} => spent = 0
    /\ loop = "shutdown" => spent + grace <= Grace
    /\ service = "stopping" /\ loop # "returned" => stopLeft + spent + blocked >= StopTimeout
    /\ service = "stopping" => cancelled
    /\ StopWaitsForHandlersOnly

\* Until there is a verifier nobody waits longer than the discovery in
\* progress takes, once there is one nobody waits any more.
WaitInv ==
    \A h \in Verifying : waited[h] <= DiscoveryTimeout /\ (~cached => waited[h] <= elapsed)

IInv == TypeOK /\ OpenInv /\ StopInv /\ WaitInv

USE ActorsDistinct, Timeouts

LEMMA InitInv == Init => IInv
<1> SUFFICES ASSUME Init PROVE IInv
  OBVIOUS
<1>1. TypeOK
  <2>1. loop \in LoopLabel /\ service \in Service
    BY DEF Init, LoopLabel, Service
  <2>2. /\ holder \in [Locks -> Handlers \cup {Loop, Nobody}]
        /\ \A h \in Handlers, l \in Locks : holder[l] # h
    BY DEF Init
  <2>3. /\ handling \in [Handlers -> {"none", "verify", "serve"}] /\ waited \in [Handlers -> Nat]
        /\ verifying \in Verifying \cup {Nobody}
    BY DEF Init
  <2>4. /\ elapsed \in 0 .. DiscoveryTimeout /\ grace \in 0 .. Grace /\ stopLeft \in 0 .. StopTimeout
        /\ spent \in Nat /\ blocked \in 0 .. StopTimeout
    BY DEF Init
  <2>5. /\ cancelled \in BOOLEAN /\ serving \in BOOLEAN /\ open \in BOOLEAN /\ cached \in BOOLEAN
        /\ gaveUp \in BOOLEAN
    BY DEF Init
  <2> QED
    BY <2>1, <2>2, <2>3, <2>4, <2>5 DEF TypeOK
<1>2. OpenInv /\ StopInv
  BY DEF Init, OpenInv, StopInv, StopWaitsForHandlersOnly, Busy
<1>3. WaitInv
  BY DEF Init, WaitInv, Verifying
<1> QED
  BY <1>1, <1>2, <1>3 DEF IInv

\* Steps of run other than Shutdown, which leave the requests alone.
LEMMA LoopInv ==
    ASSUME IInv,
           Opened \/ OpenFails \/ ListenFails \/ LoopLocks \/ LoopUnlocks \/ LooksForDue \/ Wakes
    PROVE  IInv'
<1>1. UNCHANGED <<cancelled, handling, verifying, cached, elapsed, waited, grace, service, stopLeft,
                  gaveUp, spent, blocked>>
  BY DEF Opened, OpenFails, ListenFails, LoopLocks, LoopUnlocks, LooksForDue, Wakes, http, cache,
         scm, late
<1>2. /\ loop' \in LoopLabel /\ serving' \in BOOLEAN /\ open' \in BOOLEAN
      /\ loop \notin {"shutdown", "returned"} => loop' # "shutdown"
      /\ loop = "returned" => loop' = "returned"
      /\ loop = "shutdown" => loop' = "shutdown"
  BY DEF Opened, OpenFails, ListenFails, LoopLocks, LoopUnlocks, LooksForDue, Wakes, http,
         LoopLabel, IInv, TypeOK, Wanted
<1>3. /\ holder' \in [Locks -> Handlers \cup {Loop, Nobody}]
      /\ \A h \in Handlers, l \in Locks : holder'[l] = h => holder[l] = h
  <2>1. CASE LoopLocks
    BY <2>1 DEF LoopLocks, IInv, TypeOK, Locks
  <2>2. CASE LoopUnlocks
    BY <2>2 DEF LoopUnlocks, IInv, TypeOK, Locks
  <2>3. CASE UNCHANGED holder
    BY <2>3 DEF IInv, TypeOK
  <2> QED
    BY <2>1, <2>2, <2>3 DEF Opened, OpenFails, ListenFails, LooksForDue, Wakes
<1>4. TypeOK'
  BY <1>1, <1>2, <1>3 DEF IInv, TypeOK, Verifying
<1>5. OpenInv'
  <2>1. Busy' = Busy
    BY <1>1 DEF Busy
  <2>2. CASE Opened \/ OpenFails
    BY <1>1, <2>1, <2>2 DEF Opened, OpenFails, http, IInv, OpenInv
  <2>3. CASE ListenFails
    BY <1>1, <2>1, <2>3 DEF ListenFails, IInv, OpenInv
  <2>4. CASE LoopLocks \/ LoopUnlocks \/ LooksForDue \/ Wakes
    <3>1. /\ UNCHANGED <<open, serving>>
          /\ loop \notin {"opening", "shutdown", "returned"}
          /\ loop' \notin {"opening", "shutdown", "returned"}
      BY <2>4 DEF LoopLocks, LoopUnlocks, LooksForDue, Wakes, http, Wanted
    <3> QED
      BY <1>1, <2>1, <3>1 DEF IInv, OpenInv
  <2> QED
    BY <2>2, <2>3, <2>4
<1>6. StopInv'
  BY <1>1, <1>2 DEF IInv, StopInv, StopWaitsForHandlersOnly, TypeOK
<1>7. WaitInv'
  BY <1>1 DEF IInv, WaitInv, Verifying
<1> QED
  BY <1>4, <1>5, <1>6, <1>7 DEF IInv

LEMMA ShutdownInv ==
    ASSUME IInv, Stops \/ Closes
    PROVE  IInv'
<1>1. UNCHANGED <<cancelled, holder, handling, verifying, cached, elapsed, waited, service, stopLeft,
                  spent, blocked>>
  BY DEF Stops, Closes, http, cache, scm, late
<1>2. TypeOK'
  <2>1. /\ loop' \in LoopLabel /\ serving' \in BOOLEAN /\ open' \in BOOLEAN /\ gaveUp' \in BOOLEAN
        /\ UNCHANGED handling
    BY DEF Stops, Closes, http, IInv, TypeOK, LoopLabel
  <2>2. grace' \in 0 .. Grace
    BY DEF Stops, Closes, IInv, TypeOK
  <2> QED
    BY <1>1, <2>1, <2>2 DEF IInv, TypeOK, Verifying
<1>3. OpenInv'
  BY <1>1 DEF Stops, Closes, http, IInv, TypeOK, OpenInv, Busy
<1>4. StopInv'
  BY <1>1 DEF Stops, Closes, IInv, TypeOK, StopInv, StopWaitsForHandlersOnly
<1>5. WaitInv'
  BY <1>1 DEF IInv, WaitInv, Verifying
<1> QED
  BY <1>2, <1>3, <1>4, <1>5 DEF IInv

\* A request comes to the verifier cache, and may get its mutex.
LEMMA ArriveInv ==
    ASSUME IInv, NEW h \in Handlers, Arrive(h) \/ TakesCache(h)
    PROVE  IInv'
<1>1. UNCHANGED <<loop, cancelled, open, holder, serving, cached, elapsed, grace, service, stopLeft,
                  gaveUp, spent, blocked>>
  BY DEF Arrive, TakesCache, http, scm, late
<1>2. /\ handling' \in [Handlers -> {"none", "verify", "serve"}] /\ handling'[h] = "verify"
      /\ \A g \in Handlers : g # h => handling'[g] = handling[g]
      /\ handling[h] \in {"none", "verify"}
  BY DEF Arrive, TakesCache, http, IInv, TypeOK
<1>3. waited' \in [Handlers -> Nat] /\ \A g \in Handlers : waited'[g] = waited[g] \/ waited'[g] = 0
  BY DEF Arrive, TakesCache, IInv, TypeOK
<1>4. Verifying' = Verifying \cup {h} /\ (h \notin Verifying => waited'[h] = 0)
  BY <1>2 DEF Verifying, Arrive, TakesCache, IInv, TypeOK
<1>5. TypeOK'
  <2>1. verifying' \in Verifying' \cup {Nobody}
    BY <1>4 DEF Arrive, TakesCache, IInv, TypeOK
  <2> QED
    BY <1>1, <1>2, <1>3, <2>1 DEF IInv, TypeOK
<1>6. OpenInv'
  <2>1. CASE Arrive(h)
    BY <1>1, <2>1 DEF Arrive, IInv, OpenInv
  <2>2. CASE TakesCache(h)
    BY <1>1, <2>2 DEF TakesCache, http, IInv, OpenInv, Busy
  <2> QED
    BY <2>1, <2>2
<1>7. StopInv'
  BY <1>1 DEF IInv, StopInv, StopWaitsForHandlersOnly
<1>8. WaitInv'
  <2>1. elapsed \in Nat /\ DiscoveryTimeout \in Nat
    BY DEF IInv, TypeOK
  <2> QED
    BY <1>1, <1>3, <1>4, <2>1 DEF IInv, WaitInv, Verifying
<1> QED
  BY <1>5, <1>6, <1>7, <1>8 DEF IInv

\* It leaves it with a verifier or with its failure.
LEMMA VerifiedInv ==
    ASSUME IInv, NEW found \in BOOLEAN, Verified(found)
    PROVE  IInv'
<1>1. UNCHANGED <<loop, cancelled, open, holder, serving, grace, service, stopLeft, gaveUp, spent,
                  blocked>>
  BY DEF Verified, scm, late
<1>2. /\ verifying \in Verifying /\ verifying \in Handlers /\ handling[verifying] = "verify"
      /\ handling' = [handling EXCEPT ![verifying] = "serve"]
      /\ verifying' = Nobody /\ elapsed' = 0 /\ cached' = (cached \/ found)
  BY DEF Verified, Leaves, IInv, TypeOK, Verifying
<1>3. /\ waited' \in [Handlers -> Nat]
      /\ \A h \in Handlers : waited'[h] = 0 \/ (found /\ waited'[h] = waited[h])
  BY DEF Verified, Leaves, IInv, TypeOK
<1>4. Verifying' \subseteq Verifying /\ Busy' = Busy
  BY <1>2 DEF Verifying, Busy, IInv, TypeOK
<1>5. TypeOK'
  <2>1. cached' \in BOOLEAN /\ elapsed' \in 0 .. DiscoveryTimeout
    BY <1>2 DEF IInv, TypeOK
  <2>2. handling' \in [Handlers -> {"none", "verify", "serve"}]
        /\ \A h \in Handlers : handling[h] = "serve" => handling'[h] = "serve"
    BY <1>2 DEF IInv, TypeOK
  <2> QED
    BY <1>1, <1>2, <1>3, <2>1, <2>2 DEF IInv, TypeOK
<1>6. OpenInv' /\ StopInv'
  BY <1>1, <1>4 DEF IInv, OpenInv, StopInv, StopWaitsForHandlersOnly
<1>7. WaitInv'
  BY <1>2, <1>3, <1>4 DEF IInv, WaitInv, Verifying
<1> QED
  BY <1>5, <1>6, <1>7 DEF IInv

\* What a handler does once it is past the verifier.
LEMMA ServeInv ==
    ASSUME IInv, NEW h \in Handlers,
           Answer(h) \/ \E l \in Locks : Acquire(h, l) \/ Release(h, l)
    PROVE  IInv'
<1>1. UNCHANGED <<loop, cancelled, open, serving, verifying, cached, elapsed, waited, grace, service,
                  stopLeft, gaveUp, spent, blocked>>
  BY DEF Answer, Acquire, Release, http, cache, scm, late
<1>2. /\ handling' \in [Handlers -> {"none", "verify", "serve"}] /\ Busy' \subseteq Busy
      /\ \A g \in Handlers : handling'[g] = "verify" <=> handling[g] = "verify"
  BY DEF Answer, Acquire, Release, http, Busy, IInv, TypeOK
<1>3. TypeOK'
  <2>1. CASE Answer(h)
    BY <1>1, <2>1 DEF Answer, IInv, TypeOK, Verifying
  <2>2. CASE \E l \in Locks : Acquire(h, l) \/ Release(h, l)
    <3>1. PICK l \in Locks : Acquire(h, l) \/ Release(h, l)
      BY <2>2
    <3>2. UNCHANGED handling /\ holder \in [Locks -> Handlers \cup {Loop, Nobody}]
      BY <3>1 DEF Acquire, Release, http, IInv, TypeOK
    <3>3. CASE Acquire(h, l)
      BY <1>1, <3>2, <3>3 DEF Acquire, IInv, TypeOK, Verifying
    <3>4. CASE Release(h, l)
      BY <1>1, <3>2, <3>4 DEF Release, IInv, TypeOK, Verifying
    <3> QED
      BY <3>1, <3>3, <3>4
  <2> QED
    BY <2>1, <2>2
<1>4. OpenInv' /\ StopInv'
  BY <1>1, <1>2 DEF IInv, OpenInv, StopInv, StopWaitsForHandlersOnly
<1>5. WaitInv'
  BY <1>1, <1>2 DEF IInv, WaitInv, Verifying
<1> QED
  BY <1>3, <1>4, <1>5 DEF IInv

\* Signals and the service.
LEMMA ServiceInv ==
    ASSUME IInv, Signal \/ Stop \/ Stopped
    PROVE  IInv'
<1>1. UNCHANGED <<loop, open, holder, serving, handling, verifying, cached, elapsed, waited, grace,
                  gaveUp, spent, blocked>>
  BY DEF Signal, Stop, Stopped, http, cache, late
<1>2. TypeOK'
  <2>1. service' \in Service /\ cancelled' \in BOOLEAN
    BY DEF Signal, Stop, Stopped, scm, IInv, TypeOK, Service
  <2>2. stopLeft' \in 0 .. StopTimeout
    BY DEF Signal, Stop, Stopped, scm, IInv, TypeOK
  <2> QED
    BY <1>1, <2>1, <2>2 DEF IInv, TypeOK, Verifying
<1>3. OpenInv' /\ WaitInv'
  BY <1>1 DEF IInv, OpenInv, Busy, WaitInv, Verifying
<1>4. StopInv'
  BY <1>1 DEF Signal, Stop, Stopped, scm, IInv, TypeOK, StopInv, StopWaitsForHandlersOnly
<1> QED
  BY <1>2, <1>3, <1>4 DEF IInv

LEMMA ExitInv ==
    ASSUME Exit
    PROVE  IInv'
<1>1. service' \in {"console", "running"} /\ Started
  BY DEF Exit
<1>2. TypeOK'
  <2>1. loop' \in LoopLabel /\ service' \in Service
    BY <1>1 DEF Started, LoopLabel, Service
  <2>2. /\ holder' \in [Locks -> Handlers \cup {Loop, Nobody}]
        /\ \A h \in Handlers, l \in Locks : holder'[l] # h
    BY <1>1 DEF Started
  <2>3. /\ handling' \in [Handlers -> {"none", "verify", "serve"}] /\ waited' \in [Handlers -> Nat]
        /\ verifying' \in Verifying' \cup {Nobody}
    BY <1>1 DEF Started
  <2>4. /\ elapsed' \in 0 .. DiscoveryTimeout /\ grace' \in 0 .. Grace
        /\ stopLeft' \in 0 .. StopTimeout /\ spent' \in Nat /\ blocked' \in 0 .. StopTimeout
    BY <1>1 DEF Started
  <2>5. /\ cancelled' \in BOOLEAN /\ serving' \in BOOLEAN /\ open' \in BOOLEAN
        /\ cached' \in BOOLEAN /\ gaveUp' \in BOOLEAN
    BY <1>1 DEF Started
  <2> QED
    BY <2>1, <2>2, <2>3, <2>4, <2>5 DEF TypeOK
<1>3. OpenInv' /\ StopInv' /\ WaitInv'
  BY <1>1 DEF Started, OpenInv, StopInv, StopWaitsForHandlersOnly, Busy, WaitInv, Verifying
<1> QED
  BY <1>2, <1>3 DEF IInv

LEMMA TickInv ==
    ASSUME IInv, Tick
    PROVE  IInv'
<1>1. UNCHANGED <<loop, cancelled, open, holder, serving, handling, verifying, cached, service, gaveUp>>
  BY DEF Tick, http
<1>2. TypeOK'
  <2>1. grace' \in 0 .. Grace /\ stopLeft' \in 0 .. StopTimeout
    BY DEF Tick, Prompt, IInv, TypeOK
  <2>2. elapsed' \in 0 .. DiscoveryTimeout /\ waited' \in [Handlers -> Nat]
    BY DEF Tick, Prompt, IInv, TypeOK
  <2>3. spent' \in Nat /\ blocked' \in 0 .. StopTimeout
    BY DEF Tick, IInv, TypeOK
  <2> QED
    BY <1>1, <2>1, <2>2, <2>3 DEF IInv, TypeOK, Verifying
<1>3. OpenInv'
  BY <1>1 DEF IInv, OpenInv, Busy
<1>4. StopInv'
  <2>1. cancelled => loop \in {"first", "due", "shutdown", "returned"}
    BY DEF Tick, Prompt, IInv, TypeOK, LoopLabel
  <2>2. service # "stopped" /\ spent \in Nat /\ blocked \in 0 .. StopTimeout
    BY DEF Tick, Prompt, IInv, TypeOK
  <2>3. spent' = IF cancelled /\ loop = "shutdown" THEN spent + 1 ELSE spent
    BY <2>1 DEF Tick, Wanted
  <2>4. /\ loop \notin {"shutdown", "returned"} => spent' = 0
        /\ loop = "shutdown" => spent' + grace' <= Grace
        /\ spent' <= Grace
    BY <2>2, <2>3 DEF Tick, Prompt, IInv, TypeOK, StopInv, StopWaitsForHandlersOnly
  <2>5. ASSUME service = "stopping", loop # "returned"
        PROVE  stopLeft' + spent' + blocked' >= StopTimeout
    <3>1. cancelled /\ stopLeft + spent + blocked >= StopTimeout /\ stopLeft \in 0 .. StopTimeout
      BY <2>5 DEF IInv, TypeOK, StopInv
    <3>2. stopLeft' = stopLeft - 1 /\ stopLeft > 0
      BY <2>5 DEF Tick, Prompt
    <3>3. CASE loop = "shutdown"
      BY <2>2, <2>3, <3>1, <3>2, <3>3 DEF Tick, Wanted
    <3>4. CASE loop \in {"first", "due"}
      <4>1. blocked' = IF blocked < StopTimeout THEN blocked + 1 ELSE blocked
        BY <3>1, <3>4 DEF Tick, Wanted
      <4>2. spent' = spent
        BY <2>3, <3>4
      <4> QED
        BY <2>2, <3>1, <3>2, <4>1, <4>2, Timeouts
    <3> QED
      BY <2>1, <2>5, <3>1, <3>3, <3>4
  <2> QED
    BY <1>1, <2>2, <2>4, <2>5 DEF IInv, StopInv, StopWaitsForHandlersOnly
<1>5. WaitInv'
  <2>1. ASSUME NEW h \in Verifying
        PROVE  waited'[h] <= elapsed' /\ elapsed' <= DiscoveryTimeout
    <3>1. ~cached /\ elapsed < DiscoveryTimeout /\ elapsed' = elapsed + 1
      BY <2>1 DEF Tick, Prompt
    <3>2. waited'[h] = waited[h] + 1 /\ waited[h] \in Nat
      BY <2>1 DEF Tick, IInv, TypeOK, Verifying
    <3>3. waited[h] <= elapsed /\ elapsed \in Nat /\ DiscoveryTimeout \in Nat
      BY <2>1, <3>1 DEF IInv, WaitInv, TypeOK
    <3> QED
      BY <3>1, <3>2, <3>3
  <2>2. Verifying' = Verifying /\ \A h \in Verifying : waited'[h] \in Nat
    BY <1>1, <1>2 DEF Verifying, TypeOK
  <2>3. elapsed' \in Nat /\ DiscoveryTimeout \in Nat
    BY <1>2 DEF TypeOK
  <2> QED
    BY <1>1, <2>1, <2>2, <2>3 DEF WaitInv
<1> QED
  BY <1>2, <1>3, <1>4, <1>5 DEF IInv

LEMMA NextInv == IInv /\ [Next]_vars => IInv'
<1> SUFFICES ASSUME IInv, [Next]_vars PROVE IInv'
  OBVIOUS
<1>1. CASE UNCHANGED vars
  BY <1>1 DEF vars, http, cache, scm, late, IInv, TypeOK, OpenInv, StopInv, StopWaitsForHandlersOnly,
              WaitInv, Verifying, Busy
<1>2. CASE Next
  BY <1>2, LoopInv, ShutdownInv, ArriveInv, VerifiedInv, ServeInv, ServiceInv, ExitInv, TickInv
  DEF Next, LoopStep
<1> QED
  BY <1>1, <1>2

THEOREM Invariant == Spec => []IInv
BY InitInv, NextInv, PTL DEF Spec

-----------------------------------------------------------------------------
(* The theorems. *)

\* No handler meets closed databases unless Shutdown gave up on it (the order
\* of run's deferred calls).
THEOREM ClosedLast == Spec => []DatabasesOutliveHandlers
<1>1. IInv => DatabasesOutliveHandlers
  BY DEF IInv, OpenInv, DatabasesOutliveHandlers, Busy
<1> QED
  BY <1>1, Invariant, PTL

\* Only handlers that hold a lock can keep a stop waiting beyond Shutdown's
\* grace (run and handleRequest).
THEOREM StopIsPrompt == Spec => []StopWaitsForHandlersOnly
BY Invariant, PTL DEF IInv, StopInv

\* A request waits one oidcTimeout at most before a discovery fails or it is
\* through, in whatever order the mutex admits requests (ssoVerifierCache.get).
THEOREM VerifyBounded == Spec => []VerifyWaitIsBounded
<1>1. IInv => VerifyWaitIsBounded
  BY DEF IInv, WaitInv, VerifyWaitIsBounded
<1> QED
  BY <1>1, Invariant, PTL
=============================================================================
