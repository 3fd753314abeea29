------------------------------ MODULE ConfigDB ------------------------------
(***************************************************************************)
(* internal/configdb: the configuration as rows of a SQLite database, each *)
(* edit a transaction of several statements, any of which may fail and     *)
(* between any two of which the process may end.                           *)
(*                                                                         *)
(* The connection pool is pinned to one connection and the runner edits    *)
(* under writeMu, so one transaction is open at a time. A change is then   *)
(* made to the runner's in-memory copy as well.                            *)
(***************************************************************************)
EXTENDS Integers, Sequences, FiniteSets, SequencesExt

CONSTANTS
    MapId, ApiId, Details, URLs, VersionLists, Columns, Settings, NoSettings,
    NoTx, NoOp,
    MaxOps,     \* bound: edits begun in a behaviour
    MaxCrashes  \* bound: process ends and restarts in a behaviour

VARIABLES
    db,         \* the committed tables
    tx,         \* the tables as the open transaction sees them, or NoTx
    todo,       \* statements the transaction has yet to run
    op,         \* the edit being made, or NoOp
    stored,     \* Runner.stored
    ops, crashes    \* what is left of the bounds

vars == <<db, tx, todo, op, stored, ops, crashes>>

\* Rows of map_versions and map_static_columns refer to the row of their map,
\* which AUTOINCREMENT never gives to another. lastRow is sqlite_sequence's.
Tables == [ settings : Settings \cup {NoSettings},
            apis     : SUBSET [id : ApiId, order : Nat, url : URLs],
            maps     : SUBSET [row : Nat, id : MapId, order : Nat, detail : Details],
            versions : SUBSET [map : Nat, version : STRING, order : Nat],
            statics  : SUBSET [map : Nat, column : Columns],
            lastRow  : Nat ]

EmptyTables == [ settings |-> NoSettings, apis |-> {}, maps |-> {},
                 versions |-> {}, statics |-> {}, lastRow |-> 0 ]

ASSUME VersionsAreNames == VersionLists \subseteq Seq(STRING)
ASSUME NoTxIsNone == NoTx \notin Tables
ASSUME BoundsAreNaturals == MaxOps \in Nat /\ MaxCrashes \in Nat

-----------------------------------------------------------------------------
(* Load. *)

\* ORDER BY sort_order; its second key, the row id, never has to decide.
InOrder(rows) ==
    CHOOSE list \in [1 .. Cardinality(rows) -> rows] :
        \A i, j \in DOMAIN list :
            i < j => list[i] # list[j] /\ list[i].order <= list[j].order

ToAPI(r) == [id |-> r.id, url |-> r.url]

ToMapTarget(t, r) ==
    LET own == InOrder({v \in t.versions : v.map = r.row})
    IN [ id       |-> r.id,
         detail   |-> r.detail,
         versions |-> [i \in DOMAIN own |-> own[i].version],
         statics  |-> {s.column : s \in {c \in t.statics : c.map = r.row}} ]

Loaded(t) ==
    LET apis == InOrder(t.apis)
        maps == InOrder(t.maps)
    IN [ settings |-> t.settings,
         apis     |-> [i \in DOMAIN apis |-> ToAPI(apis[i])],
         maps     |-> [i \in DOMAIN maps |-> ToMapTarget(t, maps[i])] ]

\* The promise, kept by what a Load of the committed tables returns.
Store == INSTANCE ConfigStore WITH config <- Loaded(db)

ASSUME NoOpIsNone == NoOp \notin Store!Ops

TypeOK ==
    /\ db \in Tables
    /\ tx \in Tables \cup {NoTx}
    /\ op \in Store!Ops \cup {NoOp}
    /\ stored.settings \in Settings \cup {NoSettings}
    /\ stored.apis \in Seq(Store!API) /\ stored.maps \in Seq(Store!MapTarget)
    /\ ops \in 0..MaxOps /\ crashes \in 0..MaxCrashes

-----------------------------------------------------------------------------
(* The statements of each edit, in the order configdb runs them. *)

\* Slip: the largest order in use, not the one after it.
LastOrder(rows) == Max({r.order : r \in rows} \cup {-1})

\* MAX(sort_order) + 1, or 0 in an empty table.
NextOrder(rows) == Max({r.order : r \in rows} \cup {-1}) + 1

Stmt(do, arg, n) == [do |-> do, arg |-> arg, order |-> n]

\* n-th element of a saved list; its sort order is its index from 0.
Inserts(do, list) == [i \in DOMAIN list |-> Stmt(do, list[i], i - 1)]

\* Save's delete-then-reinsert of the three lists.
SaveStatements(c) ==
       <<Stmt("saveScalar", c.settings, 0), Stmt("clearAPIs", 0, 0)>>
    \o Inserts("insertAPI", c.apis)
    \o <<Stmt("clearMaps", 0, 0)>>
    \o Inserts("insertMap", c.maps)

UpdateMapStatements(m) ==
    << Stmt("updateMap", m, 0), Stmt("clearVersions", m.id, 0),
       Stmt("clearStatics", m.id, 0) >>
    \o [i \in DOMAIN m.versions |->
            Stmt("insertVersion", [id |-> m.id, version |-> m.versions[i]], i - 1)]
    \o <<Stmt("insertStatics", m, 0)>>

\* Of edit o to configuration c, kept in tables t.
Statements(c, t, o) ==
    CASE o.do = "save" -> SaveStatements(Store!Edited(c, o))
      [] o.on = "maps" /\ o.do = "create" -> <<Stmt("insertMap", o.to, NextOrder(t.maps))>>
      [] o.on = "maps" /\ o.do = "update" -> UpdateMapStatements(o.to)
      [] o.on = "maps" /\ o.do = "delete" -> <<Stmt("deleteMap", o.id, 0)>>
      [] o.on = "apis" /\ o.do = "create" -> <<Stmt("insertAPI", o.to, NextOrder(t.apis))>>
      [] o.on = "apis" /\ o.do = "update" -> <<Stmt("updateAPI", o.to, 0)>>
      [] o.on = "apis" /\ o.do = "delete" -> <<Stmt("deleteAPI", o.id, 0)>>

RowOf(t, id) == CHOOSE r \in t.maps : r.id = id

\* Slip: foreign keys are not enforced, the rows of a deleted map stay.
WithoutRowsOnly(t, gone) == [t EXCEPT !.maps = @ \ gone]

\* ON DELETE CASCADE.
WithoutMaps(t, gone) ==
    LET rows == {r.row : r \in gone}
    IN [t EXCEPT !.maps = @ \ gone,
                 !.versions = {v \in @ : v.map \notin rows},
                 !.statics = {s \in @ : s.map \notin rows}]

\* A map row and, by its associations, its versions and static columns.
InsertMap(t, m, n) ==
    LET row == t.lastRow + 1
    IN [t EXCEPT !.lastRow = row,
                 !.maps = @ \cup {[row |-> row, id |-> m.id, order |-> n,
                                   detail |-> m.detail]},
                 !.versions = @ \cup {[map |-> row, version |-> m.versions[i],
                                       order |-> i - 1] : i \in DOMAIN m.versions},
                 !.statics = @ \cup [map : {row}, column : m.statics]]

InsertAPI(t, a, n) ==
    [t EXCEPT !.apis = @ \cup {[id |-> a.id, order |-> n, url |-> a.url]}]

\* Slip: UpdateMap does not delete the versions it replaces.
ClearNoVersions(t, id) == t

ClearVersions(t, id) ==
    [t EXCEPT !.versions = {v \in @ : v.map # RowOf(t, id).row}]

ClearStatics(t, id) ==
    [t EXCEPT !.statics = {s \in @ : s.map # RowOf(t, id).row}]

\* The columns of m's own row.
UpdateMapRow(t, m) ==
    LET r == RowOf(t, m.id)
    IN [t EXCEPT !.maps = (@ \ {r}) \cup {[r EXCEPT !.detail = m.detail]}]

InsertVersion(t, v, n) ==
    [t EXCEPT !.versions = @ \cup {[map |-> RowOf(t, v.id).row,
                                    version |-> v.version, order |-> n]}]

InsertStatics(t, m) ==
    [t EXCEPT !.statics = @ \cup [map : {RowOf(t, m.id).row}, column : m.statics]]

UpdateAPI(t, a) ==
    [t EXCEPT !.apis = {IF r.id = a.id THEN [r EXCEPT !.url = a.url] ELSE r : r \in @}]

\* What a statement makes of the tables.
Run(t, s) ==
    CASE s.do = "saveScalar"    -> [t EXCEPT !.settings = s.arg]
      [] s.do = "clearAPIs"     -> [t EXCEPT !.apis = {}]
      [] s.do = "insertAPI"     -> InsertAPI(t, s.arg, s.order)
      [] s.do = "updateAPI"     -> UpdateAPI(t, s.arg)
      [] s.do = "deleteAPI"     -> [t EXCEPT !.apis = {r \in @ : r.id # s.arg}]
      [] s.do = "clearMaps"     -> WithoutMaps(t, t.maps)
      [] s.do = "insertMap"     -> InsertMap(t, s.arg, s.order)
      [] s.do = "updateMap"     -> UpdateMapRow(t, s.arg)
      [] s.do = "deleteMap"     -> WithoutMaps(t, {RowOf(t, s.arg)})
      [] s.do = "clearVersions" -> ClearVersions(t, s.arg)
      [] s.do = "clearStatics"  -> ClearStatics(t, s.arg)
      [] s.do = "insertVersion" -> InsertVersion(t, s.arg, s.order)
      [] s.do = "insertStatics" -> InsertStatics(t, s.arg)

-----------------------------------------------------------------------------
Init ==
    /\ db = EmptyTables /\ tx = NoTx /\ todo = <<>> /\ op = NoOp
    /\ stored = Loaded(db)
    /\ ops = 0 /\ crashes = 0

\* An edit the runner accepts, and the one transaction configdb makes of it.
Begin ==
    /\ op = NoOp
    /\ ops < MaxOps
    /\ ops' = ops + 1
    /\ \E o \in Store!Ops :
          /\ Store!Accepts(stored, o)
          /\ op' = o
          /\ todo' = Statements(stored, db, o)
    /\ tx' = db
    /\ UNCHANGED <<db, stored, crashes>>

\* Slip: no transaction, every statement commits by itself.
ExecAutocommit ==
    /\ todo # <<>>
    /\ tx' = Run(tx, Head(todo))
    /\ db' = tx'
    /\ todo' = Tail(todo)
    /\ UNCHANGED <<op, stored, ops, crashes>>

Exec ==
    /\ todo # <<>>
    /\ tx' = Run(tx, Head(todo))
    /\ todo' = Tail(todo)
    /\ UNCHANGED <<db, op, stored, ops, crashes>>

\* A statement or the commit fails: the transaction is rolled back and the
\* handler returns the error.
Fails ==
    /\ tx # NoTx
    /\ tx' = NoTx /\ todo' = <<>> /\ op' = NoOp
    /\ UNCHANGED <<db, stored, ops, crashes>>

Commit ==
    /\ tx # NoTx
    /\ todo = <<>>
    /\ db' = tx
    /\ tx' = NoTx
    /\ UNCHANGED <<todo, op, stored, ops, crashes>>

\* The runner's setStored.
SetStored ==
    /\ op # NoOp
    /\ tx = NoTx
    /\ stored' = Store!Edited(stored, op)
    /\ op' = NoOp
    /\ UNCHANGED <<db, tx, todo, ops, crashes>>

\* SQLite rolls an unfinished transaction back; New loads what is committed.
Restart ==
    /\ crashes < MaxCrashes
    /\ crashes' = crashes + 1
    /\ tx' = NoTx /\ todo' = <<>> /\ op' = NoOp
    /\ stored' = Loaded(db)
    /\ UNCHANGED <<db, ops>>

Next == Begin \/ Exec \/ Fails \/ Commit \/ SetStored \/ Restart

Spec == Init /\ [][Next]_vars

-----------------------------------------------------------------------------
\* Between edits the runner's copy is what a Load returns, the order of maps,
\* APIs and versions included: a restart changes nothing the user sees.
StoredIsLoaded == op = NoOp => stored = Loaded(db)

\* Every version and static column belongs to a map: deleting a map, or the
\* whole-table rewrite of a Save, leaves no row behind.
NoOrphanRows ==
    \A child \in db.versions \cup db.statics :
        \E r \in db.maps : r.row = child.map

\* Edits are atomic: a Load at any moment, after any failure or crash, sees
\* the configuration before an edit or after it.
EditsAreAtomic == Store!Spec
=============================================================================
