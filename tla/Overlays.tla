------------------------------- MODULE Overlays -------------------------------
(***************************************************************************)
(* EDP's table map_src_overlays, and how edits of maps and APIs keep it in *)
(* step: one row per version of a named map, found by its SOURCE, a URL.   *)
(*                                                                         *)
(* Edits hold writeMu from start to end, so there is one at a time, and    *)
(* syncs do not touch this table; what makes it hard is that every         *)
(* statement commits by itself, may fail alone, and is never repeated.     *)
(* Edits that are refused change nothing and are left out.                 *)
(***************************************************************************)
EXTENDS FiniteSets, Naturals

CONSTANTS
    MapId, Version, ApiId, URL,
    Host,               \* a URL without the slashes at its end
    Name, NoName, NoMap, NoRow,
    FirstAPIs,          \* the base URLs there may be at first
    MaxEdits

ASSUME HostOfURL == DOMAIN Host = URL /\ FirstAPIs \subseteq [ApiId -> URL]
ASSUME NoneIsOne == NoName \notin Name /\ MaxEdits \in Nat

\* A list of versions may name one twice, which makes a difference to a row
\* when there is no other: twice. Its second statement repeats the first.
MapTarget == { t \in [ api      : ApiId,
                       name     : Name \cup {NoName},
                       versions : (SUBSET Version) \ {{}},
                       twice    : BOOLEAN ] : t.twice => Cardinality(t.versions) = 1 }

ASSUME NoMapIsNone == NoMap \notin MapTarget

Row == [ name : Name, ownFolder : BOOLEAN ]

ASSUME NoRowIsNone == NoRow \notin Row

Source == {Host[u] : u \in URL} \X MapId \X Version

Statement == [ op : {"upsert"}, source : Source, row : Row ]
                 \cup [ op : {"delete"}, source : Source ]

VARIABLES
    apis,       \* stored: the base URL of each API
    maps,       \* stored: the maps
    sync,       \* stored: Database.SyncOverlays
    active,     \* syncOverlays of the active store, or "none" without one
    rows,       \* map_src_overlays by SOURCE
    pc,
    todo,       \* statements the edit in progress has left
    missed,     \* history: sources whose last statement failed or was not run
    booted,     \* Run has tried its first apply
    edits

stored == <<apis, maps, sync>>
vars == <<stored, active, rows, pc, todo, missed, booted, edits>>

TypeOK ==
    /\ apis \in [ApiId -> URL]
    /\ maps \in [MapId -> MapTarget \cup {NoMap}]
    /\ sync \in BOOLEAN
    /\ active \in {"none", "off", "on"}
    /\ rows \in [Source -> Row \cup {NoRow}]
    /\ pc \in {"idle", "overlay", "apply"}
    /\ todo \subseteq Statement /\ missed \subseteq Source
    /\ todo # {} => pc = "overlay" /\ active = "on"
    /\ booted \in BOOLEAN /\ edits \in 0 .. MaxEdits

-----------------------------------------------------------------------------
(* store/overlays.go: what each operation sends. Its statements are on     *)
(* different sources, so their order does not matter.                      *)

Sources(u, m, target) == {<<Host[u], m, v>> : v \in target.versions}

RowOf(target) == [ name |-> target.name,
                   ownFolder |-> target.twice \/ Cardinality(target.versions) > 1 ]

Upserts(u, m, target) ==
    IF target.name = NoName THEN {}
    ELSE { [op |-> "upsert", source |-> s, row |-> RowOf(target)]
             : s \in Sources(u, m, target) }

Deletes(sources) == { [op |-> "delete", source |-> s] : s \in sources }

\* Slip: every row goes and comes back.
DeletesAll(beforeURL, afterURL, m, before, after) ==
    Deletes(Sources(beforeURL, m, before)) \cup Upserts(afterURL, m, after)

UpdateMapOverlays(beforeURL, afterURL, m, before, after) ==
    Deletes(Sources(beforeURL, m, before) \ Sources(afterURL, m, after))
        \cup Upserts(afterURL, m, after)

-----------------------------------------------------------------------------
Init ==
    /\ apis \in FirstAPIs
    /\ maps = [m \in MapId |-> NoMap]
    /\ sync \in BOOLEAN
    /\ active = "none" /\ booted = FALSE
    /\ rows = [s \in Source |-> NoRow]
    /\ pc = "idle" /\ todo = {} /\ missed = {} /\ edits = 0

Edits ==
    /\ pc = "idle" /\ edits < MaxEdits
    /\ edits' = edits + 1
    /\ UNCHANGED <<active, rows, booted>>

\* SQLite and stored have the edit; its statements follow if the active store
\* has SyncOverlays, and are not run at all if not.
Write(statements) ==
    /\ pc' = "overlay"
    /\ IF active = "on" THEN todo' = statements /\ UNCHANGED missed
       ELSE todo' = {} /\ missed' = missed \cup {s.source : s \in statements}

CreateMap == \E m \in MapId, target \in MapTarget :
    /\ Edits
    /\ maps[m] = NoMap
    /\ maps' = [maps EXCEPT ![m] = target]
    /\ Write(Upserts(apis[target.api], m, target))
    /\ UNCHANGED <<apis, sync>>

UpdateMap == \E m \in MapId, target \in MapTarget :
    /\ Edits
    /\ maps[m] # NoMap
    /\ maps' = [maps EXCEPT ![m] = target]
    /\ Write(UpdateMapOverlays(apis[maps[m].api], apis[target.api], m, maps[m], target))
    /\ UNCHANGED <<apis, sync>>

DeleteMap == \E m \in MapId :
    /\ Edits
    /\ maps[m] # NoMap
    /\ maps' = [maps EXCEPT ![m] = NoMap]
    /\ Write(Deletes(Sources(apis[maps[m].api], m, maps[m])))
    /\ UNCHANGED <<apis, sync>>

MapsOf(a) == {m \in MapId : maps[m] # NoMap /\ maps[m].api = a}

UpdateAPI == \E a \in ApiId, u \in URL :
    /\ Edits
    /\ apis[a] # u
    /\ apis' = [apis EXCEPT ![a] = u]
    /\ Write(UNION { UpdateMapOverlays(apis[a], u, m, maps[m], maps[m]) : m \in MapsOf(a) })
    /\ UNCHANGED <<maps, sync>>

SaveDatabase ==
    /\ Edits
    /\ sync' \in BOOLEAN
    /\ pc' = "apply"
    /\ UNCHANGED <<apis, maps, todo, missed>>

Run(s) == [rows EXCEPT ![s.source] = IF s.op = "upsert" THEN s.row ELSE NoRow]

\* upsertOverlayRow and deleteOverlayRow.
Exec == \E s \in todo :
    /\ rows' = Run(s)
    /\ todo' = todo \ {s}
    /\ missed' = missed \ {s.source}
    /\ UNCHANGED <<stored, active, pc, booted, edits>>

\* Slip: the first error ends the operation.
FailsOnce == \E s \in todo :
    /\ rows' \in {rows, Run(s)}
    /\ todo' = {}
    /\ missed' = missed \cup {s.source}
    /\ UNCHANGED <<stored, active, pc, booted, edits>>

\* An error: the statement may have been executed or not. The others follow.
Fails == \E s \in todo :
    /\ rows' \in {rows, Run(s)}
    /\ todo' = todo \ {s}
    /\ missed' = missed \cup {s.source}
    /\ UNCHANGED <<stored, active, pc, booted, edits>>

Written ==
    /\ pc = "overlay" /\ todo = {}
    /\ pc' = "apply"
    /\ UNCHANGED <<stored, active, rows, todo, missed, booted, edits>>

\* What an apply makes of active: the stored settings, or nothing if it fails.
Applied == active' \in {active, IF sync THEN "on" ELSE "off"}

Apply ==
    /\ pc = "apply" /\ pc' = "idle"
    /\ Applied
    /\ UNCHANGED <<stored, rows, todo, missed, booted, edits>>

\* Run's first apply.
FirstApply ==
    /\ pc = "idle" /\ ~booted
    /\ booted' = TRUE
    /\ Applied
    /\ UNCHANGED <<stored, rows, pc, todo, missed, edits>>

Restart ==
    /\ active' = "none" /\ booted' = FALSE
    /\ pc' = "idle" /\ todo' = {}
    /\ missed' = missed \cup {s.source : s \in todo}
    /\ UNCHANGED <<stored, rows, edits>>

Next ==
    \/ CreateMap \/ UpdateMap \/ DeleteMap \/ UpdateAPI \/ SaveDatabase
    \/ Exec \/ Fails \/ Written \/ Apply \/ FirstApply \/ Restart

Spec == Init /\ [][Next]_vars

-----------------------------------------------------------------------------
\* The source is that of a configured map, which it names.
InUse(s) ==
    LET m == s[2]
    IN maps[m] # NoMap /\ s \in Sources(apis[maps[m].api], m, maps[m])

\* Between edits the row of every source is what the stored configuration asks
\* for: there as its map is named and versioned now, or not there if no map has
\* the source. The only exceptions are sources whose own last statement failed
\* or was not run; no failure spoils another row, and each is made good by the
\* next statement on the source.
RowsAreCurrent ==
    pc = "idle" =>
        \A s \in Source \ missed :
            IF InUse(s)
            THEN maps[s[2]].name # NoName => rows[s] = RowOf(maps[s[2]])
            ELSE rows[s] = NoRow

\* An edit that leaves a source in use keeps its row (and the ID that EDP's
\* users may have selected), whatever else it changes.
RowsStay ==
    [][ \A s \in Source : rows[s] # NoRow /\ InUse(s) /\ InUse(s)'
                              => rows'[s] # NoRow ]_vars
=============================================================================
