------------------------------- MODULE GeoSync -------------------------------
(***************************************************************************)
(* What a user may expect of the geo_objects table: it changes by whole    *)
(* syncs of one version of one map, each storing all that was fetched or   *)
(* nothing, and by the purge of a deleted map, never in between the two.   *)
(***************************************************************************)
CONSTANTS
    MapId, Version,
    ObjectsOf,  \* map -> the uuids a tile server can report for it
    NoRow,      \* no row has this uuid
    NoFetch     \* nothing is being stored

VARIABLES
    rows,       \* uuid -> the map and version its row is stored under
    fetch       \* what is being stored, or NoFetch

vars == <<rows, fetch>>

UUID  == UNION {ObjectsOf[m] : m \in MapId}
Scope == [map : MapId, version : Version]

Init == rows = [u \in UUID |-> NoRow] /\ fetch = NoFetch

\* A version of a map is fetched; its objects may be any the server can report.
Fetch(m, v, objects, prune) ==
    /\ fetch = NoFetch
    /\ fetch' = [at |-> [map |-> m, version |-> v], objects |-> objects, prune |-> prune]
    /\ UNCHANGED rows

\* All the objects fetched are stored under their map and version, wherever
\* their rows were before; with prune, the scope's other rows go. Nothing else.
Store ==
    /\ fetch # NoFetch
    /\ rows' = [u \in UUID |->
                  IF u \in fetch.objects THEN fetch.at
                  ELSE IF fetch.prune /\ rows[u] = fetch.at THEN NoRow
                  ELSE rows[u]]
    /\ fetch' = NoFetch

\* The sync fails, or the process ends: nothing of the fetch is stored.
GiveUp == fetch # NoFetch /\ fetch' = NoFetch /\ UNCHANGED rows

Purge(m) ==
    /\ fetch = NoFetch
    /\ rows' = [u \in UUID |->
                  IF rows[u] \in [map : {m}, version : Version] THEN NoRow ELSE rows[u]]
    /\ UNCHANGED fetch

Next ==
    \/ \E m \in MapId : \/ Purge(m)
                        \/ \E v \in Version, objects \in SUBSET ObjectsOf[m],
                              prune \in BOOLEAN : Fetch(m, v, objects, prune)
    \/ Store \/ GiveUp

Spec == Init /\ [][Next]_vars
=============================================================================
