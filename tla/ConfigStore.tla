----------------------------- MODULE ConfigStore -----------------------------
(***************************************************************************)
(* What package configdb promises the runner: one configuration, changed   *)
(* by whole edits. Maps and APIs keep the order they were created in, and  *)
(* a map's versions the order they were given in.                          *)
(***************************************************************************)
EXTENDS Naturals, SequencesExt

CONSTANTS
    MapId, ApiId,
    Details,        \* the other columns of a map
    URLs,           \* the other columns of an API
    VersionLists,   \* what a map's versions may be, as sequences
    Columns,        \* static columns a map may have
    Settings,       \* config.Database, its column overrides included
    NoSettings      \* config.Database of a fresh install

VARIABLE config

MapTarget == [ id : MapId, detail : Details,
               versions : VersionLists, statics : SUBSET Columns ]

API == [id : ApiId, url : URLs]

Empty == [settings |-> NoSettings, apis |-> <<>>, maps |-> <<>>]

Ops == [on : {"maps"}, do : {"create", "update"}, to : MapTarget]
  \cup [on : {"maps"}, do : {"delete"}, id : MapId]
  \cup [on : {"apis"}, do : {"create", "update"}, to : API]
  \cup [on : {"apis"}, do : {"delete"}, id : ApiId]
  \cup [on : {"database"}, do : {"save"}, to : Settings]

Has(list, id) == \E i \in DOMAIN list : list[i].id = id

\* An id is created once, and only what exists is updated or deleted.
Accepts(c, op) ==
    /\ op.do = "create" => ~Has(c[op.on], op.to.id)
    /\ op.do = "update" => Has(c[op.on], op.to.id)
    /\ op.do = "delete" => Has(c[op.on], op.id)

\* slices.IndexFunc, of an id that is in the list.
IndexOf(list, id) == CHOOSE i \in DOMAIN list : list[i].id = id

Replaced(list, item) == [list EXCEPT ![IndexOf(list, item.id)] = item]

Removed(list, id) == RemoveAt(list, IndexOf(list, id))

\* The runner's edit of its in-memory copy: append, replace in place, remove.
Edited(c, op) ==
    CASE op.do = "create" -> [c EXCEPT ![op.on] = Append(@, op.to)]
      [] op.do = "update" -> [c EXCEPT ![op.on] = Replaced(@, op.to)]
      [] op.do = "delete" -> [c EXCEPT ![op.on] = Removed(@, op.id)]
      [] op.do = "save"   -> [c EXCEPT !.settings = op.to]

Init == config = Empty

Next == \E op \in Ops : Accepts(config, op) /\ config' = Edited(config, op)

Spec == Init /\ [][Next]_config
=============================================================================
