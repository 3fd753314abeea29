---------------------------- MODULE OverlaysProofs ----------------------------
(***************************************************************************)
(* Theorems about Overlays, for any maps, versions, APIs, URLs and number  *)
(* of edits: its types, that the rows are as the configuration asks, and   *)
(* that an edit keeps the rows of the sources that stay in use.            *)
(***************************************************************************)
EXTENDS Overlays, TLAPS

\* r is what the stored configuration asks of the row of s.
Wanted(s, r) ==
    IF InUse(s) THEN maps[s[2]].name # NoName => r = RowOf(maps[s[2]]) ELSE r = NoRow

\* A statement that is left writes what is wanted, and deletes only the row of
\* a source that is no longer in use.
Fits(s) ==
    IF s.op = "upsert" THEN InUse(s.source) /\ s.row = RowOf(maps[s.source[2]])
                       ELSE ~InUse(s.source)

\* The strengthening: while an edit is in progress, what is not as wanted yet has a
\* statement left.
OverlayInv ==
    /\ \A s \in Source \ missed : Wanted(s, rows[s]) \/ \E st \in todo : st.source = s
    /\ \A st \in todo : Fits(st)

\* The configuration asks the same of s after a step as before it.
Untouched(s) ==
    /\ InUse(s)' <=> InUse(s)
    /\ InUse(s) => maps'[s[2]] = maps[s[2]]

\* What an edit has to do about s: nothing, a statement, or nothing because the
\* map has no name now.
Covered(s, statements) ==
    \/ Untouched(s)
    \/ \E st \in statements : st.source = s
    \/ InUse(s)' /\ maps'[s[2]].name = NoName

-----------------------------------------------------------------------------
(* Sources and statements. *)

\* The sources of a map are sources, and name it.
LEMMA SourcesOfMap ==
    ASSUME NEW u \in URL, NEW m \in MapId, NEW target \in MapTarget,
           NEW s \in Sources(u, m, target)
    PROVE  s \in Source /\ s[2] = m
BY HostOfURL DEF Sources, Source, MapTarget

\* A source names one of the maps.
LEMMA SourceMap == \A s \in Source : s[2] \in MapId
BY DEF Source

\* Statements are well typed.
LEMMA DeletesType ==
    ASSUME NEW sources \in SUBSET Source PROVE Deletes(sources) \subseteq Statement
BY DEF Deletes, Statement

LEMMA UpsertsType ==
    ASSUME NEW u \in URL, NEW m \in MapId, NEW target \in MapTarget
    PROVE  Upserts(u, m, target) \subseteq Statement
<1> SUFFICES ASSUME NEW st \in Upserts(u, m, target) PROVE st \in Statement
  OBVIOUS
<1>1. target.name \in Name
  BY DEF Upserts, MapTarget
<1>2. PICK s \in Sources(u, m, target) : st = [op |-> "upsert", source |-> s, row |-> RowOf(target)]
  BY <1>1, NoneIsOne DEF Upserts
<1>3. RowOf(target) \in Row
  BY <1>1 DEF RowOf, Row
<1> QED
  BY <1>2, <1>3, SourcesOfMap DEF Statement

LEMMA UpdateType ==
    ASSUME NEW u0 \in URL, NEW u1 \in URL, NEW m \in MapId,
           NEW before \in MapTarget, NEW after \in MapTarget
    PROVE  UpdateMapOverlays(u0, u1, m, before, after) \subseteq Statement
<1>1. Sources(u0, m, before) \ Sources(u1, m, after) \in SUBSET Source
  BY SourcesOfMap
<1> QED
  BY <1>1, DeletesType, UpsertsType DEF UpdateMapOverlays

-----------------------------------------------------------------------------
(* Types. *)

\* A map that is there is a MapTarget.
LEMMA MapType ==
    TypeOK => \A m \in MapId : /\ maps[m] # NoMap => maps[m] \in MapTarget
                               /\ \A a \in ApiId : apis[a] \in URL
BY DEF TypeOK

\* An edit that writes well-typed statements keeps the types.
LEMMA EditType ==
    ASSUME TypeOK, Edits, NEW statements \in SUBSET Statement, Write(statements),
           apis' \in [ApiId -> URL], maps' \in [MapId -> MapTarget \cup {NoMap}], sync' \in BOOLEAN
    PROVE  TypeOK'
<1>1. todo' \subseteq Statement /\ (todo' # {} => pc' = "overlay" /\ active' = "on")
  BY DEF Write, Edits
<1>2. {st.source : st \in statements} \subseteq Source
  BY DEF Statement
<1>3. missed' \subseteq Source
  BY <1>2 DEF Write, TypeOK
<1>4. edits' \in 0 .. MaxEdits
  BY NoneIsOne DEF Edits, TypeOK
<1>5. UNCHANGED <<active, rows, booted>> /\ pc' = "overlay"
  BY DEF Edits, Write
<1> QED
  BY <1>1, <1>3, <1>4, <1>5 DEF TypeOK

\* What each edit sends.
LEMMA UpdateAPIStatements ==
    ASSUME TypeOK, NEW a \in ApiId, NEW u \in URL
    PROVE  UNION {UpdateMapOverlays(apis[a], u, m, maps[m], maps[m]) : m \in MapsOf(a)}
               \subseteq Statement
<1> SUFFICES ASSUME NEW m \in MapsOf(a)
             PROVE  UpdateMapOverlays(apis[a], u, m, maps[m], maps[m]) \subseteq Statement
  OBVIOUS
<1>1. m \in MapId /\ maps[m] \in MapTarget /\ apis[a] \in URL
  BY MapType DEF MapsOf
<1> QED
  BY <1>1, UpdateType

\* Every step keeps the types.
LEMMA TypeNext == TypeOK /\ [Next]_vars => TypeOK'
<1> SUFFICES ASSUME TypeOK, [Next]_vars PROVE TypeOK'
  OBVIOUS
<1>1. CASE CreateMap
  <2>1. PICK m \in MapId, target \in MapTarget :
            /\ Edits /\ maps' = [maps EXCEPT ![m] = target]
            /\ Write(Upserts(apis[target.api], m, target))
            /\ UNCHANGED <<apis, sync>>
    BY <1>1 DEF CreateMap
  <2>2. apis[target.api] \in URL
    BY DEF TypeOK, MapTarget
  <2>3. Upserts(apis[target.api], m, target) \in SUBSET Statement
    BY <2>2, UpsertsType
  <2>4. maps' \in [MapId -> MapTarget \cup {NoMap}] /\ apis' \in [ApiId -> URL] /\ sync' \in BOOLEAN
    BY <2>1 DEF TypeOK
  <2> QED
    BY <2>1, <2>3, <2>4, EditType
<1>2. CASE UpdateMap
  <2>1. PICK m \in MapId, target \in MapTarget :
            /\ Edits /\ maps[m] # NoMap /\ maps' = [maps EXCEPT ![m] = target]
            /\ Write(UpdateMapOverlays(apis[maps[m].api], apis[target.api], m, maps[m], target))
            /\ UNCHANGED <<apis, sync>>
    BY <1>2 DEF UpdateMap
  <2>2. maps[m] \in MapTarget /\ apis[maps[m].api] \in URL /\ apis[target.api] \in URL
    BY <2>1 DEF TypeOK, MapTarget
  <2>3. UpdateMapOverlays(apis[maps[m].api], apis[target.api], m, maps[m], target)
            \in SUBSET Statement
    BY <2>2, UpdateType
  <2>4. maps' \in [MapId -> MapTarget \cup {NoMap}] /\ apis' \in [ApiId -> URL] /\ sync' \in BOOLEAN
    BY <2>1 DEF TypeOK
  <2> QED
    BY <2>1, <2>3, <2>4, EditType
<1>3. CASE DeleteMap
  <2>1. PICK m \in MapId :
            /\ Edits /\ maps[m] # NoMap /\ maps' = [maps EXCEPT ![m] = NoMap]
            /\ Write(Deletes(Sources(apis[maps[m].api], m, maps[m])))
            /\ UNCHANGED <<apis, sync>>
    BY <1>3 DEF DeleteMap
  <2>2. maps[m] \in MapTarget /\ apis[maps[m].api] \in URL
    BY <2>1 DEF TypeOK, MapTarget
  <2>3. Deletes(Sources(apis[maps[m].api], m, maps[m])) \in SUBSET Statement
    BY <2>2, SourcesOfMap, DeletesType
  <2>4. maps' \in [MapId -> MapTarget \cup {NoMap}] /\ apis' \in [ApiId -> URL] /\ sync' \in BOOLEAN
    BY <2>1 DEF TypeOK
  <2> QED
    BY <2>1, <2>3, <2>4, EditType
<1>4. CASE UpdateAPI
  <2>1. PICK a \in ApiId, u \in URL :
            /\ Edits /\ apis' = [apis EXCEPT ![a] = u]
            /\ Write(UNION {UpdateMapOverlays(apis[a], u, m, maps[m], maps[m]) : m \in MapsOf(a)})
            /\ UNCHANGED <<maps, sync>>
    BY <1>4 DEF UpdateAPI
  <2>2. maps' \in [MapId -> MapTarget \cup {NoMap}] /\ apis' \in [ApiId -> URL] /\ sync' \in BOOLEAN
    BY <2>1 DEF TypeOK
  <2> QED
    BY <2>1, <2>2, UpdateAPIStatements, EditType
<1>5. CASE SaveDatabase
  <2>1. edits' \in 0 .. MaxEdits
    BY <1>5, NoneIsOne DEF SaveDatabase, Edits, TypeOK
  <2> QED
    BY <1>5, <2>1 DEF SaveDatabase, Edits, TypeOK
<1>6. ASSUME NEW s \in todo, rows' \in {rows, Run(s)}, todo' = todo \ {s},
             missed' \subseteq missed \cup {s.source},
             UNCHANGED <<stored, active, pc, booted, edits>>
      PROVE  TypeOK'
  <2>1. s \in Statement
    BY DEF TypeOK
  <2>2. s.source \in Source /\ (s.op = "upsert" => s.row \in Row)
    BY <2>1 DEF Statement
  <2>3. Run(s) \in [Source -> Row \cup {NoRow}]
    BY <2>2 DEF Run, TypeOK
  <2> QED
    BY <1>6, <2>2, <2>3 DEF TypeOK, stored
<1>7. CASE Exec
  BY <1>6, <1>7 DEF Exec
<1>8. CASE Fails
  BY <1>6, <1>8 DEF Fails
<1>9. CASE Written
  BY <1>9 DEF Written, TypeOK, stored
<1>10. CASE Apply
  BY <1>10 DEF Apply, Applied, TypeOK, stored
<1>11. CASE FirstApply
  BY <1>11 DEF FirstApply, Applied, TypeOK, stored
<1>12. CASE Restart
  <2>1. {s.source : s \in todo} \subseteq Source
    BY DEF TypeOK, Statement
  <2> QED
    BY <1>12, <2>1 DEF Restart, TypeOK, stored
<1>13. CASE UNCHANGED vars
  BY <1>13 DEF vars, stored, TypeOK
<1> QED
  BY <1>1, <1>2, <1>3, <1>4, <1>5, <1>7, <1>8, <1>9, <1>10, <1>11, <1>12, <1>13 DEF Next

\* The types hold at the start.
LEMMA TypeInit == Init => TypeOK
<1> SUFFICES ASSUME Init PROVE TypeOK
  OBVIOUS
<1>1. apis \in [ApiId -> URL]
  BY HostOfURL DEF Init
<1>2. edits \in 0 .. MaxEdits
  BY NoneIsOne DEF Init
<1>3. maps \in [MapId -> MapTarget \cup {NoMap}] /\ rows \in [Source -> Row \cup {NoRow}]
  BY DEF Init
<1>4. todo \subseteq Statement /\ missed \subseteq Source /\ booted \in BOOLEAN /\ sync \in BOOLEAN
  BY DEF Init
<1> QED
  BY <1>1, <1>2, <1>3, <1>4 DEF Init, TypeOK

-----------------------------------------------------------------------------
(* The rows. *)

\* An edit that covers every source with statements that fit keeps the invariant.
LEMMA EditInv ==
    ASSUME TypeOK, OverlayInv, Edits, NEW statements \in SUBSET Statement, Write(statements),
           \A s \in Source : Covered(s, statements),
           \A st \in statements : Fits(st)'
    PROVE  OverlayInv'
<1>1. todo = {} /\ rows' = rows
  BY DEF Edits, TypeOK
<1>2. \A st \in todo' : Fits(st)'
  BY DEF Write
<1>3. ASSUME NEW s \in Source \ missed'
      PROVE  Wanted(s, rows[s])' \/ \E st \in todo' : st.source = s
  <2>1. s \notin missed
    BY <1>3 DEF Write
  <2>2. Wanted(s, rows[s])
    BY <1>1, <2>1 DEF OverlayInv
  <2>3. CASE Untouched(s)
    BY <1>1, <2>2, <2>3 DEF Untouched, Wanted
  <2>4. CASE \E st \in statements : st.source = s
    BY <1>3, <2>4 DEF Write
  <2>5. CASE InUse(s)' /\ maps'[s[2]].name = NoName
    BY <2>5 DEF Wanted
  <2> QED
    BY <2>3, <2>4, <2>5 DEF Covered
<1> QED
  BY <1>2, <1>3 DEF OverlayInv

\* Only the sources of m are touched by an edit of m.
LEMMA OthersUntouched ==
    ASSUME NEW s \in Source, maps'[s[2]] = maps[s[2]],
           maps[s[2]] # NoMap => apis'[maps[s[2]].api] = apis[maps[s[2]].api]
    PROVE  Untouched(s)
BY DEF Untouched, InUse, Sources

\* The statements of UpdateMapOverlays are right for the map after the edit.
LEMMA UpdateCovers ==
    ASSUME TypeOK, NEW u0 \in URL, NEW u1 \in URL, NEW m \in MapId,
           NEW before \in MapTarget, NEW after \in MapTarget,
           maps[m] = before, maps'[m] = after,
           apis[before.api] = u0, apis'[after.api] = u1
    PROVE  /\ \A s \in Source : s[2] = m =>
                    Covered(s, UpdateMapOverlays(u0, u1, m, before, after))
           /\ \A st \in UpdateMapOverlays(u0, u1, m, before, after) : Fits(st)'
<1> before # NoMap /\ after # NoMap
  BY NoMapIsNone
<1> DEFINE statements == UpdateMapOverlays(u0, u1, m, before, after)
<1>1. ASSUME NEW s \in Source, s[2] = m
      PROVE  /\ InUse(s) <=> s \in Sources(u0, m, before)
             /\ InUse(s)' <=> s \in Sources(u1, m, after)
  BY <1>1 DEF InUse, Sources
<1>2. ASSUME NEW s \in Source, s[2] = m PROVE Covered(s, statements)
  <2>1. CASE s \in Sources(u1, m, after) /\ after.name = NoName
    BY <1>1, <1>2, <2>1 DEF Covered
  <2>2. CASE s \in Sources(u1, m, after) /\ after.name # NoName
    <3>1. [op |-> "upsert", source |-> s, row |-> RowOf(after)] \in statements
      BY <2>2 DEF UpdateMapOverlays, Upserts
    <3> QED
      BY <3>1 DEF Covered
  <2>3. CASE s \notin Sources(u1, m, after) /\ s \in Sources(u0, m, before)
    <3>1. [op |-> "delete", source |-> s] \in statements
      BY <2>3 DEF UpdateMapOverlays, Deletes
    <3> QED
      BY <3>1 DEF Covered
  <2>4. CASE s \notin Sources(u1, m, after) /\ s \notin Sources(u0, m, before)
    BY <1>1, <1>2, <2>4 DEF Covered, Untouched
  <2> QED
    BY <2>1, <2>2, <2>3, <2>4
<1>3. ASSUME NEW st \in statements PROVE Fits(st)'
  <2>1. CASE st \in Upserts(u1, m, after)
    <3>1. PICK s \in Sources(u1, m, after) :
              st = [op |-> "upsert", source |-> s, row |-> RowOf(after)]
      BY <2>1 DEF Upserts
    <3>2. s \in Source /\ s[2] = m
      BY SourcesOfMap
    <3> QED
      BY <1>1, <3>1, <3>2 DEF Fits
  <2>2. CASE st \in Deletes(Sources(u0, m, before) \ Sources(u1, m, after))
    <3>1. PICK s \in Sources(u0, m, before) \ Sources(u1, m, after) :
              st = [op |-> "delete", source |-> s]
      BY <2>2 DEF Deletes
    <3>2. s \in Source /\ s[2] = m
      BY SourcesOfMap
    <3> QED
      BY <1>1, <3>1, <3>2 DEF Fits
  <2> QED
    BY <2>1, <2>2 DEF UpdateMapOverlays
<1> QED
  BY <1>2, <1>3

\* The same for an edit of a map that was not there.
LEMMA CreateCovers ==
    ASSUME TypeOK, NEW u \in URL, NEW m \in MapId, NEW target \in MapTarget,
           maps[m] = NoMap, maps'[m] = target, apis'[target.api] = u
    PROVE  /\ \A s \in Source : s[2] = m => Covered(s, Upserts(u, m, target))
           /\ \A st \in Upserts(u, m, target) : Fits(st)'
<1> target # NoMap
  BY NoMapIsNone
<1>1. ASSUME NEW s \in Source, s[2] = m
      PROVE  ~InUse(s) /\ (InUse(s)' <=> s \in Sources(u, m, target))
  BY <1>1 DEF InUse, Sources
<1>2. ASSUME NEW s \in Source, s[2] = m PROVE Covered(s, Upserts(u, m, target))
  <2>1. CASE s \in Sources(u, m, target) /\ target.name = NoName
    BY <1>1, <1>2, <2>1 DEF Covered
  <2>2. CASE s \in Sources(u, m, target) /\ target.name # NoName
    <3>1. [op |-> "upsert", source |-> s, row |-> RowOf(target)] \in Upserts(u, m, target)
      BY <2>2 DEF Upserts
    <3> QED
      BY <3>1 DEF Covered
  <2>3. CASE s \notin Sources(u, m, target)
    BY <1>1, <1>2, <2>3 DEF Covered, Untouched
  <2> QED
    BY <2>1, <2>2, <2>3
<1>3. ASSUME NEW st \in Upserts(u, m, target) PROVE Fits(st)'
  <2>1. PICK s \in Sources(u, m, target) :
            st = [op |-> "upsert", source |-> s, row |-> RowOf(target)]
    BY <1>3 DEF Upserts
  <2>2. s \in Source /\ s[2] = m
    BY SourcesOfMap
  <2> QED
    BY <1>1, <2>1, <2>2 DEF Fits
<1> QED
  BY <1>2, <1>3

\* And for one that goes.
LEMMA DeleteCovers ==
    ASSUME TypeOK, NEW u \in URL, NEW m \in MapId, NEW target \in MapTarget,
           maps[m] = target, maps'[m] = NoMap, apis[target.api] = u
    PROVE  /\ \A s \in Source : s[2] = m => Covered(s, Deletes(Sources(u, m, target)))
           /\ \A st \in Deletes(Sources(u, m, target)) : Fits(st)'
<1> target # NoMap
  BY NoMapIsNone
<1>1. ASSUME NEW s \in Source, s[2] = m
      PROVE  ~InUse(s)' /\ (InUse(s) <=> s \in Sources(u, m, target))
  BY <1>1 DEF InUse, Sources
<1>2. ASSUME NEW s \in Source, s[2] = m PROVE Covered(s, Deletes(Sources(u, m, target)))
  <2>1. CASE s \in Sources(u, m, target)
    <3>1. [op |-> "delete", source |-> s] \in Deletes(Sources(u, m, target))
      BY <2>1 DEF Deletes
    <3> QED
      BY <3>1 DEF Covered
  <2>2. CASE s \notin Sources(u, m, target)
    BY <1>1, <1>2, <2>2 DEF Covered, Untouched
  <2> QED
    BY <2>1, <2>2
<1>3. ASSUME NEW st \in Deletes(Sources(u, m, target)) PROVE Fits(st)'
  <2>1. PICK s \in Sources(u, m, target) : st = [op |-> "delete", source |-> s]
    BY <1>3 DEF Deletes
  <2>2. s \in Source /\ s[2] = m
    BY SourcesOfMap
  <2> QED
    BY <1>1, <2>1, <2>2 DEF Fits
<1> QED
  BY <1>2, <1>3

\* Each edit covers every source.
LEMMA EditsInv ==
    ASSUME TypeOK, OverlayInv, CreateMap \/ UpdateMap \/ DeleteMap \/ UpdateAPI
    PROVE  OverlayInv'
<1>1. CASE CreateMap
  <2>1. PICK m \in MapId, target \in MapTarget :
            /\ Edits /\ maps[m] = NoMap /\ maps' = [maps EXCEPT ![m] = target]
            /\ Write(Upserts(apis[target.api], m, target))
            /\ UNCHANGED <<apis, sync>>
    BY <1>1 DEF CreateMap
  <2>2. apis[target.api] \in URL /\ maps'[m] = target
    BY <2>1 DEF TypeOK, MapTarget
  <2>3. \A s \in Source : s[2] # m => Untouched(s)
    BY <2>1, OthersUntouched, SourceMap DEF TypeOK
  <2>4. \A s \in Source : Covered(s, Upserts(apis[target.api], m, target))
    BY <2>1, <2>2, <2>3, CreateCovers DEF Covered
  <2>5. \A st \in Upserts(apis[target.api], m, target) : Fits(st)'
    BY <2>1, <2>2, CreateCovers
  <2>6. Upserts(apis[target.api], m, target) \in SUBSET Statement
    BY <2>2, UpsertsType
  <2> QED
    BY <2>1, <2>4, <2>5, <2>6, EditInv
<1>2. CASE UpdateMap
  <2>1. PICK m \in MapId, target \in MapTarget :
            /\ Edits /\ maps[m] # NoMap /\ maps' = [maps EXCEPT ![m] = target]
            /\ Write(UpdateMapOverlays(apis[maps[m].api], apis[target.api], m, maps[m], target))
            /\ UNCHANGED <<apis, sync>>
    BY <1>2 DEF UpdateMap
  <2> DEFINE statements ==
          UpdateMapOverlays(apis[maps[m].api], apis[target.api], m, maps[m], target)
  <2>2. /\ maps[m] \in MapTarget /\ apis[maps[m].api] \in URL /\ apis[target.api] \in URL
        /\ maps'[m] = target
    BY <2>1 DEF TypeOK, MapTarget
  <2>3. \A s \in Source : s[2] # m => Untouched(s)
    BY <2>1, OthersUntouched, SourceMap DEF TypeOK
  <2>4. /\ \A s \in Source : s[2] = m => Covered(s, statements)
        /\ \A st \in statements : Fits(st)'
    BY <2>1, <2>2, UpdateCovers
  <2>5. \A s \in Source : Covered(s, statements)
    BY <2>3, <2>4 DEF Covered
  <2>6. statements \in SUBSET Statement
    BY <2>2, UpdateType
  <2> QED
    BY <2>1, <2>4, <2>5, <2>6, EditInv
<1>3. CASE DeleteMap
  <2>1. PICK m \in MapId :
            /\ Edits /\ maps[m] # NoMap /\ maps' = [maps EXCEPT ![m] = NoMap]
            /\ Write(Deletes(Sources(apis[maps[m].api], m, maps[m])))
            /\ UNCHANGED <<apis, sync>>
    BY <1>3 DEF DeleteMap
  <2> DEFINE statements == Deletes(Sources(apis[maps[m].api], m, maps[m]))
  <2>2. maps[m] \in MapTarget /\ apis[maps[m].api] \in URL /\ maps'[m] = NoMap
    BY <2>1 DEF TypeOK, MapTarget
  <2>3. \A s \in Source : s[2] # m => Untouched(s)
    BY <2>1, OthersUntouched, SourceMap DEF TypeOK
  <2>4. /\ \A s \in Source : s[2] = m => Covered(s, statements)
        /\ \A st \in statements : Fits(st)'
    BY <2>1, <2>2, DeleteCovers
  <2>5. \A s \in Source : Covered(s, statements)
    BY <2>3, <2>4 DEF Covered
  <2>6. statements \in SUBSET Statement
    BY <2>2, SourcesOfMap, DeletesType
  <2> QED
    BY <2>1, <2>4, <2>5, <2>6, EditInv
<1>4. CASE UpdateAPI
  <2>1. PICK a \in ApiId, u \in URL :
            /\ Edits /\ apis' = [apis EXCEPT ![a] = u]
            /\ Write(UNION {UpdateMapOverlays(apis[a], u, m, maps[m], maps[m]) : m \in MapsOf(a)})
            /\ UNCHANGED <<maps, sync>>
    BY <1>4 DEF UpdateAPI
  <2> DEFINE of(m) == UpdateMapOverlays(apis[a], u, m, maps[m], maps[m])
             statements == UNION {of(m) : m \in MapsOf(a)}
  <2>2. apis'[a] = u /\ apis[a] \in URL
    BY <2>1 DEF TypeOK
  <2>3. ASSUME NEW m \in MapsOf(a)
        PROVE  /\ \A s \in Source : s[2] = m => Covered(s, of(m))
               /\ \A st \in of(m) : Fits(st)'
    <3>1. m \in MapId /\ maps[m] \in MapTarget /\ maps[m].api = a
      BY MapType DEF MapsOf
    <3>2. maps'[m] = maps[m]
      BY <2>1
    <3> QED
      BY <2>2, <3>1, <3>2, UpdateCovers
  <2>4. ASSUME NEW s \in Source PROVE Covered(s, statements)
    <3>1. CASE s[2] \in MapsOf(a)
      <4>1. Covered(s, of(s[2])) /\ of(s[2]) \subseteq statements
        BY <2>3, <3>1
      <4> QED
        BY <4>1 DEF Covered
    <3>2. CASE s[2] \notin MapsOf(a)
      <4>1. maps'[s[2]] = maps[s[2]] /\ s[2] \in MapId
        BY <2>1, SourceMap
      <4>2. maps[s[2]] # NoMap => maps[s[2]].api # a /\ maps[s[2]].api \in ApiId
        BY <3>2, <4>1, MapType DEF MapsOf, MapTarget
      <4>3. maps[s[2]] # NoMap => apis'[maps[s[2]].api] = apis[maps[s[2]].api]
        BY <2>1, <4>2 DEF TypeOK
      <4>4. Untouched(s)
        BY <4>1, <4>3, OthersUntouched
      <4> QED
        BY <4>4 DEF Covered
    <3> QED
      BY <3>1, <3>2
  <2>5. \A st \in statements : Fits(st)'
    BY <2>3
  <2>6. statements \in SUBSET Statement
    BY UpdateAPIStatements
  <2> QED
    BY <2>1, <2>4, <2>5, <2>6, EditInv
<1> QED
  BY <1>1, <1>2, <1>3, <1>4

\* A step that leaves the configuration alone leaves what is wanted alone.
LEMMA SameInUse ==
    ASSUME UNCHANGED <<apis, maps>>
    PROVE  /\ \A s : InUse(s)' <=> InUse(s)
           /\ \A st : Fits(st)' <=> Fits(st)
BY DEF InUse, Sources, Fits

\* A statement that fits writes what is wanted.
LEMMA RunWanted ==
    ASSUME TypeOK, NEW st \in todo, Fits(st)
    PROVE  Wanted(st.source, Run(st)[st.source])
<1>1. st.source \in Source /\ st.op \in {"upsert", "delete"}
  BY DEF TypeOK, Statement
<1>2. Run(st)[st.source] = IF st.op = "upsert" THEN st.row ELSE NoRow
  BY <1>1 DEF Run, TypeOK
<1> QED
  BY <1>1, <1>2 DEF Fits, Wanted

\* Executing a statement, or failing to, changes the row of its source only, and
\* forgets the statement.
LEMMA StatementInv ==
    ASSUME TypeOK, OverlayInv, NEW st \in todo, rows' \in {rows, Run(st)},
           todo' = todo \ {st}, UNCHANGED <<apis, maps>>,
           \/ rows' = Run(st) /\ missed' = missed \ {st.source}
           \/ missed' = missed \cup {st.source}
    PROVE  OverlayInv'
<1>1. st.source \in Source
  BY DEF TypeOK, Statement
<1>2. \A s \in Source : s # st.source => rows'[s] = rows[s]
  BY <1>1 DEF Run, TypeOK
<1>3. ASSUME NEW s \in Source \ missed'
      PROVE  Wanted(s, rows[s])' \/ \E other \in todo' : other.source = s
  <2>1. CASE s = st.source
    <3>1. rows' = Run(st)
      BY <1>3, <2>1
    <3>2. Wanted(s, rows'[s])
      BY <2>1, <3>1, RunWanted DEF OverlayInv
    <3> QED
      BY <3>2 DEF Wanted, InUse, Sources
  <2>2. CASE s # st.source
    <3>1. s \notin missed /\ rows'[s] = rows[s]
      BY <1>2, <1>3, <2>2
    <3>2. CASE Wanted(s, rows[s])
      BY <3>1, <3>2 DEF Wanted, InUse, Sources
    <3>3. CASE \E other \in todo : other.source = s
      BY <2>2, <3>3
    <3> QED
      BY <3>1, <3>2, <3>3 DEF OverlayInv
  <2> QED
    BY <2>1, <2>2
<1>4. \A other \in todo' : Fits(other)'
  BY SameInUse DEF OverlayInv
<1> QED
  BY <1>3, <1>4 DEF OverlayInv

\* Every step keeps the invariant.
LEMMA OverlayNext == TypeOK /\ OverlayInv /\ [Next]_vars => OverlayInv'
<1> SUFFICES ASSUME TypeOK, OverlayInv, [Next]_vars PROVE OverlayInv'
  OBVIOUS
<1>1. CASE CreateMap \/ UpdateMap \/ DeleteMap \/ UpdateAPI
  BY <1>1, EditsInv
<1>2. ASSUME UNCHANGED <<apis, maps, rows>>,
             \/ UNCHANGED <<todo, missed>>
             \/ todo' = {} /\ missed' = missed \cup {s.source : s \in todo}
      PROVE  OverlayInv'
  <2>1. ASSUME NEW s \in Source \ missed'
        PROVE  Wanted(s, rows[s])' \/ \E st \in todo' : st.source = s
    <3>1. s \notin missed /\ (Wanted(s, rows[s]) \/ UNCHANGED todo)
      BY <1>2, <2>1 DEF OverlayInv
    <3>2. Wanted(s, rows[s])' <=> Wanted(s, rows[s])
      BY <1>2 DEF Wanted, InUse, Sources
    <3> QED
      BY <3>1, <3>2 DEF OverlayInv
  <2>2. \A st \in todo' : Fits(st)'
    BY <1>2, SameInUse DEF OverlayInv
  <2> QED
    BY <2>1, <2>2 DEF OverlayInv
<1>3. CASE SaveDatabase
  BY <1>2, <1>3 DEF SaveDatabase, Edits
<1>4. CASE Exec
  BY <1>4, StatementInv DEF Exec, stored
<1>5. CASE Fails
  BY <1>5, StatementInv DEF Fails, stored
<1>6. CASE Written \/ Apply \/ FirstApply \/ Restart
  BY <1>2, <1>6 DEF Written, Apply, FirstApply, Restart, stored
<1>7. CASE UNCHANGED vars
  BY <1>2, <1>7 DEF vars, stored
<1> QED
  BY <1>1, <1>3, <1>4, <1>5, <1>6, <1>7 DEF Next

\* No map, no rows: the invariant holds at the start.
LEMMA OverlayInit == Init => OverlayInv
<1> SUFFICES ASSUME Init PROVE OverlayInv
  OBVIOUS
<1>1. \A s \in Source : ~InUse(s) /\ rows[s] = NoRow
  BY SourceMap DEF Init, InUse
<1> QED
  BY <1>1 DEF Init, OverlayInv, Wanted

\* Every reachable state is well typed, and what is not as wanted in it has a
\* statement left or missed.
THEOREM Invariance == Spec => [](TypeOK /\ OverlayInv)
<1>1. Init => TypeOK /\ OverlayInv
  BY TypeInit, OverlayInit
<1>2. TypeOK /\ OverlayInv /\ [Next]_vars => TypeOK' /\ OverlayInv'
  BY TypeNext, OverlayNext
<1> QED
  BY <1>1, <1>2, PTL DEF Spec

\* Every reachable state is well typed.
THEOREM TypeCorrect == Spec => []TypeOK
BY Invariance, PTL

\* Between edits every row is as the stored configuration asks, but for sources
\* whose own last statement failed or was not run.
THEOREM RowsCurrent == Spec => []RowsAreCurrent
<1>1. TypeOK /\ OverlayInv => RowsAreCurrent
  BY DEF TypeOK, OverlayInv, RowsAreCurrent, Wanted
<1> QED
  BY <1>1, Invariance, PTL

\* No step deletes the row of a source that is in use before and after it.
THEOREM RowsKept == Spec => RowsStay
<1> DEFINE Kept == \A s \in Source :
               rows[s] # NoRow /\ InUse(s) /\ InUse(s)' => rows'[s] # NoRow
<1>1. ASSUME TypeOK, OverlayInv, [Next]_vars PROVE [Kept]_vars
  <2>1. CASE Exec \/ Fails
    <3>1. PICK st \in todo : rows' \in {rows, Run(st)}
      BY <2>1 DEF Exec, Fails
    <3>2. ASSUME NEW s \in Source, rows[s] # NoRow, InUse(s) PROVE rows'[s] # NoRow
      <4>1. st.source \in Source /\ Fits(st) /\ (st.op = "upsert" => st.row \in Row)
        BY <1>1 DEF TypeOK, Statement, OverlayInv
      <4>2. NoRow \notin Row
        BY NoRowIsNone
      <4>3. Run(st)[s] = IF s = st.source THEN (IF st.op = "upsert" THEN st.row ELSE NoRow)
                                          ELSE rows[s]
        BY <1>1, <4>1 DEF Run, TypeOK
      <4> QED
        BY <3>1, <3>2, <4>1, <4>2, <4>3 DEF Fits
    <3> QED
      BY <3>2
  <2>2. CASE UNCHANGED rows
    BY <2>2
  <2>3. CASE CreateMap \/ UpdateMap \/ DeleteMap \/ UpdateAPI \/ SaveDatabase
    BY <2>2, <2>3 DEF CreateMap, UpdateMap, DeleteMap, UpdateAPI, SaveDatabase, Edits
  <2>4. CASE Written \/ Apply \/ FirstApply \/ Restart
    BY <2>2, <2>4 DEF Written, Apply, FirstApply, Restart
  <2>5. CASE UNCHANGED vars
    BY <2>5
  <2> QED
    BY <1>1, <2>1, <2>3, <2>4, <2>5 DEF Next
<1> QED
  BY <1>1, Invariance, PTL DEF Spec, RowsStay
=============================================================================
