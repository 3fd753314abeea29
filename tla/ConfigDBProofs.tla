--------------------------- MODULE ConfigDBProofs ---------------------------
(***************************************************************************)
(* Theorems about ConfigDB, for any maps, APIs and settings, version lists *)
(* of any length and any number of edits and restarts: the database        *)
(* implements the store of ConfigStore.                                    *)
(*                                                                         *)
(* A layout of a configuration is the sort orders and row ids its items    *)
(* have; TablesOf(c, l) are the tables with c in layout l. Loading them    *)
(* gives c (LoadedIs), and each statement turns the tables of one          *)
(* configuration into the tables of another. The configurations between    *)
(* the statements of an edit are its stages.                               *)
(***************************************************************************)
EXTENDS ConfigDB, FiniteSetTheorems, SequenceTheorems, TLAPS

-----------------------------------------------------------------------------
(* Lists.                                                                   *)

\* A non-empty set of naturals has a least element.
LEMMA LeastNatural ==
    ASSUME NEW S \in SUBSET Nat, S # {}
    PROVE  \E n \in S : \A k \in S : n <= k
<1>1. PICK n \in S : \A k \in S : ~ (<<k, n>> \in OpToRel(<, Nat))
  BY NatLessThanWellFounded, WFMin
<1>2. OpToRel(<, Nat) = {p \in Nat \X Nat : p[1] < p[2]}
  BY Zenon DEF OpToRel
<1>3. \A k \in S : ~ (k < n)
  BY <1>1, <1>2
<1> QED
  BY <1>3

\* A list without its i-th item.
LEMMA RemoveAtItems ==
    ASSUME NEW S, NEW s \in Seq(S), NEW i \in 1 .. Len(s)
    PROVE  /\ RemoveAt(s, i) \in Seq(S)
           /\ Len(RemoveAt(s, i)) = Len(s) - 1
           /\ \A j \in 1 .. (Len(s) - 1) :
                RemoveAt(s, i)[j] = IF j < i THEN s[j] ELSE s[j + 1]
<1> DEFINE before == SubSeq(s, 1, i - 1)
           after == SubSeq(s, i + 1, Len(s))
<1>1. /\ before \in Seq(S) /\ Len(before) = i - 1
      /\ \A j \in 1 .. (i - 1) : before[j] = s[j]
  BY SubSeqProperties
<1>2. /\ after \in Seq(S) /\ Len(after) = Len(s) - i
      /\ \A j \in 1 .. (Len(s) - i) : after[j] = s[j + i]
  BY SubSeqProperties
<1>3. RemoveAt(s, i) = before \o after
  BY DEF RemoveAt
<1> HIDE DEF before, after
<1>4. /\ before \o after \in Seq(S)
      /\ Len(before \o after) = Len(before) + Len(after)
      /\ \A j \in 1 .. Len(before) + Len(after) :
            (before \o after)[j] =
                IF j <= Len(before) THEN before[j] ELSE after[j - Len(before)]
  BY <1>1, <1>2, ConcatProperties
<1> QED
  BY <1>1, <1>2, <1>3, <1>4

\* Rows listed by strictly growing order are listed as Load lists them:
\* there is one way to do so, because a first difference cannot be.
LEMMA InOrderIs ==
    ASSUME NEW rows, NEW n \in Nat, NEW s \in [1 .. n -> rows],
           \A r \in rows : \E i \in 1 .. n : r = s[i],
           \A r \in rows : r.order \in Nat,
           \A i, j \in 1 .. n : i < j => s[i].order < s[j].order
    PROVE  InOrder(rows) = s
<1> DEFINE t == InOrder(rows)
<1>1. \A i, j \in 1 .. n : s[i] = s[j] => i = j
  OBVIOUS
<1>2. IsFiniteSet(rows) /\ Cardinality(rows) = n
  <2>1. s \in Bijection(1 .. n, rows)
    BY <1>1 DEF Bijection, Injection, Surjection, IsInjective
  <2>2. IsFiniteSet(1 .. n) /\ Cardinality(1 .. n) = n
    BY FS_Interval
  <2> QED
    BY <2>1, <2>2, FS_Bijection DEF ExistsBijection
<1>3. /\ t \in [1 .. n -> rows]
      /\ \A i, j \in 1 .. n : i < j => t[i] # t[j] /\ t[i].order <= t[j].order
  <2> DEFINE P(list) == \A i, j \in DOMAIN list :
                           i < j => list[i] # list[j] /\ list[i].order <= list[j].order
  <2>1. P(s)
    BY <1>1
  <2>2. t = CHOOSE list \in [1 .. n -> rows] : P(list)
    BY <1>2 DEF InOrder
  <2>3. t \in [1 .. n -> rows] /\ P(t)
    <3> HIDE DEF P, t
    <3> QED
      BY <2>1, <2>2, Zenon
  <2> QED
    BY <2>3
<1> HIDE DEF t
<1>4. \A r \in rows : \E i \in 1 .. n : r = t[i]
  <2>1. t \in Injection(1 .. n, rows)
    BY <1>3 DEF Injection, IsInjective
  <2>2. IsFiniteSet(1 .. n) /\ Cardinality(1 .. n) = n
    BY FS_Interval
  <2>3. t \in Surjection(1 .. n, rows)
    BY <2>1, <2>2, <1>2, FS_Injection
  <2> QED
    BY <2>3 DEF Surjection
<1>5. SUFFICES ASSUME {i \in 1 .. n : s[i] # t[i]} # {} PROVE FALSE
  <2>1. (\A i \in 1 .. n : s[i] = t[i]) => s = t
    BY <1>3
  <2> QED
    BY <2>1 DEF t
<1>6. PICK i \in 1 .. n : s[i] # t[i] /\ \A k \in 1 .. n : s[k] # t[k] => i <= k
  <2> DEFINE differ == {i \in 1 .. n : s[i] # t[i]}
  <2>1. differ \in SUBSET Nat /\ differ # {}
    BY <1>5
  <2>2. PICK i \in differ : \A k \in differ : i <= k
    <3> HIDE DEF differ
    <3> QED
      BY <2>1, LeastNatural
  <2> QED
    BY <2>2
<1>7. PICK j \in 1 .. n : s[i] = t[j]
  BY <1>4
<1>8. PICK k \in 1 .. n : t[i] = s[k]
  <2>1. t[i] \in rows
    BY <1>3
  <2> QED
    BY <2>1
<1>9. i < j /\ i < k
  BY <1>1, <1>3, <1>6, <1>7, <1>8, SMTT(60)
<1>10. t[i].order \in Nat /\ s[i].order \in Nat
  BY <1>3
<1>11. t[i].order <= s[i].order
  BY <1>3, <1>7, <1>9
<1>12. s[i].order < t[i].order
  BY <1>8, <1>9
<1> QED
  BY <1>10, <1>11, <1>12

-----------------------------------------------------------------------------
(* Tables that show a configuration.                                        *)

\* Configurations, and what an edit of several statements makes in between.
Draft == [ settings : Settings \cup {NoSettings},
           apis     : Seq([id : ApiId, url : URLs]),
           maps     : Seq([ id : MapId, detail : Details,
                            versions : Seq(STRING), statics : SUBSET Columns ]) ]

Increasing(s) == \A i, j \in DOMAIN s : i < j => s[i] < s[j]

\* The sort orders of the APIs and maps and the row ids of the maps.
Layouts(c) ==
    { l \in [apis : Seq(Nat), maps : Seq(Nat), rows : Seq(Nat), last : Nat] :
        /\ Len(l.apis) = Len(c.apis) /\ Increasing(l.apis)
        /\ Len(l.maps) = Len(c.maps) /\ Increasing(l.maps)
        /\ Len(l.rows) = Len(c.maps) /\ Increasing(l.rows)
        /\ \A i \in 1 .. Len(l.rows) : l.rows[i] <= l.last }

APIRow(c, l, i) == [id |-> c.apis[i].id, order |-> l.apis[i], url |-> c.apis[i].url]

MapRow(c, l, i) == [row |-> l.rows[i], id |-> c.maps[i].id,
                    order |-> l.maps[i], detail |-> c.maps[i].detail]

VersionRow(c, l, i, k) ==
    [map |-> l.rows[i], version |-> c.maps[i].versions[k], order |-> k - 1]

VersionsAt(c, i) == 1 .. Len(c.maps[i].versions)

APIRows(c, l) == {APIRow(c, l, i) : i \in 1 .. Len(c.apis)}

MapRows(c, l) == {MapRow(c, l, i) : i \in 1 .. Len(c.maps)}

VersionRows(c, l) ==
    UNION {{VersionRow(c, l, i, k) : k \in VersionsAt(c, i)} : i \in 1 .. Len(c.maps)}

StaticRows(c, l) ==
    UNION {[map : {l.rows[i]}, column : c.maps[i].statics] : i \in 1 .. Len(c.maps)}

\* Configuration c in the rows of layout l.
Database(settings, apis, maps, versions, statics, last) ==
    [ settings |-> settings, apis |-> apis, maps |-> maps,
      versions |-> versions, statics |-> statics, lastRow  |-> last ]

TablesOf(c, l) ==
    Database(c.settings, APIRows(c, l), MapRows(c, l),
             VersionRows(c, l), StaticRows(c, l), l.last)

\* The items of a configuration.
LEMMA DraftParts ==
    ASSUME NEW c \in Draft
    PROVE  /\ c = [settings |-> c.settings, apis |-> c.apis, maps |-> c.maps]
           /\ c.settings \in Settings \cup {NoSettings}
           /\ Len(c.apis) \in Nat /\ DOMAIN c.apis = 1 .. Len(c.apis)
           /\ Len(c.maps) \in Nat /\ DOMAIN c.maps = 1 .. Len(c.maps)
           /\ c.apis = [i \in 1 .. Len(c.apis) |-> c.apis[i]]
           /\ c.maps = [i \in 1 .. Len(c.maps) |-> c.maps[i]]
           /\ \A i \in 1 .. Len(c.apis) :
                /\ c.apis[i] = [id |-> c.apis[i].id, url |-> c.apis[i].url]
                /\ c.apis[i].id \in ApiId /\ c.apis[i].url \in URLs
           /\ \A i \in 1 .. Len(c.maps) :
                /\ c.maps[i] = [ id |-> c.maps[i].id, detail |-> c.maps[i].detail,
                                 versions |-> c.maps[i].versions,
                                 statics |-> c.maps[i].statics ]
                /\ c.maps[i].id \in MapId /\ c.maps[i].detail \in Details
                /\ c.maps[i].versions \in Seq(STRING)
                /\ c.maps[i].statics \subseteq Columns
<1> DEFINE A == [id : ApiId, url : URLs]
           M == [ id : MapId, detail : Details,
                  versions : Seq(STRING), statics : SUBSET Columns ]
<1>1. /\ c = [settings |-> c.settings, apis |-> c.apis, maps |-> c.maps]
      /\ c.settings \in Settings \cup {NoSettings}
      /\ c.apis \in Seq(A) /\ c.maps \in Seq(M)
  BY DEF Draft
<1>2. \A i \in 1 .. Len(c.apis) : c.apis[i] \in A
  <2> HIDE DEF A
  <2> QED
    BY <1>1, ElementOfSeq
<1>3. \A i \in 1 .. Len(c.maps) : c.maps[i] \in M
  <2> HIDE DEF M
  <2> QED
    BY <1>1, ElementOfSeq
<1>4. /\ Len(c.apis) \in Nat /\ DOMAIN c.apis = 1 .. Len(c.apis)
      /\ Len(c.maps) \in Nat /\ DOMAIN c.maps = 1 .. Len(c.maps)
      /\ c.apis = [i \in 1 .. Len(c.apis) |-> c.apis[i]]
      /\ c.maps = [i \in 1 .. Len(c.maps) |-> c.maps[i]]
  <2> HIDE DEF A, M
  <2> QED
    BY <1>1, LenProperties
<1>5. \A i \in 1 .. Len(c.apis) :
                /\ c.apis[i] = [id |-> c.apis[i].id, url |-> c.apis[i].url]
                /\ c.apis[i].id \in ApiId /\ c.apis[i].url \in URLs
  BY <1>2
<1>6. \A i \in 1 .. Len(c.maps) :
                /\ c.maps[i] = [ id |-> c.maps[i].id, detail |-> c.maps[i].detail,
                                 versions |-> c.maps[i].versions,
                                 statics |-> c.maps[i].statics ]
                /\ c.maps[i].id \in MapId /\ c.maps[i].detail \in Details
                /\ c.maps[i].versions \in Seq(STRING)
                /\ c.maps[i].statics \subseteq Columns
  BY <1>3
<1> HIDE DEF A, M
<1> QED
  BY <1>1, <1>4, <1>5, <1>6

\* The numbers of a layout.
LEMMA LayoutParts ==
    ASSUME NEW c \in Draft, NEW l \in Layouts(c)
    PROVE  /\ l = [apis |-> l.apis, maps |-> l.maps, rows |-> l.rows, last |-> l.last]
           /\ l.apis \in Seq(Nat) /\ l.maps \in Seq(Nat) /\ l.rows \in Seq(Nat)
           /\ l.last \in Nat
           /\ Len(l.apis) = Len(c.apis)
           /\ Len(l.maps) = Len(c.maps) /\ Len(l.rows) = Len(c.maps)
           /\ \A i \in 1 .. Len(c.apis) : l.apis[i] \in Nat
           /\ \A i \in 1 .. Len(c.maps) :
                l.maps[i] \in Nat /\ l.rows[i] \in Nat /\ l.rows[i] <= l.last
           /\ \A i, j \in 1 .. Len(c.apis) : i < j => l.apis[i] < l.apis[j]
           /\ \A i, j \in 1 .. Len(c.maps) :
                i < j => l.maps[i] < l.maps[j] /\ l.rows[i] < l.rows[j]
<1>1. /\ l \in [apis : Seq(Nat), maps : Seq(Nat), rows : Seq(Nat), last : Nat]
      /\ Len(l.apis) = Len(c.apis) /\ Increasing(l.apis)
      /\ Len(l.maps) = Len(c.maps) /\ Increasing(l.maps)
      /\ Len(l.rows) = Len(c.maps) /\ Increasing(l.rows)
      /\ \A i \in 1 .. Len(l.rows) : l.rows[i] <= l.last
  BY DEF Layouts
<1>2. /\ DOMAIN l.apis = 1 .. Len(l.apis) /\ \A i \in 1 .. Len(l.apis) : l.apis[i] \in Nat
      /\ DOMAIN l.maps = 1 .. Len(l.maps) /\ \A i \in 1 .. Len(l.maps) : l.maps[i] \in Nat
      /\ DOMAIN l.rows = 1 .. Len(l.rows) /\ \A i \in 1 .. Len(l.rows) : l.rows[i] \in Nat
  BY <1>1, SMTT(60)
<1> QED
  BY <1>1, <1>2 DEF Increasing

\* The tables of a layout are tables.
LEMMA TablesOfType ==
    ASSUME NEW c \in Draft, NEW l \in Layouts(c)
    PROVE  TablesOf(c, l) \in Tables
<1> DEFINE t == TablesOf(c, l)
<1>1. t.apis \in SUBSET [id : ApiId, order : Nat, url : URLs]
  <2>1. \A i \in 1 .. Len(c.apis) :
            APIRow(c, l, i) \in [id : ApiId, order : Nat, url : URLs]
    BY DraftParts, LayoutParts DEF APIRow
  <2> QED
    BY <2>1 DEF TablesOf, Database, APIRows, MapRows, VersionRows, StaticRows
<1>2. t.maps \in SUBSET [row : Nat, id : MapId, order : Nat, detail : Details]
  <2>1. \A i \in 1 .. Len(c.maps) :
            MapRow(c, l, i) \in [row : Nat, id : MapId, order : Nat, detail : Details]
    BY DraftParts, LayoutParts DEF MapRow
  <2> QED
    BY <2>1 DEF TablesOf, Database, APIRows, MapRows, VersionRows, StaticRows
<1>3. t.versions \in SUBSET [map : Nat, version : STRING, order : Nat]
  <2>1. ASSUME NEW i \in 1 .. Len(c.maps), NEW k \in VersionsAt(c, i)
        PROVE  VersionRow(c, l, i, k) \in [map : Nat, version : STRING, order : Nat]
    <3>1. c.maps[i].versions \in Seq(STRING)
      BY DraftParts
    <3>2. c.maps[i].versions[k] \in STRING /\ k - 1 \in Nat
      BY <3>1 DEF VersionsAt
    <3> QED
      BY LayoutParts, <3>2 DEF VersionRow
  <2> QED
    BY <2>1 DEF TablesOf, Database, APIRows, MapRows, VersionRows, StaticRows
<1>4. t.statics \in SUBSET [map : Nat, column : Columns]
  <2>1. ASSUME NEW i \in 1 .. Len(c.maps)
        PROVE  [map : {l.rows[i]}, column : c.maps[i].statics] \subseteq
                    [map : Nat, column : Columns]
    <3>1. l.rows[i] \in Nat /\ c.maps[i].statics \subseteq Columns
      BY DraftParts, LayoutParts
    <3> QED
      BY <3>1
  <2> QED
    BY <2>1 DEF TablesOf, Database, APIRows, MapRows, VersionRows, StaticRows
<1>5. t.settings \in Settings \cup {NoSettings} /\ t.lastRow \in Nat
  BY DraftParts, LayoutParts DEF TablesOf, Database, APIRows, MapRows, VersionRows, StaticRows
<1> QED
  BY <1>1, <1>2, <1>3, <1>4, <1>5 DEF TablesOf, Database, Tables

\* The rows of one map among those of all: row ids tell the maps apart.
LEMMA OwnRows ==
    ASSUME NEW c \in Draft, NEW l \in Layouts(c), NEW i \in 1 .. Len(c.maps)
    PROVE  /\ {v \in TablesOf(c, l).versions : v.map = l.rows[i]}
                = {VersionRow(c, l, i, k) : k \in VersionsAt(c, i)}
           /\ {s \in TablesOf(c, l).statics : s.map = l.rows[i]}
                = [map : {l.rows[i]}, column : c.maps[i].statics]
<1>1. \A j \in 1 .. Len(c.maps) : l.rows[j] = l.rows[i] => j = i
  <2>1. ASSUME NEW j \in 1 .. Len(c.maps), j # i
        PROVE  l.rows[j] # l.rows[i]
    <3>1. j < i \/ i < j
      BY <2>1, DraftParts
    <3>2. l.rows[j] < l.rows[i] \/ l.rows[i] < l.rows[j]
      BY <3>1, LayoutParts
    <3> QED
      BY <3>2, LayoutParts, SMTT(60)
  <2> QED
    BY <2>1
<1>2. \A j \in 1 .. Len(c.maps) : \A k \in VersionsAt(c, j) :
        VersionRow(c, l, j, k).map = l.rows[j]
  BY DEF VersionRow
<1>3. TablesOf(c, l).versions = UNION {{VersionRow(c, l, j, k) : k \in VersionsAt(c, j)}
                                        : j \in 1 .. Len(c.maps)}
  BY DEF TablesOf, Database, APIRows, MapRows, VersionRows, StaticRows
<1>4. TablesOf(c, l).statics = UNION {[map : {l.rows[j]}, column : c.maps[j].statics]
                                        : j \in 1 .. Len(c.maps)}
  BY DEF TablesOf, Database, APIRows, MapRows, VersionRows, StaticRows
<1>5. {v \in TablesOf(c, l).versions : v.map = l.rows[i]}
            = {VersionRow(c, l, i, k) : k \in VersionsAt(c, i)}
  BY <1>1, <1>2, <1>3
<1>6. {s \in TablesOf(c, l).statics : s.map = l.rows[i]}
            = [map : {l.rows[i]}, column : c.maps[i].statics]
  <2>1. \A j \in 1 .. Len(c.maps) :
            \A s \in [map : {l.rows[j]}, column : c.maps[j].statics] : s.map = l.rows[j]
    OBVIOUS
  <2> QED
    BY <1>1, <1>4, <2>1
<1> QED
  BY <1>5, <1>6

\* Load returns the configuration, whatever the layout.
LEMMA LoadedIs ==
    ASSUME NEW c \in Draft, NEW l \in Layouts(c)
    PROVE  Loaded(TablesOf(c, l)) = c
<1> DEFINE t == TablesOf(c, l)
           apiRows == [i \in 1 .. Len(c.apis) |-> APIRow(c, l, i)]
           mapRows == [i \in 1 .. Len(c.maps) |-> MapRow(c, l, i)]
<1>1. InOrder(t.apis) = apiRows
  <2>1. t.apis = {APIRow(c, l, i) : i \in 1 .. Len(c.apis)}
    BY DEF TablesOf, Database, APIRows, MapRows, VersionRows, StaticRows
  <2>2. apiRows \in [1 .. Len(c.apis) -> t.apis]
    BY <2>1
  <2>3. \A r \in t.apis : r.order \in Nat
    BY <2>1, LayoutParts DEF APIRow
  <2>4. \A i, j \in 1 .. Len(c.apis) : i < j => apiRows[i].order < apiRows[j].order
    BY LayoutParts DEF APIRow
  <2>5. \A r \in t.apis : \E i \in 1 .. Len(c.apis) : r = apiRows[i]
    BY <2>1
  <2>6. Len(c.apis) \in Nat
    BY DraftParts
  <2> HIDE DEF t, apiRows
  <2> QED
    BY <2>2, <2>3, <2>4, <2>5, <2>6, InOrderIs
<1>2. InOrder(t.maps) = mapRows
  <2>1. t.maps = {MapRow(c, l, i) : i \in 1 .. Len(c.maps)}
    BY DEF TablesOf, Database, APIRows, MapRows, VersionRows, StaticRows
  <2>2. mapRows \in [1 .. Len(c.maps) -> t.maps]
    BY <2>1
  <2>3. \A r \in t.maps : r.order \in Nat
    BY <2>1, LayoutParts DEF MapRow
  <2>4. \A i, j \in 1 .. Len(c.maps) : i < j => mapRows[i].order < mapRows[j].order
    BY LayoutParts DEF MapRow
  <2>5. \A r \in t.maps : \E i \in 1 .. Len(c.maps) : r = mapRows[i]
    BY <2>1
  <2>6. Len(c.maps) \in Nat
    BY DraftParts
  <2> HIDE DEF t, mapRows
  <2> QED
    BY <2>2, <2>3, <2>4, <2>5, <2>6, InOrderIs
<1>3. [i \in DOMAIN apiRows |-> ToAPI(apiRows[i])] = c.apis
  <2>1. \A i \in 1 .. Len(c.apis) : ToAPI(apiRows[i]) = c.apis[i]
    BY DraftParts DEF ToAPI, APIRow
  <2>2. DOMAIN apiRows = 1 .. Len(c.apis)
    OBVIOUS
  <2> HIDE DEF apiRows
  <2> QED
    BY <2>1, <2>2, DraftParts
<1>4. ASSUME NEW i \in 1 .. Len(c.maps)
      PROVE  ToMapTarget(t, mapRows[i]) = c.maps[i]
  <2> DEFINE own == [k \in VersionsAt(c, i) |-> VersionRow(c, l, i, k)]
             vs == c.maps[i].versions
  <2>1. /\ c.maps[i] = [ id |-> c.maps[i].id, detail |-> c.maps[i].detail,
                          versions |-> vs, statics |-> c.maps[i].statics ]
        /\ vs \in Seq(STRING)
    BY DraftParts
  <2>2. mapRows[i].row = l.rows[i] /\ mapRows[i].id = c.maps[i].id
        /\ mapRows[i].detail = c.maps[i].detail
    BY DEF MapRow
  <2>3. InOrder({v \in t.versions : v.map = l.rows[i]}) = own
    <3> DEFINE rows == {VersionRow(c, l, i, k) : k \in VersionsAt(c, i)}
    <3>1. own \in [1 .. Len(vs) -> rows] /\ Len(vs) \in Nat
      BY <2>1 DEF VersionsAt
    <3>2. \A r \in rows : r.order \in Nat /\ \E k \in 1 .. Len(vs) : r = own[k]
      BY DEF VersionRow, VersionsAt
    <3>3. \A j, k \in 1 .. Len(vs) : j < k => own[j].order < own[k].order
      BY DEF VersionRow, VersionsAt
    <3>4. InOrder(rows) = own
      <4> HIDE DEF rows, own
      <4> QED
        BY <3>1, <3>2, <3>3, InOrderIs
    <3> QED
      BY <3>4, OwnRows
  <2>4. [k \in DOMAIN own |-> own[k].version] = vs
    <3>1. DOMAIN own = 1 .. Len(vs)
      BY DEF VersionsAt
    <3>2. \A k \in 1 .. Len(vs) : own[k].version = vs[k]
      BY DEF VersionRow, VersionsAt
    <3>3. vs = [k \in 1 .. Len(vs) |-> vs[k]]
      BY <2>1
    <3> HIDE DEF own, vs
    <3> QED
      BY <3>1, <3>2, <3>3
  <2>5. {s.column : s \in {s \in t.statics : s.map = l.rows[i]}} = c.maps[i].statics
    <3>1. {s \in t.statics : s.map = l.rows[i]}
            = [map : {l.rows[i]}, column : c.maps[i].statics]
      BY OwnRows
    <3>2. \A x \in c.maps[i].statics : [map |-> l.rows[i], column |-> x] \in
            [map : {l.rows[i]}, column : c.maps[i].statics]
      OBVIOUS
    <3>3. \A s \in [map : {l.rows[i]}, column : c.maps[i].statics] :
            s.column \in c.maps[i].statics
      OBVIOUS
    <3>4. {s.column : s \in [map : {l.rows[i]}, column : c.maps[i].statics]}
            = c.maps[i].statics
      <4> DEFINE R == [map : {l.rows[i]}, column : c.maps[i].statics]
      <4>1. \A x \in c.maps[i].statics : \E s \in R : s.column = x
        <5>1. \A x : [map |-> l.rows[i], column |-> x].column = x
          OBVIOUS
        <5> QED
          BY <3>2, <5>1
      <4>2. \A s \in R : s.column \in c.maps[i].statics
        BY <3>3
      <4> HIDE DEF R
      <4>3. {s.column : s \in R} = c.maps[i].statics
        BY <4>1, <4>2
      <4> QED
        BY <4>3 DEF R
    <3> HIDE DEF t
    <3> QED
      BY <3>1, <3>4
  <2> HIDE DEF t, own, mapRows
  <2>6. ToMapTarget(t, mapRows[i]) =
            [ id |-> c.maps[i].id, detail |-> c.maps[i].detail,
              versions |-> vs, statics |-> c.maps[i].statics ]
    <3> DEFINE r == mapRows[i]
    <3>1. r.row = l.rows[i] /\ r.id = c.maps[i].id /\ r.detail = c.maps[i].detail
      BY <2>2
    <3> HIDE DEF r
    <3>2. InOrder({v \in t.versions : v.map = r.row}) = own
      BY <2>3, <3>1
    <3>3. {s.column : s \in {x \in t.statics : x.map = r.row}} = c.maps[i].statics
      BY <2>5, <3>1
    <3>4. ToMapTarget(t, r) =
              [ id |-> r.id, detail |-> r.detail,
                versions |-> [k \in DOMAIN own |-> own[k].version],
                statics |-> c.maps[i].statics ]
      BY <3>2, <3>3, Zenon DEF ToMapTarget
    <3> QED
      BY <2>4, <3>1, <3>4 DEF r
  <2> QED
    BY <2>1, <2>6
<1>5. [i \in DOMAIN mapRows |-> ToMapTarget(t, mapRows[i])] = c.maps
  <2>1. DOMAIN mapRows = 1 .. Len(c.maps)
    OBVIOUS
  <2> HIDE DEF t, mapRows
  <2> QED
    BY <1>4, <2>1, DraftParts
<1>6. t.settings = c.settings
  BY DEF TablesOf, Database, APIRows, MapRows, VersionRows, StaticRows
<1> HIDE DEF t, apiRows, mapRows
<1>7. Loaded(t) = [settings |-> c.settings, apis |-> c.apis, maps |-> c.maps]
  BY <1>1, <1>2, <1>3, <1>5, <1>6 DEF Loaded
<1> QED
  BY <1>7, DraftParts DEF t
-----------------------------------------------------------------------------
(* What a statement does to the configuration shown.                        *)

APIs == [id : ApiId, url : URLs]
DraftMaps == [ id : MapId, detail : Details,
               versions : Seq(STRING), statics : SUBSET Columns ]

WithAPIs(c, list) == [settings |-> c.settings, apis |-> list, maps |-> c.maps]
WithMapList(c, list) == [settings |-> c.settings, apis |-> c.apis, maps |-> list]

LayAPIs(l, orders) ==
    [apis |-> orders, maps |-> l.maps, rows |-> l.rows, last |-> l.last]
LayMaps(l, orders, rows, last) ==
    [apis |-> l.apis, maps |-> orders, rows |-> rows, last |-> last]

DistinctIds(list) == \A i, j \in 1 .. Len(list) : list[i].id = list[j].id => i = j

\* What a statement changes of the tables, and what it keeps.
LEMMA DatabaseFields ==
    ASSUME NEW s, NEW a, NEW m, NEW v, NEW x, NEW n, NEW t, t = Database(s, a, m, v, x, n)
    PROVE  /\ t.settings = s /\ t.apis = a /\ t.maps = m
           /\ t.versions = v /\ t.statics = x /\ t.lastRow = n
BY DEF Database

\* A statement that writes the scalar row.
LEMMA SettingsChange ==
    ASSUME NEW s, NEW a, NEW m, NEW v, NEW x, NEW n, NEW new
    PROVE  [Database(s, a, m, v, x, n) EXCEPT !.settings = new]
                = Database(new, a, m, v, x, n)
BY DEF Database

\* One that writes apis.
LEMMA APIsChange ==
    ASSUME NEW s, NEW a, NEW m, NEW v, NEW x, NEW n, NEW new
    PROVE  [Database(s, a, m, v, x, n) EXCEPT !.apis = new] = Database(s, new, m, v, x, n)
BY DEF Database

\* One that adds a row to apis.
LEMMA InsertAPIChange ==
    ASSUME NEW s, NEW a, NEW m, NEW v, NEW x, NEW n, NEW arg, NEW order
    PROVE  InsertAPI(Database(s, a, m, v, x, n), arg, order) = Database(s,
                a \cup {[id |-> arg.id, order |-> order, url |-> arg.url]}, m, v, x, n)
BY DEF Database, InsertAPI

\* The rows an inserted map adds.
AddedMap(row, m, n) == [row |-> row, id |-> m.id, order |-> n, detail |-> m.detail]

AddedVersions(row, m) ==
    {[map |-> row, version |-> m.versions[i], order |-> i - 1] : i \in DOMAIN m.versions}

AddedStatics(row, m) == [map : {row}, column : m.statics]

\* One that adds a map with its versions and static columns.
LEMMA InsertMapChange ==
    ASSUME NEW s, NEW a, NEW m, NEW v, NEW x, NEW n, NEW arg, NEW order
    PROVE  InsertMap(Database(s, a, m, v, x, n), arg, order) = Database(s, a,
                m \cup {AddedMap(n + 1, arg, order)}, v \cup AddedVersions(n + 1, arg),
                x \cup AddedStatics(n + 1, arg), n + 1)
<1> DEFINE t == Database(s, a, m, v, x, n)
           m2 == m \cup {AddedMap(n + 1, arg, order)}
           v2 == v \cup AddedVersions(n + 1, arg)
           x2 == x \cup AddedStatics(n + 1, arg)
<1>1. /\ t.maps = m /\ t.versions = v /\ t.statics = x /\ t.lastRow = n
  BY DatabaseFields
<1>2. InsertMap(t, arg, order) = [t EXCEPT !.lastRow = n + 1, !.maps = m2,
                                           !.versions = v2, !.statics = x2]
  <2> HIDE DEF t
  <2> QED
    BY <1>1, Zenon DEF InsertMap, AddedMap, AddedVersions, AddedStatics
<1> HIDE DEF m2, v2, x2
<1>3. [t EXCEPT !.lastRow = n + 1] = Database(s, a, m, v, x, n + 1)
  BY DEF Database
<1>4. [Database(s, a, m, v, x, n + 1) EXCEPT !.maps = m2]
        = Database(s, a, m2, v, x, n + 1)
  BY DEF Database
<1>5. [Database(s, a, m2, v, x, n + 1) EXCEPT !.versions = v2]
        = Database(s, a, m2, v2, x, n + 1)
  BY DEF Database
<1>6. [Database(s, a, m2, v2, x, n + 1) EXCEPT !.statics = x2]
        = Database(s, a, m2, v2, x2, n + 1)
  BY DEF Database
<1> HIDE DEF t
<1>7. InsertMap(t, arg, order) = Database(s, a, m2, v2, x2, n + 1)
  BY <1>2, <1>3, <1>4, <1>5, <1>6
<1> QED
  BY <1>7 DEF t, m2, v2, x2

\* One that takes maps away, and what cascades.
LEMMA WithoutMapsChange ==
    ASSUME NEW s, NEW a, NEW m, NEW v, NEW x, NEW n, NEW gone
    PROVE  WithoutMaps(Database(s, a, m, v, x, n), gone) = Database(s, a, m \ gone,
                {w \in v : w.map \notin {q.row : q \in gone}},
                {w \in x : w.map \notin {q.row : q \in gone}}, n)
<1> DEFINE t == Database(s, a, m, v, x, n)
           m2 == m \ gone
           v2 == {w \in v : w.map \notin {q.row : q \in gone}}
           x2 == {w \in x : w.map \notin {q.row : q \in gone}}
<1>1. /\ t.maps = m /\ t.versions = v /\ t.statics = x
  BY DatabaseFields
<1>2. WithoutMaps(t, gone) = [t EXCEPT !.maps = m2, !.versions = v2, !.statics = x2]
  <2> HIDE DEF t
  <2> QED
    BY <1>1, Zenon DEF WithoutMaps
<1> HIDE DEF m2, v2, x2
<1>3. [t EXCEPT !.maps = m2] = Database(s, a, m2, v, x, n)
  BY DEF Database
<1>4. [Database(s, a, m2, v, x, n) EXCEPT !.versions = v2] = Database(s, a, m2, v2, x, n)
  BY DEF Database
<1>5. [Database(s, a, m2, v2, x, n) EXCEPT !.statics = x2] = Database(s, a, m2, v2, x2, n)
  BY DEF Database
<1> HIDE DEF t
<1>6. WithoutMaps(t, gone) = Database(s, a, m2, v2, x2, n)
  BY <1>2, <1>3, <1>4, <1>5
<1> QED
  BY <1>6 DEF t, m2, v2, x2

\* An edit of the APIs leaves the rows of the maps, and one of the maps those of the APIs.
LEMMA OtherRows ==
    ASSUME NEW c, NEW l, NEW d, NEW m
    PROVE  /\ d.apis = c.apis /\ m.apis = l.apis => APIRows(d, m) = APIRows(c, l)
           /\ d.maps = c.maps /\ m.maps = l.maps /\ m.rows = l.rows =>
                /\ MapRows(d, m) = MapRows(c, l)
                /\ VersionRows(d, m) = VersionRows(c, l)
                /\ StaticRows(d, m) = StaticRows(c, l)
<1>1. d.apis = c.apis /\ m.apis = l.apis => APIRows(d, m) = APIRows(c, l)
  BY DEF APIRows, APIRow
<1>2. ASSUME d.maps = c.maps, m.maps = l.maps, m.rows = l.rows
      PROVE  /\ MapRows(d, m) = MapRows(c, l)
             /\ VersionRows(d, m) = VersionRows(c, l)
             /\ StaticRows(d, m) = StaticRows(c, l)
  <2>1. MapRows(d, m) = MapRows(c, l)
    BY <1>2 DEF MapRows, MapRow
  <2>2. VersionRows(d, m) = VersionRows(c, l)
    BY <1>2 DEF VersionRows, VersionRow, VersionsAt
  <2>3. StaticRows(d, m) = StaticRows(c, l)
    BY <1>2 DEF StaticRows
  <2> QED
    BY <2>1, <2>2, <2>3
<1> QED
  BY <1>1, <1>2

\* The lists of a configuration, and the orders of a layout, can be exchanged.
LEMMA WithAPIsIs ==
    ASSUME NEW c \in Draft, NEW l \in Layouts(c), NEW list \in Seq(APIs),
           NEW orders \in Seq(Nat), Len(orders) = Len(list),
           \A i, j \in 1 .. Len(list) : i < j => orders[i] < orders[j]
    PROVE  /\ WithAPIs(c, list) \in Draft
           /\ LayAPIs(l, orders) \in Layouts(WithAPIs(c, list))
<1>1. WithAPIs(c, list) \in Draft
  BY DEF Draft, APIs, WithAPIs
<1>2. /\ l \in [apis : Seq(Nat), maps : Seq(Nat), rows : Seq(Nat), last : Nat]
      /\ Len(l.maps) = Len(c.maps) /\ Increasing(l.maps)
      /\ Len(l.rows) = Len(c.maps) /\ Increasing(l.rows)
      /\ \A i \in 1 .. Len(l.rows) : l.rows[i] <= l.last
  BY DEF Layouts
<1>3. DOMAIN orders = 1 .. Len(list)
  BY LenProperties
<1>4. Increasing(orders)
  BY <1>3 DEF Increasing
<1> QED
  BY <1>1, <1>2, <1>4 DEF Layouts, LayAPIs, WithAPIs

\* A configuration with other maps, in rows of their own.
LEMMA WithMapListIs ==
    ASSUME NEW c \in Draft, NEW l \in Layouts(c), NEW list \in Seq(DraftMaps),
           NEW orders \in Seq(Nat), Len(orders) = Len(list),
           NEW rows \in Seq(Nat), Len(rows) = Len(list), NEW last \in Nat,
           \A i, j \in 1 .. Len(list) :
                i < j => orders[i] < orders[j] /\ rows[i] < rows[j],
           \A i \in 1 .. Len(list) : rows[i] <= last
    PROVE  /\ WithMapList(c, list) \in Draft
           /\ LayMaps(l, orders, rows, last) \in Layouts(WithMapList(c, list))
<1>1. WithMapList(c, list) \in Draft
  BY DEF Draft, DraftMaps, WithMapList
<1>2. /\ l \in [apis : Seq(Nat), maps : Seq(Nat), rows : Seq(Nat), last : Nat]
      /\ Len(l.apis) = Len(c.apis) /\ Increasing(l.apis)
  BY DEF Layouts
<1>3. DOMAIN orders = 1 .. Len(list) /\ DOMAIN rows = 1 .. Len(list)
  BY LenProperties
<1>4. Increasing(orders) /\ Increasing(rows)
  BY <1>3 DEF Increasing
<1> QED
  BY <1>1, <1>2, <1>4 DEF Layouts, LayMaps, WithMapList

\* An item appended.
LEMMA Appended ==
    ASSUME NEW S, NEW s \in Seq(S), NEW x \in S
    PROVE  /\ Append(s, x) \in Seq(S) /\ Len(s) \in Nat /\ Len(Append(s, x)) = Len(s) + 1
           /\ \A i \in 1 .. Len(s) : Append(s, x)[i] = s[i]
           /\ Append(s, x)[Len(s) + 1] = x
           /\ 1 .. Len(Append(s, x)) = 1 .. Len(s) \cup {Len(s) + 1}
<1>1. Len(s) \in Nat
  OBVIOUS
<1> QED
  BY <1>1, AppendProperties

\* An order beyond those in use keeps a list of orders growing.
LEMMA AppendedGrows ==
    ASSUME NEW s \in Seq(Nat), NEW n \in Nat,
           \A i, j \in 1 .. Len(s) : i < j => s[i] < s[j],
           \A i \in 1 .. Len(s) : s[i] < n
    PROVE  \A i, j \in 1 .. Len(s) + 1 : i < j => Append(s, n)[i] < Append(s, n)[j]
BY Appended

\* CreateAPI, and saveAPIs of one API: the new row goes last.
LEMMA InsertAPIShows ==
    ASSUME NEW c \in Draft, NEW l \in Layouts(c), NEW a \in APIs, NEW n \in Nat,
           \A i \in 1 .. Len(c.apis) : l.apis[i] < n
    PROVE  /\ WithAPIs(c, Append(c.apis, a)) \in Draft
           /\ LayAPIs(l, Append(l.apis, n)) \in Layouts(WithAPIs(c, Append(c.apis, a)))
           /\ InsertAPI(TablesOf(c, l), a, n)
                = TablesOf(WithAPIs(c, Append(c.apis, a)), LayAPIs(l, Append(l.apis, n)))
<1> DEFINE list == Append(c.apis, a)
           d == WithAPIs(c, list)
           orders == Append(l.apis, n)
           m == LayAPIs(l, orders)
<1>1. c.apis \in Seq(APIs) /\ l.apis \in Seq(Nat) /\ Len(l.apis) = Len(c.apis)
  BY LayoutParts DEF Draft, APIs
<1>2. /\ list \in Seq(APIs) /\ Len(c.apis) \in Nat /\ Len(list) = Len(c.apis) + 1
      /\ \A i \in 1 .. Len(c.apis) : list[i] = c.apis[i]
      /\ list[Len(c.apis) + 1] = a
      /\ 1 .. Len(list) = 1 .. Len(c.apis) \cup {Len(c.apis) + 1}
  BY <1>1, Appended
<1>3. /\ orders \in Seq(Nat) /\ Len(orders) = Len(c.apis) + 1
      /\ \A i \in 1 .. Len(c.apis) : orders[i] = l.apis[i]
      /\ orders[Len(c.apis) + 1] = n
  BY <1>1, Appended
<1>4. d \in Draft /\ m \in Layouts(d)
  <2>1. \A i, j \in 1 .. Len(list) : i < j => orders[i] < orders[j]
    BY <1>1, <1>2, AppendedGrows, LayoutParts
  <2> HIDE DEF list, orders
  <2> QED
    BY <1>2, <1>3, <2>1, WithAPIsIs
<1>5. InsertAPI(TablesOf(c, l), a, n) = TablesOf(d, m)
  <2>1. d.settings = c.settings /\ d.apis = list /\ d.maps = c.maps
    BY DEF WithAPIs
  <2>2. m.apis = orders /\ m.maps = l.maps /\ m.rows = l.rows /\ m.last = l.last
    BY DEF LayAPIs
  <2> HIDE DEF d, m, list, orders
  <2>3. APIRows(d, m) = APIRows(c, l) \cup {[id |-> a.id, order |-> n, url |-> a.url]}
    <3>1. \A i \in 1 .. Len(c.apis) : APIRow(d, m, i) = APIRow(c, l, i)
      BY <1>2, <1>3, <2>1, <2>2 DEF APIRow
    <3>2. APIRow(d, m, Len(c.apis) + 1) = [id |-> a.id, order |-> n, url |-> a.url]
      BY <1>2, <1>3, <2>1, <2>2 DEF APIRow
    <3> QED
      BY <3>1, <3>2, <1>2, <2>1 DEF APIRows
  <2>4. /\ MapRows(d, m) = MapRows(c, l) /\ VersionRows(d, m) = VersionRows(c, l)
        /\ StaticRows(d, m) = StaticRows(c, l)
    BY <2>1, <2>2, OtherRows
  <2> QED
    BY <2>1, <2>2, <2>3, <2>4, InsertAPIChange DEF TablesOf
<1> QED
  BY <1>4, <1>5

\* CreateMap, and saveMaps of one map: the row id is new, the row goes last.
LEMMA InsertMapShows ==
    ASSUME NEW c \in Draft, NEW l \in Layouts(c), NEW a \in DraftMaps, NEW n \in Nat,
           \A i \in 1 .. Len(c.maps) : l.maps[i] < n
    PROVE  LET d == WithMapList(c, Append(c.maps, a))
               m == LayMaps(l, Append(l.maps, n), Append(l.rows, l.last + 1), l.last + 1)
           IN  d \in Draft /\ m \in Layouts(d)
               /\ InsertMap(TablesOf(c, l), a, n) = TablesOf(d, m)
<1> DEFINE list == Append(c.maps, a)
           d == WithMapList(c, list)
           orders == Append(l.maps, n)
           row == l.last + 1
           rows == Append(l.rows, row)
           m == LayMaps(l, orders, rows, row)
           N == Len(c.maps)
<1>1. /\ c.maps \in Seq(DraftMaps) /\ l.maps \in Seq(Nat) /\ l.rows \in Seq(Nat)
      /\ Len(l.maps) = N /\ Len(l.rows) = N /\ l.last \in Nat /\ row \in Nat /\ N \in Nat
  <2>1. c.maps \in Seq(DraftMaps)
    BY DEF Draft, DraftMaps
  <2> QED
    BY <2>1, LayoutParts, DraftParts
<1>2. /\ list \in Seq(DraftMaps) /\ Len(list) = N + 1
      /\ \A i \in 1 .. N : list[i] = c.maps[i]
      /\ list[N + 1] = a
      /\ 1 .. Len(list) = 1 .. N \cup {N + 1}
  BY <1>1, Appended
<1>3. /\ orders \in Seq(Nat) /\ Len(orders) = N + 1
      /\ \A i \in 1 .. N : orders[i] = l.maps[i]
      /\ orders[N + 1] = n
  BY <1>1, Appended
<1>4. /\ rows \in Seq(Nat) /\ Len(rows) = N + 1
      /\ \A i \in 1 .. N : rows[i] = l.rows[i]
      /\ rows[N + 1] = row
  BY <1>1, Appended
<1>5. d \in Draft /\ m \in Layouts(d)
  <2>1. \A i, j \in 1 .. Len(list) : i < j => orders[i] < orders[j]
    BY <1>1, <1>2, AppendedGrows, LayoutParts
  <2>2. \A i \in 1 .. N : l.rows[i] < row
    BY <1>1, LayoutParts, SMTT(60)
  <2>3. \A i, j \in 1 .. Len(list) : i < j => rows[i] < rows[j]
    BY <1>1, <1>2, <2>2, AppendedGrows, LayoutParts
  <2>4. \A i \in 1 .. Len(list) : rows[i] <= row
    BY <1>1, <1>2, <1>4, <2>2, LayoutParts, SMTT(60)
  <2> HIDE DEF list, orders, rows, row
  <2> QED
    BY <1>1, <1>2, <1>3, <1>4, <2>1, <2>3, <2>4, WithMapListIs
<1>6. InsertMap(TablesOf(c, l), a, n) = TablesOf(d, m)
  <2>1. d.settings = c.settings /\ d.apis = c.apis /\ d.maps = list
    BY DEF WithMapList
  <2>2. m.apis = l.apis /\ m.maps = orders /\ m.rows = rows /\ m.last = row
    BY DEF LayMaps
  <2> HIDE DEF d, m, list, orders, rows
  <2>3. MapRows(d, m) = MapRows(c, l)
            \cup {AddedMap(row, a, n)}
    <3>1. \A i \in 1 .. N : MapRow(d, m, i) = MapRow(c, l, i)
      BY <1>2, <1>3, <1>4, <2>1, <2>2 DEF MapRow
    <3>2. MapRow(d, m, N + 1) = AddedMap(row, a, n)
      BY <1>2, <1>3, <1>4, <2>1, <2>2 DEF MapRow, AddedMap
    <3> HIDE DEF row, N
    <3> QED
      BY <3>1, <3>2, <1>2, <2>1 DEF MapRows, N
  <2>4. VersionRows(d, m) = VersionRows(c, l) \cup AddedVersions(row, a)
    <3>1. \A i \in 1 .. N :
            {VersionRow(d, m, i, k) : k \in VersionsAt(d, i)}
                = {VersionRow(c, l, i, k) : k \in VersionsAt(c, i)}
      BY <1>2, <1>4, <2>1, <2>2 DEF VersionRow, VersionsAt
    <3>2. {VersionRow(d, m, N + 1, k) : k \in VersionsAt(d, N + 1)}
            = AddedVersions(row, a)
      <4>1. VersionsAt(d, N + 1) = DOMAIN a.versions
        BY <1>2, <2>1, LenProperties DEF VersionsAt, DraftMaps
      <4>2. \A k \in DOMAIN a.versions : VersionRow(d, m, N + 1, k) =
                [map |-> row, version |-> a.versions[k], order |-> k - 1]
        BY <1>2, <1>4, <2>1, <2>2 DEF VersionRow
      <4> QED
        BY <4>1, <4>2 DEF AddedVersions
    <3>3. VersionRows(d, m) =
            (UNION {{VersionRow(d, m, i, k) : k \in VersionsAt(d, i)} : i \in 1 .. N})
                \cup {VersionRow(d, m, N + 1, k) : k \in VersionsAt(d, N + 1)}
      <4> HIDE DEF N
      <4> QED
        BY <1>2, <2>1 DEF VersionRows
    <3>4. UNION {{VersionRow(d, m, i, k) : k \in VersionsAt(d, i)} : i \in 1 .. N}
            = VersionRows(c, l)
      <4> DEFINE V(i) == {VersionRow(d, m, i, k) : k \in VersionsAt(d, i)}
                 W(i) == {VersionRow(c, l, i, k) : k \in VersionsAt(c, i)}
      <4>1. \A i \in 1 .. N : V(i) = W(i)
        BY <3>1
      <4> HIDE DEF V, W
      <4>2. UNION {V(i) : i \in 1 .. N} = UNION {W(i) : i \in 1 .. N}
        BY <4>1
      <4> QED
        BY <4>2 DEF V, W, VersionRows
    <3> HIDE DEF row, N
    <3> QED
      BY <3>2, <3>3, <3>4
  <2>5. StaticRows(d, m) = StaticRows(c, l) \cup AddedStatics(row, a)
    <3> DEFINE V(i) == [map : {m.rows[i]}, column : d.maps[i].statics]
               W(i) == [map : {l.rows[i]}, column : c.maps[i].statics]
    <3>1. \A i \in 1 .. N : V(i) = W(i)
      BY <1>2, <1>4, <2>1, <2>2
    <3>2. V(N + 1) = AddedStatics(row, a)
      BY <1>2, <1>4, <2>1, <2>2 DEF AddedStatics
    <3>3. StaticRows(d, m) = UNION {V(i) : i \in 1 .. N \cup {N + 1}}
      BY <1>2, <2>1 DEF StaticRows
    <3>4. StaticRows(c, l) = UNION {W(i) : i \in 1 .. N}
      BY DEF StaticRows
    <3> HIDE DEF V, W, N
    <3> QED
      BY <3>1, <3>2, <3>3, <3>4
  <2>6. APIRows(d, m) = APIRows(c, l)
    BY <2>1, <2>2, OtherRows
  <2>7. InsertMap(TablesOf(c, l), a, n) = Database(c.settings, APIRows(c, l),
            MapRows(c, l) \cup {AddedMap(row, a, n)},
            VersionRows(c, l) \cup AddedVersions(row, a),
            StaticRows(c, l) \cup AddedStatics(row, a), row)
    BY InsertMapChange DEF TablesOf
  <2> HIDE DEF row
  <2>8. InsertMap(TablesOf(c, l), a, n) = Database(c.settings, APIRows(c, l),
            MapRows(d, m), VersionRows(d, m), StaticRows(d, m), row)
    BY <2>3, <2>4, <2>5, <2>7
  <2> QED
    BY <2>1, <2>2, <2>6, <2>8 DEF TablesOf
<1> QED
  BY <1>5, <1>6

\* saveScalar changes the settings.
LEMMA SaveScalarShows ==
    ASSUME NEW c \in Draft, NEW l \in Layouts(c), NEW x \in Settings \cup {NoSettings}
    PROVE  LET d == [settings |-> x, apis |-> c.apis, maps |-> c.maps]
           IN  d \in Draft /\ l \in Layouts(d)
               /\ [TablesOf(c, l) EXCEPT !.settings = x] = TablesOf(d, l)
<1> DEFINE d == [settings |-> x, apis |-> c.apis, maps |-> c.maps]
<1>1. d \in Draft
  BY DEF Draft
<1>2. l \in Layouts(d)
  BY DEF Layouts
<1>3. d.settings = x /\ d.apis = c.apis /\ d.maps = c.maps
  OBVIOUS
<1> HIDE DEF d
<1>4. [TablesOf(c, l) EXCEPT !.settings = x] = TablesOf(d, l)
  <2>1. /\ APIRows(d, l) = APIRows(c, l) /\ MapRows(d, l) = MapRows(c, l)
        /\ VersionRows(d, l) = VersionRows(c, l) /\ StaticRows(d, l) = StaticRows(c, l)
    BY <1>3, OtherRows
  <2> QED
    <3>1. TablesOf(d, l) = Database(x, APIRows(c, l), MapRows(c, l),
                              VersionRows(c, l), StaticRows(c, l), l.last)
      BY <1>3, <2>1 DEF TablesOf
    <3>2. [TablesOf(c, l) EXCEPT !.settings = x] = Database(x, APIRows(c, l), MapRows(c, l),
                              VersionRows(c, l), StaticRows(c, l), l.last)
      BY DEF TablesOf, Database
    <3> QED
      BY <3>1, <3>2
<1> QED
  BY <1>1, <1>2, <1>4 DEF d

\* Save's deletion of the APIs.
LEMMA ClearAPIsShows ==
    ASSUME NEW c \in Draft, NEW l \in Layouts(c)
    PROVE  LET d == WithAPIs(c, <<>>)
               m == LayAPIs(l, <<>>)
           IN  d \in Draft /\ m \in Layouts(d)
               /\ [TablesOf(c, l) EXCEPT !.apis = {}] = TablesOf(d, m)
<1> DEFINE d == WithAPIs(c, <<>>)
           m == LayAPIs(l, <<>>)
<1>1. d \in Draft /\ m \in Layouts(d)
  <2>1. <<>> \in Seq(APIs) /\ <<>> \in Seq(Nat) /\ Len(<<>>) = 0
    BY EmptySeq
  <2>2. \A i, j \in 1 .. 0 : i < j => <<>>[i] < <<>>[j]
    OBVIOUS
  <2> QED
    BY <2>1, <2>2, WithAPIsIs
<1>2. /\ d.settings = c.settings /\ d.apis = <<>> /\ d.maps = c.maps
      /\ m.maps = l.maps /\ m.rows = l.rows /\ m.last = l.last
  BY DEF WithAPIs, LayAPIs
<1> HIDE DEF d, m
<1>3. APIRows(d, m) = {}
  BY <1>2 DEF APIRows
<1>4. [TablesOf(c, l) EXCEPT !.apis = {}] = TablesOf(d, m)
  <2>1. /\ MapRows(d, m) = MapRows(c, l) /\ VersionRows(d, m) = VersionRows(c, l)
        /\ StaticRows(d, m) = StaticRows(c, l)
    BY <1>2, OtherRows
  <2> QED
    <3>1. TablesOf(d, m) = Database(c.settings, {}, MapRows(c, l),
                              VersionRows(c, l), StaticRows(c, l), l.last)
      BY <1>2, <1>3, <2>1 DEF TablesOf
    <3>2. [TablesOf(c, l) EXCEPT !.apis = {}] = Database(c.settings, {}, MapRows(c, l),
                              VersionRows(c, l), StaticRows(c, l), l.last)
      BY DEF TablesOf, Database
    <3> QED
      BY <3>1, <3>2
<1> QED
  BY <1>1, <1>4 DEF d, m

\* Save's deletion of the maps takes their versions and static columns.
LEMMA ClearMapsShows ==
    ASSUME NEW c \in Draft, NEW l \in Layouts(c)
    PROVE  LET d == WithMapList(c, <<>>)
               m == LayMaps(l, <<>>, <<>>, l.last)
           IN  d \in Draft /\ m \in Layouts(d)
               /\ WithoutMaps(TablesOf(c, l), TablesOf(c, l).maps) = TablesOf(d, m)
<1> DEFINE d == WithMapList(c, <<>>)
           m == LayMaps(l, <<>>, <<>>, l.last)
           t == TablesOf(c, l)
           rows == {r.row : r \in t.maps}
<1>1. d \in Draft /\ m \in Layouts(d)
  <2>1. <<>> \in Seq(DraftMaps) /\ <<>> \in Seq(Nat) /\ Len(<<>>) = 0
    BY EmptySeq
  <2>2. /\ \A i, j \in 1 .. 0 : i < j => <<>>[i] < <<>>[j] /\ <<>>[i] < <<>>[j]
        /\ \A i \in 1 .. 0 : <<>>[i] <= l.last
    OBVIOUS
  <2> QED
    BY <2>1, <2>2, WithMapListIs, LayoutParts
<1>2. /\ d.settings = c.settings /\ d.apis = c.apis /\ d.maps = <<>>
      /\ m.apis = l.apis /\ m.last = l.last
  BY DEF WithMapList, LayMaps
<1>3. /\ t.maps = MapRows(c, l) /\ t.versions = VersionRows(c, l)
      /\ t.statics = StaticRows(c, l)
  BY DatabaseFields DEF TablesOf
<1>4. \A i \in 1 .. Len(c.maps) : l.rows[i] \in rows
  <2>1. \A i \in 1 .. Len(c.maps) :
            MapRow(c, l, i) \in MapRows(c, l) /\ MapRow(c, l, i).row = l.rows[i]
    BY DEF MapRows, MapRow
  <2> HIDE DEF t
  <2> QED
    BY <1>3, <2>1
<1>5. /\ {v \in VersionRows(c, l) : v.map \notin rows} = {}
      /\ {s \in StaticRows(c, l) : s.map \notin rows} = {}
  <2>1. \A v \in VersionRows(c, l) : \E i \in 1 .. Len(c.maps) : v.map = l.rows[i]
    BY DEF VersionRows, VersionRow
  <2>2. \A s \in StaticRows(c, l) : \E i \in 1 .. Len(c.maps) : s.map = l.rows[i]
    BY DEF StaticRows
  <2> HIDE DEF rows
  <2> QED
    BY <1>4, <2>1, <2>2
<1> HIDE DEF d, m
<1>6. MapRows(d, m) = {} /\ VersionRows(d, m) = {} /\ StaticRows(d, m) = {}
  BY <1>2 DEF MapRows, VersionRows, StaticRows
<1>7. APIRows(d, m) = APIRows(c, l)
  BY <1>2, OtherRows
<1>8. WithoutMaps(t, t.maps) = Database(c.settings, APIRows(c, l), {}, {}, {}, l.last)
  <2>1. WithoutMaps(t, t.maps) = Database(c.settings, APIRows(c, l), MapRows(c, l) \ t.maps,
            {v \in VersionRows(c, l) : v.map \notin rows},
            {s \in StaticRows(c, l) : s.map \notin rows}, l.last)
    BY WithoutMapsChange DEF TablesOf
  <2> HIDE DEF t, rows
  <2> QED
    BY <1>3, <1>5, <2>1
<1> QED
  BY <1>1, <1>2, <1>6, <1>7, <1>8 DEF d, m, TablesOf

-----------------------------------------------------------------------------
(* A map replaced where it stands.                                          *)

MapOf(id, detail, versions, statics) ==
    [id |-> id, detail |-> detail, versions |-> versions, statics |-> statics]

WithMapAt(c, p, x) == WithMapList(c, [c.maps EXCEPT ![p] = x])

\* What the other maps own.
OtherVersions(c, l, p) == {v \in VersionRows(c, l) : v.map # l.rows[p]}
OtherStatics(c, l, p) == {s \in StaticRows(c, l) : s.map # l.rows[p]}

\* A map's id finds its row.
LEMMA RowOfIs ==
    ASSUME NEW c \in Draft, NEW l \in Layouts(c), DistinctIds(c.maps),
           NEW p \in 1 .. Len(c.maps)
    PROVE  /\ RowOf(TablesOf(c, l), c.maps[p].id) = MapRow(c, l, p)
           /\ RowOf(TablesOf(c, l), c.maps[p].id).row = l.rows[p]
<1>1. TablesOf(c, l).maps = MapRows(c, l)
  BY DatabaseFields DEF TablesOf
<1>2. MapRow(c, l, p) \in MapRows(c, l) /\ MapRow(c, l, p).id = c.maps[p].id
  BY DEF MapRows, MapRow
<1>3. \A r \in MapRows(c, l) : r.id = c.maps[p].id => r = MapRow(c, l, p)
  <2>1. \A i \in 1 .. Len(c.maps) : MapRow(c, l, i).id = c.maps[i].id
    BY DEF MapRow
  <2> QED
    BY <2>1 DEF MapRows, DistinctIds
<1>4. RowOf(TablesOf(c, l), c.maps[p].id)
        = CHOOSE r \in MapRows(c, l) : r.id = c.maps[p].id
  BY <1>1, Zenon DEF RowOf
<1>5. MapRow(c, l, p).row = l.rows[p]
  BY DEF MapRow
<1> QED
  BY <1>2, <1>3, <1>4, <1>5

\* The rows of different maps differ.
LEMMA RowsDiffer ==
    ASSUME NEW c \in Draft, NEW l \in Layouts(c),
           NEW i \in 1 .. Len(c.maps), NEW j \in 1 .. Len(c.maps), i # j
    PROVE  l.rows[i] # l.rows[j]
<1>1. i < j \/ j < i
  BY DraftParts
<1>2. l.rows[i] < l.rows[j] \/ l.rows[j] < l.rows[i]
  BY <1>1, LayoutParts
<1> QED
  BY <1>2, LayoutParts, SMTT(60)

\* Another map in the place of the p-th, in the same row.
LEMMA WithMapAtIs ==
    ASSUME NEW c \in Draft, NEW l \in Layouts(c), NEW p \in 1 .. Len(c.maps),
           NEW x \in DraftMaps
    PROVE  LET d == WithMapAt(c, p, x)
           IN  /\ d \in Draft /\ l \in Layouts(d)
               /\ d.settings = c.settings /\ d.apis = c.apis
               /\ Len(d.maps) = Len(c.maps) /\ d.maps[p] = x
               /\ \A i \in 1 .. Len(c.maps) : i # p => d.maps[i] = c.maps[i]
               /\ x.id = c.maps[p].id /\ DistinctIds(c.maps) => DistinctIds(d.maps)
<1> DEFINE list == [c.maps EXCEPT ![p] = x]
           d == WithMapList(c, list)
<1>1. c.maps \in Seq(DraftMaps) /\ DOMAIN c.maps = 1 .. Len(c.maps)
  <2>1. c.maps \in Seq(DraftMaps)
    BY DEF Draft, DraftMaps
  <2> QED
    BY <2>1, LenProperties
<1>2. /\ list \in Seq(DraftMaps) /\ Len(list) = Len(c.maps) /\ list[p] = x
      /\ \A i \in 1 .. Len(c.maps) : i # p => list[i] = c.maps[i]
  BY <1>1, ExceptSeq
<1>3. d.settings = c.settings /\ d.apis = c.apis /\ d.maps = list
  BY DEF WithMapList
<1>4. d \in Draft
  BY <1>2 DEF Draft, DraftMaps, WithMapList
<1> HIDE DEF list, d
<1>5. l \in Layouts(d)
  BY <1>2, <1>3 DEF Layouts
<1>6. ASSUME x.id = c.maps[p].id, DistinctIds(c.maps)
      PROVE  DistinctIds(list)
  <2>1. \A i \in 1 .. Len(c.maps) : list[i].id = c.maps[i].id
    BY <1>2, <1>6
  <2> QED
    BY <1>2, <1>6, <2>1 DEF DistinctIds
<1> QED
  BY <1>2, <1>3, <1>4, <1>5, <1>6 DEF d, list, WithMapAt

\* Replacing a map changes its row and the rows it owns, and no others.
LEMMA WithMapAtRows ==
    ASSUME NEW c \in Draft, NEW l \in Layouts(c), NEW p \in 1 .. Len(c.maps),
           NEW x \in DraftMaps
    PROVE  TablesOf(WithMapAt(c, p, x), l) =
                Database(c.settings, APIRows(c, l),
                    (MapRows(c, l) \ {MapRow(c, l, p)}) \cup {AddedMap(l.rows[p], x, l.maps[p])},
                    OtherVersions(c, l, p) \cup AddedVersions(l.rows[p], x),
                    OtherStatics(c, l, p) \cup AddedStatics(l.rows[p], x), l.last)
<1> DEFINE d == WithMapAt(c, p, x)
           N == 1 .. Len(c.maps)
<1>1. /\ d.settings = c.settings /\ d.apis = c.apis
      /\ Len(d.maps) = Len(c.maps) /\ d.maps[p] = x
      /\ \A i \in N : i # p => d.maps[i] = c.maps[i]
  BY WithMapAtIs
<1>2. \A i, j \in N : i # j => l.rows[i] # l.rows[j]
  BY RowsDiffer
<1> HIDE DEF d
<1>3. APIRows(d, l) = APIRows(c, l)
  BY <1>1, OtherRows
<1>4. MapRows(d, l) = (MapRows(c, l) \ {MapRow(c, l, p)})
                        \cup {AddedMap(l.rows[p], x, l.maps[p])}
  <2>1. MapRow(d, l, p) = AddedMap(l.rows[p], x, l.maps[p])
    BY <1>1 DEF MapRow, AddedMap
  <2>2. \A i \in N : i # p => MapRow(d, l, i) = MapRow(c, l, i)
    BY <1>1 DEF MapRow
  <2>3. \A i \in N : i # p => MapRow(c, l, i) # MapRow(c, l, p)
    BY <1>2 DEF MapRow
  <2> HIDE DEF N
  <2>4. MapRows(d, l) = {MapRow(d, l, i) : i \in N} /\ MapRows(c, l) = {MapRow(c, l, i) : i \in N}
    BY <1>1 DEF MapRows, N
  <2> QED
    BY <2>1, <2>2, <2>3, <2>4 DEF N
<1>5. VersionRows(d, l) = OtherVersions(c, l, p) \cup AddedVersions(l.rows[p], x)
  <2> DEFINE V(i) == {VersionRow(d, l, i, k) : k \in VersionsAt(d, i)}
             W(i) == {VersionRow(c, l, i, k) : k \in VersionsAt(c, i)}
  <2>1. \A i \in N : i # p => V(i) = W(i)
    BY <1>1 DEF VersionRow, VersionsAt
  <2>2. V(p) = AddedVersions(l.rows[p], x)
    <3>1. VersionsAt(d, p) = DOMAIN x.versions
      BY <1>1, LenProperties DEF VersionsAt, DraftMaps
    <3>2. \A k \in DOMAIN x.versions : VersionRow(d, l, p, k) =
                [map |-> l.rows[p], version |-> x.versions[k], order |-> k - 1]
      BY <1>1 DEF VersionRow
    <3> QED
      BY <3>1, <3>2 DEF AddedVersions
  <2>3. \A i \in N : \A v \in W(i) : v.map = l.rows[i]
    BY DEF VersionRow
  <2>4. VersionRows(d, l) = UNION {V(i) : i \in N} /\ VersionRows(c, l) = UNION {W(i) : i \in N}
    BY <1>1 DEF VersionRows
  <2> HIDE DEF V, W, N
  <2>5. OtherVersions(c, l, p) = UNION {W(i) : i \in N \ {p}}
    BY <1>2, <2>3, <2>4 DEF OtherVersions, N
  <2> QED
    BY <2>1, <2>2, <2>4, <2>5 DEF N
<1>6. StaticRows(d, l) = OtherStatics(c, l, p) \cup AddedStatics(l.rows[p], x)
  <2> DEFINE V(i) == [map : {l.rows[i]}, column : d.maps[i].statics]
             W(i) == [map : {l.rows[i]}, column : c.maps[i].statics]
  <2>1. \A i \in N : i # p => V(i) = W(i)
    BY <1>1
  <2>2. V(p) = AddedStatics(l.rows[p], x)
    BY <1>1 DEF AddedStatics
  <2>3. \A i \in N : \A v \in W(i) : v.map = l.rows[i]
    OBVIOUS
  <2>4. StaticRows(d, l) = UNION {V(i) : i \in N} /\ StaticRows(c, l) = UNION {W(i) : i \in N}
    BY <1>1 DEF StaticRows
  <2> HIDE DEF V, W, N
  <2>5. OtherStatics(c, l, p) = UNION {W(i) : i \in N \ {p}}
    BY <1>2, <2>3, <2>4 DEF OtherStatics, N
  <2> QED
    BY <2>1, <2>2, <2>4, <2>5 DEF N
<1> QED
  BY <1>1, <1>3, <1>4, <1>5, <1>6, Zenon DEF TablesOf, d

\* A map whose row, versions or static columns are kept keeps those rows.
LEMMA KeptRows ==
    ASSUME NEW c \in Draft, NEW l \in Layouts(c), NEW p \in 1 .. Len(c.maps),
           NEW x \in DraftMaps
    PROVE  /\ x.id = c.maps[p].id /\ x.detail = c.maps[p].detail =>
                (MapRows(c, l) \ {MapRow(c, l, p)})
                    \cup {AddedMap(l.rows[p], x, l.maps[p])} = MapRows(c, l)
           /\ x.versions = c.maps[p].versions =>
                OtherVersions(c, l, p) \cup AddedVersions(l.rows[p], x) = VersionRows(c, l)
           /\ x.statics = c.maps[p].statics =>
                OtherStatics(c, l, p) \cup AddedStatics(l.rows[p], x) = StaticRows(c, l)
<1>1. ASSUME x.id = c.maps[p].id, x.detail = c.maps[p].detail
      PROVE  (MapRows(c, l) \ {MapRow(c, l, p)})
                    \cup {AddedMap(l.rows[p], x, l.maps[p])} = MapRows(c, l)
  <2>1. AddedMap(l.rows[p], x, l.maps[p]) = MapRow(c, l, p)
    BY <1>1 DEF AddedMap, MapRow
  <2>2. MapRow(c, l, p) \in MapRows(c, l)
    BY DEF MapRows
  <2> QED
    BY <2>1, <2>2
<1>2. /\ TablesOf(c, l).versions = VersionRows(c, l)
      /\ TablesOf(c, l).statics = StaticRows(c, l)
  BY DatabaseFields DEF TablesOf
<1>3. ASSUME x.versions = c.maps[p].versions
      PROVE  OtherVersions(c, l, p) \cup AddedVersions(l.rows[p], x) = VersionRows(c, l)
  <2>1. VersionsAt(c, p) = DOMAIN x.versions
    BY <1>3, LenProperties DEF VersionsAt, DraftMaps
  <2>2. AddedVersions(l.rows[p], x) = {VersionRow(c, l, p, k) : k \in VersionsAt(c, p)}
    BY <1>3, <2>1 DEF AddedVersions, VersionRow
  <2>3. AddedVersions(l.rows[p], x) = {v \in VersionRows(c, l) : v.map = l.rows[p]}
    BY <1>2, <2>2, OwnRows
  <2> QED
    BY <2>3 DEF OtherVersions
<1>4. ASSUME x.statics = c.maps[p].statics
      PROVE  OtherStatics(c, l, p) \cup AddedStatics(l.rows[p], x) = StaticRows(c, l)
  <2>1. AddedStatics(l.rows[p], x) = {s \in StaticRows(c, l) : s.map = l.rows[p]}
    <3>1. AddedStatics(l.rows[p], x) = [map : {l.rows[p]}, column : c.maps[p].statics]
      BY <1>4 DEF AddedStatics
    <3>2. {s \in TablesOf(c, l).statics : s.map = l.rows[p]}
            = [map : {l.rows[p]}, column : c.maps[p].statics]
      BY OwnRows
    <3>3. {s \in TablesOf(c, l).statics : s.map = l.rows[p]}
            = {s \in StaticRows(c, l) : s.map = l.rows[p]}
      BY <1>2
    <3> QED
      BY <3>1, <3>2, <3>3
  <2> QED
    BY <2>1 DEF OtherStatics
<1> QED
  BY <1>1, <1>3, <1>4

\* What a configuration's maps are.
LEMMA MapIsMap ==
    ASSUME NEW c \in Draft, NEW p \in 1 .. Len(c.maps)
    PROVE  c.maps[p] \in DraftMaps
<1>1. c.maps \in Seq(DraftMaps)
  BY DEF Draft, DraftMaps
<1> QED
  BY <1>1, ElementOfSeq

\* UpdateMap's first statement: the columns of the row.
LEMMA UpdateMapRowShows ==
    ASSUME NEW c \in Draft, NEW l \in Layouts(c), DistinctIds(c.maps),
           NEW p \in 1 .. Len(c.maps), NEW m, m.id = c.maps[p].id, m.detail \in Details
    PROVE  LET x == MapOf(m.id, m.detail, c.maps[p].versions, c.maps[p].statics)
           IN  /\ x \in DraftMaps
               /\ UpdateMapRow(TablesOf(c, l), m) = TablesOf(WithMapAt(c, p, x), l)
<1> DEFINE x == MapOf(m.id, m.detail, c.maps[p].versions, c.maps[p].statics)
           t == TablesOf(c, l)
           r == MapRow(c, l, p)
<1>1. x \in DraftMaps
  BY DraftParts DEF DraftMaps, MapOf
<1>2. x.versions = c.maps[p].versions /\ x.statics = c.maps[p].statics
      /\ x.id = m.id /\ x.detail = m.detail
  BY DEF MapOf
<1>3. RowOf(t, m.id) = r
  BY RowOfIs
<1>4. [r EXCEPT !.detail = m.detail] = AddedMap(l.rows[p], x, l.maps[p])
  <2> HIDE DEF x
  <2> QED
    BY <1>2 DEF MapRow, AddedMap
<1> HIDE DEF x
<1>5. t.maps = MapRows(c, l)
  BY DatabaseFields DEF TablesOf
<1> DEFINE new == (MapRows(c, l) \ {r}) \cup {AddedMap(l.rows[p], x, l.maps[p])}
<1>6. UpdateMapRow(t, m) = [t EXCEPT !.maps = new]
  <2> HIDE DEF t, r
  <2> QED
    BY <1>3, <1>4, <1>5, Zenon DEF UpdateMapRow
<1>7. TablesOf(WithMapAt(c, p, x), l) = Database(c.settings, APIRows(c, l), new,
                                        VersionRows(c, l), StaticRows(c, l), l.last)
  <2>1. /\ OtherVersions(c, l, p) \cup AddedVersions(l.rows[p], x) = VersionRows(c, l)
        /\ OtherStatics(c, l, p) \cup AddedStatics(l.rows[p], x) = StaticRows(c, l)
    BY <1>1, <1>2, KeptRows
  <2> QED
    BY <1>1, <2>1, WithMapAtRows
<1> HIDE DEF new
<1>8. UpdateMapRow(t, m) = TablesOf(WithMapAt(c, p, x), l)
  <2>1. [t EXCEPT !.maps = new] = Database(c.settings, APIRows(c, l), new,
                                        VersionRows(c, l), StaticRows(c, l), l.last)
    BY DEF TablesOf, Database
  <2> QED
    BY <1>6, <1>7, <2>1, Zenon
<1> QED
  BY <1>1, <1>8 DEF x

\* UpdateMap's second: no version is left of the map, and all of the others.
LEMMA ClearVersionsShows ==
    ASSUME NEW c \in Draft, NEW l \in Layouts(c), DistinctIds(c.maps),
           NEW p \in 1 .. Len(c.maps)
    PROVE  LET m == c.maps[p]
               x == MapOf(m.id, m.detail, <<>>, m.statics)
           IN  /\ x \in DraftMaps
               /\ ClearVersions(TablesOf(c, l), m.id) = TablesOf(WithMapAt(c, p, x), l)
<1> DEFINE m == c.maps[p]
           x == MapOf(m.id, m.detail, <<>>, m.statics)
           t == TablesOf(c, l)
<1>1. x \in DraftMaps
  BY DraftParts, EmptySeq DEF DraftMaps, MapOf
<1>2. x.versions = <<>> /\ x.statics = m.statics /\ x.id = m.id /\ x.detail = m.detail
  BY DEF MapOf
<1>3. RowOf(t, m.id).row = l.rows[p]
  BY RowOfIs
<1> HIDE DEF x
<1>4. t.versions = VersionRows(c, l)
  BY DatabaseFields DEF TablesOf
<1>5. ClearVersions(t, m.id) = [t EXCEPT !.versions = OtherVersions(c, l, p)]
  <2> HIDE DEF t, m
  <2> QED
    BY <1>3, <1>4, Zenon DEF ClearVersions, OtherVersions
<1>6. TablesOf(WithMapAt(c, p, x), l) = Database(c.settings, APIRows(c, l), MapRows(c, l),
                                OtherVersions(c, l, p), StaticRows(c, l), l.last)
  <2>1. AddedVersions(l.rows[p], x) = {}
    BY <1>2 DEF AddedVersions
  <2>2. /\ (MapRows(c, l) \ {MapRow(c, l, p)})
                    \cup {AddedMap(l.rows[p], x, l.maps[p])} = MapRows(c, l)
        /\ OtherStatics(c, l, p) \cup AddedStatics(l.rows[p], x) = StaticRows(c, l)
    BY <1>1, <1>2, KeptRows
  <2>3. OtherVersions(c, l, p) \cup AddedVersions(l.rows[p], x) = OtherVersions(c, l, p)
    BY <2>1
  <2> QED
    BY <1>1, <2>2, <2>3, WithMapAtRows
<1>7. ClearVersions(t, m.id) = TablesOf(WithMapAt(c, p, x), l)
  <2> DEFINE new == OtherVersions(c, l, p)
  <2> HIDE DEF new
  <2>1. [TablesOf(c, l) EXCEPT !.versions = new] = Database(c.settings, APIRows(c, l), MapRows(c, l),
                                new, StaticRows(c, l), l.last)
    BY DEF TablesOf, Database
  <2> HIDE DEF t
  <2> QED
    BY <1>5, <1>6, <2>1, Zenon DEF t, new
<1> QED
  BY <1>1, <1>7 DEF x

\* UpdateMap's third: no static column of the map.
LEMMA ClearStaticsShows ==
    ASSUME NEW c \in Draft, NEW l \in Layouts(c), DistinctIds(c.maps),
           NEW p \in 1 .. Len(c.maps)
    PROVE  LET m == c.maps[p]
               x == MapOf(m.id, m.detail, m.versions, {})
           IN  /\ x \in DraftMaps
               /\ ClearStatics(TablesOf(c, l), m.id) = TablesOf(WithMapAt(c, p, x), l)
<1> DEFINE m == c.maps[p]
           x == MapOf(m.id, m.detail, m.versions, {})
           t == TablesOf(c, l)
<1>1. x \in DraftMaps
  BY DraftParts DEF DraftMaps, MapOf
<1>2. x.versions = m.versions /\ x.statics = {} /\ x.id = m.id /\ x.detail = m.detail
  BY DEF MapOf
<1>3. RowOf(t, m.id).row = l.rows[p]
  BY RowOfIs
<1> HIDE DEF x
<1>4. t.statics = StaticRows(c, l)
  BY DatabaseFields DEF TablesOf
<1>5. ClearStatics(t, m.id) = [t EXCEPT !.statics = OtherStatics(c, l, p)]
  <2> HIDE DEF t, m
  <2> QED
    BY <1>3, <1>4, Zenon DEF ClearStatics, OtherStatics
<1>6. TablesOf(WithMapAt(c, p, x), l) = Database(c.settings, APIRows(c, l), MapRows(c, l),
                                VersionRows(c, l), OtherStatics(c, l, p), l.last)
  <2>1. AddedStatics(l.rows[p], x) = {}
    BY <1>2 DEF AddedStatics
  <2>2. /\ (MapRows(c, l) \ {MapRow(c, l, p)})
                    \cup {AddedMap(l.rows[p], x, l.maps[p])} = MapRows(c, l)
        /\ OtherVersions(c, l, p) \cup AddedVersions(l.rows[p], x) = VersionRows(c, l)
    BY <1>1, <1>2, KeptRows
  <2>3. OtherStatics(c, l, p) \cup AddedStatics(l.rows[p], x) = OtherStatics(c, l, p)
    BY <2>1
  <2> QED
    BY <1>1, <2>2, <2>3, WithMapAtRows
<1>7. ClearStatics(t, m.id) = TablesOf(WithMapAt(c, p, x), l)
  <2> DEFINE new == OtherStatics(c, l, p)
  <2> HIDE DEF new
  <2>1. [TablesOf(c, l) EXCEPT !.statics = new] = Database(c.settings, APIRows(c, l), MapRows(c, l),
                                VersionRows(c, l), new, l.last)
    BY DEF TablesOf, Database
  <2> HIDE DEF t
  <2> QED
    BY <1>5, <1>6, <2>1, Zenon DEF t, new
<1> QED
  BY <1>1, <1>7 DEF x

\* UpdateMap's insert of one version, behind those there are.
LEMMA InsertVersionShows ==
    ASSUME NEW c \in Draft, NEW l \in Layouts(c), DistinctIds(c.maps),
           NEW p \in 1 .. Len(c.maps), NEW v, v.id = c.maps[p].id, v.version \in STRING
    PROVE  LET m == c.maps[p]
               x == MapOf(m.id, m.detail, Append(m.versions, v.version), m.statics)
           IN  /\ x \in DraftMaps
               /\ InsertVersion(TablesOf(c, l), v, Len(m.versions))
                    = TablesOf(WithMapAt(c, p, x), l)
<1> DEFINE m == c.maps[p]
           N == Len(m.versions)
           x == MapOf(m.id, m.detail, Append(m.versions, v.version), m.statics)
           t == TablesOf(c, l)
           row == [map |-> l.rows[p], version |-> v.version, order |-> N]
<1>1. /\ m.versions \in Seq(STRING) /\ m.id \in MapId /\ m.detail \in Details
      /\ m.statics \subseteq Columns
  BY DraftParts
<1> HIDE DEF m
<1>2. /\ x.versions = Append(m.versions, v.version)
      /\ x.statics = m.statics /\ x.id = m.id /\ x.detail = m.detail
  BY DEF MapOf
<1>3. /\ N \in Nat /\ x.versions \in Seq(STRING)
      /\ DOMAIN x.versions = 1 .. N \cup {N + 1} /\ DOMAIN m.versions = 1 .. N
      /\ \A i \in 1 .. N : x.versions[i] = m.versions[i]
      /\ x.versions[N + 1] = v.version
  <2>1. /\ Append(m.versions, v.version) \in Seq(STRING)
        /\ N \in Nat /\ DOMAIN m.versions = 1 .. N
        /\ \A i \in 1 .. N : Append(m.versions, v.version)[i] = m.versions[i]
        /\ Append(m.versions, v.version)[N + 1] = v.version
        /\ 1 .. Len(Append(m.versions, v.version)) = 1 .. N \cup {N + 1}
    BY <1>1, Appended, LenProperties
  <2>2. DOMAIN Append(m.versions, v.version) = 1 .. Len(Append(m.versions, v.version))
    BY <2>1, LenProperties
  <2> HIDE DEF x
  <2> QED
    BY <1>2, <2>1, <2>2
<1>4. x \in DraftMaps
  BY <1>1, <1>2, <1>3 DEF DraftMaps, MapOf
<1>5. RowOf(t, v.id).row = l.rows[p]
  BY RowOfIs
<1> HIDE DEF x
<1>6. t.versions = VersionRows(c, l)
  BY DatabaseFields DEF TablesOf
<1>7. InsertVersion(t, v, N) = [t EXCEPT !.versions = VersionRows(c, l) \cup {row}]
  <2> HIDE DEF t, N
  <2> QED
    BY <1>5, <1>6, Zenon DEF InsertVersion
<1>8. OtherVersions(c, l, p) \cup AddedVersions(l.rows[p], x) = VersionRows(c, l) \cup {row}
  <2>1. m \in DraftMaps
    BY MapIsMap DEF m
  <2>2. OtherVersions(c, l, p) \cup AddedVersions(l.rows[p], m) = VersionRows(c, l)
    BY <2>1, KeptRows DEF m
  <2>3. AddedVersions(l.rows[p], x) = AddedVersions(l.rows[p], m) \cup {row}
    <3>1. [map |-> l.rows[p], version |-> x.versions[N + 1], order |-> N + 1 - 1] = row
      BY <1>3
    <3> DEFINE own(i) == [map |-> l.rows[p], version |-> m.versions[i], order |-> i - 1]
               all(i) == [map |-> l.rows[p], version |-> x.versions[i], order |-> i - 1]
    <3>2. AddedVersions(l.rows[p], m) = {own(i) : i \in 1 .. N}
      BY <1>3 DEF AddedVersions
    <3>3. AddedVersions(l.rows[p], x) = {all(i) : i \in 1 .. N \cup {N + 1}}
      BY <1>3 DEF AddedVersions
    <3>4. all(N + 1) = row
      BY <3>1
    <3>5. \A i \in 1 .. N : all(i) = own(i)
      BY <1>3
    <3> HIDE DEF N, row, own, all
    <3> QED
      BY <3>2, <3>3, <3>4, <3>5
  <2> HIDE DEF row
  <2> QED
    BY <2>2, <2>3
<1>9. TablesOf(WithMapAt(c, p, x), l) = Database(c.settings, APIRows(c, l), MapRows(c, l),
                        VersionRows(c, l) \cup {row}, StaticRows(c, l), l.last)
  <2>1. /\ (MapRows(c, l) \ {MapRow(c, l, p)})
                    \cup {AddedMap(l.rows[p], x, l.maps[p])} = MapRows(c, l)
        /\ OtherStatics(c, l, p) \cup AddedStatics(l.rows[p], x) = StaticRows(c, l)
    BY <1>2, <1>4, KeptRows DEF m
  <2> HIDE DEF row
  <2> QED
    BY <1>4, <1>8, <2>1, WithMapAtRows
<1> HIDE DEF row
<1>10. InsertVersion(t, v, N) = TablesOf(WithMapAt(c, p, x), l)
  <2> DEFINE rows == VersionRows(c, l) \cup {row}
  <2> HIDE DEF rows
  <2>1. [t EXCEPT !.versions = rows] = Database(c.settings, APIRows(c, l), MapRows(c, l),
                                        rows, StaticRows(c, l), l.last)
    BY DEF TablesOf, Database
  <2> QED
    BY <1>7, <1>9, <2>1, Zenon DEF rows
<1> QED
  BY <1>4, <1>10 DEF x, m

\* UpdateMap's last: the static columns, when there are none.
LEMMA InsertStaticsShows ==
    ASSUME NEW c \in Draft, NEW l \in Layouts(c), DistinctIds(c.maps),
           NEW p \in 1 .. Len(c.maps), c.maps[p].statics = {},
           NEW new, new.id = c.maps[p].id, new.statics \subseteq Columns
    PROVE  LET m == c.maps[p]
               x == MapOf(m.id, m.detail, m.versions, new.statics)
           IN  /\ x \in DraftMaps
               /\ InsertStatics(TablesOf(c, l), new) = TablesOf(WithMapAt(c, p, x), l)
<1> DEFINE m == c.maps[p]
           x == MapOf(m.id, m.detail, m.versions, new.statics)
           t == TablesOf(c, l)
<1>1. x \in DraftMaps
  BY DraftParts DEF DraftMaps, MapOf
<1>2. x.versions = m.versions /\ x.statics = new.statics /\ x.id = m.id /\ x.detail = m.detail
  BY DEF MapOf
<1>3. RowOf(t, new.id).row = l.rows[p]
  BY RowOfIs
<1> HIDE DEF x
<1>4. t.statics = StaticRows(c, l)
  BY DatabaseFields DEF TablesOf
<1>5. InsertStatics(t, new)
        = [t EXCEPT !.statics = StaticRows(c, l) \cup AddedStatics(l.rows[p], x)]
  <2>1. AddedStatics(l.rows[p], x) = [map : {l.rows[p]}, column : new.statics]
    BY <1>2 DEF AddedStatics
  <2> HIDE DEF t
  <2> QED
    BY <1>3, <1>4, <2>1, Zenon DEF InsertStatics
<1>6. OtherStatics(c, l, p) = StaticRows(c, l)
  <2>1. m \in DraftMaps
    BY MapIsMap
  <2>2. OtherStatics(c, l, p) \cup AddedStatics(l.rows[p], m) = StaticRows(c, l)
    BY <2>1, KeptRows
  <2>3. AddedStatics(l.rows[p], m) = {}
    BY DEF AddedStatics
  <2> QED
    BY <2>2, <2>3
<1>7. TablesOf(WithMapAt(c, p, x), l) = Database(c.settings, APIRows(c, l), MapRows(c, l),
            VersionRows(c, l), StaticRows(c, l) \cup AddedStatics(l.rows[p], x), l.last)
  <2>1. /\ (MapRows(c, l) \ {MapRow(c, l, p)})
                    \cup {AddedMap(l.rows[p], x, l.maps[p])} = MapRows(c, l)
        /\ OtherVersions(c, l, p) \cup AddedVersions(l.rows[p], x) = VersionRows(c, l)
    BY <1>1, <1>2, KeptRows
  <2> QED
    BY <1>1, <1>6, <2>1, WithMapAtRows
<1>8. InsertStatics(t, new) = TablesOf(WithMapAt(c, p, x), l)
  <2> DEFINE rows == StaticRows(c, l) \cup AddedStatics(l.rows[p], x)
  <2> HIDE DEF rows
  <2>1. [t EXCEPT !.statics = rows] = Database(c.settings, APIRows(c, l), MapRows(c, l),
                                        VersionRows(c, l), rows, l.last)
    BY DEF TablesOf, Database
  <2> QED
    BY <1>5, <1>7, <2>1, Zenon DEF rows
<1> QED
  BY <1>1, <1>8 DEF x

-----------------------------------------------------------------------------
(* An item removed, an API replaced.                                        *)

\* Where an item stood that is at i once the p-th is removed.
Skip(p, i) == IF i < p THEN i ELSE i + 1

\* Every index but p is of an item that stays.
LEMMA SkipOnto ==
    ASSUME NEW N \in Nat, NEW p \in 1 .. N
    PROVE  /\ \A i \in 1 .. (N - 1) : Skip(p, i) \in 1 .. N /\ Skip(p, i) # p
           /\ \A j \in 1 .. N : j # p => \E i \in 1 .. (N - 1) : j = Skip(p, i)
<1>1. ASSUME NEW j \in 1 .. N, j # p
      PROVE  \E i \in 1 .. (N - 1) : j = Skip(p, i)
  <2>1. CASE j < p
    <3>1. j \in 1 .. (N - 1) /\ j = Skip(p, j)
      BY <2>1 DEF Skip
    <3> QED
      BY <3>1
  <2>2. CASE p < j
    <3>1. (j - 1) \in 1 .. (N - 1) /\ j = Skip(p, j - 1)
      BY <2>2 DEF Skip
    <3> QED
      BY <3>1
  <2> QED
    BY <1>1, <2>1, <2>2
<1>2. \A i \in 1 .. (N - 1) : Skip(p, i) \in 1 .. N /\ Skip(p, i) # p
  BY DEF Skip
<1> QED
  BY <1>1, <1>2

\* Items keep their order.
LEMMA SkipIs ==
    ASSUME NEW N \in Nat, NEW p \in 1 .. N
    PROVE  /\ \A i \in 1 .. (N - 1) : Skip(p, i) \in 1 .. N
           /\ \A i, j \in 1 .. (N - 1) : i < j => Skip(p, i) < Skip(p, j)
           /\ \A i, j \in 1 .. (N - 1) : Skip(p, i) = Skip(p, j) => i = j
BY DEF Skip

\* RemoveAt by Skip.
LEMMA RemovedItems ==
    ASSUME NEW S, NEW s \in Seq(S), NEW N \in Nat, Len(s) = N, NEW p \in 1 .. N
    PROVE  /\ RemoveAt(s, p) \in Seq(S) /\ Len(RemoveAt(s, p)) = N - 1
           /\ \A i \in 1 .. (N - 1) : RemoveAt(s, p)[i] = s[Skip(p, i)]
BY RemoveAtItems DEF Skip

\* What grows still grows without an item.
LEMMA RemovedGrows ==
    ASSUME NEW s \in Seq(Nat), NEW N \in Nat, Len(s) = N, NEW p \in 1 .. N,
           \A i, j \in 1 .. N : i < j => s[i] < s[j]
    PROVE  \A i, j \in 1 .. (N - 1) : i < j => RemoveAt(s, p)[i] < RemoveAt(s, p)[j]
<1>1. \A i \in 1 .. (N - 1) : RemoveAt(s, p)[i] = s[Skip(p, i)]
  BY RemovedItems
<1>2. /\ \A i \in 1 .. (N - 1) : Skip(p, i) \in 1 .. N
      /\ \A i, j \in 1 .. (N - 1) : i < j => Skip(p, i) < Skip(p, j)
  BY SkipIs
<1> QED
  BY <1>1, <1>2

\* And ids are still distinct.
LEMMA RemovedDistinct ==
    ASSUME NEW S, NEW s \in Seq(S), NEW p \in 1 .. Len(s), DistinctIds(s)
    PROVE  DistinctIds(RemoveAt(s, p))
<1> DEFINE N == Len(s)
<1>1. N \in Nat
  BY LenProperties
<1>2. /\ Len(RemoveAt(s, p)) = N - 1
      /\ \A i \in 1 .. (N - 1) : RemoveAt(s, p)[i] = s[Skip(p, i)]
  BY <1>1, RemovedItems
<1>3. \A i, j \in 1 .. N : s[i].id = s[j].id => i = j
  BY DEF DistinctIds
<1>4. p \in 1 .. N
  OBVIOUS
<1> HIDE DEF N
<1>5. /\ \A i \in 1 .. (N - 1) : Skip(p, i) \in 1 .. N
      /\ \A i, j \in 1 .. (N - 1) : Skip(p, i) = Skip(p, j) => i = j
  BY <1>1, <1>4, SkipIs
<1> QED
  BY <1>2, <1>3, <1>5 DEF DistinctIds

\* DeleteMap and its cascade: the other maps stay, in their order.
LEMMA DeleteMapShows ==
    ASSUME NEW c \in Draft, NEW l \in Layouts(c), DistinctIds(c.maps),
           NEW p \in 1 .. Len(c.maps)
    PROVE  LET d == WithMapList(c, RemoveAt(c.maps, p))
               m == LayMaps(l, RemoveAt(l.maps, p), RemoveAt(l.rows, p), l.last)
               t == TablesOf(c, l)
           IN  d \in Draft /\ m \in Layouts(d)
               /\ WithoutMaps(t, {RowOf(t, c.maps[p].id)}) = TablesOf(d, m)
<1> DEFINE N == Len(c.maps)
           list == RemoveAt(c.maps, p)
           d == WithMapList(c, list)
           orders == RemoveAt(l.maps, p)
           ids == RemoveAt(l.rows, p)
           m == LayMaps(l, orders, ids, l.last)
           t == TablesOf(c, l)
<1>1. /\ c.maps \in Seq(DraftMaps) /\ l.maps \in Seq(Nat) /\ l.rows \in Seq(Nat)
      /\ Len(l.maps) = N /\ Len(l.rows) = N /\ l.last \in Nat /\ N \in Nat
  <2>1. c.maps \in Seq(DraftMaps)
    BY DEF Draft, DraftMaps
  <2> QED
    BY <2>1, LayoutParts, DraftParts
<1>2. /\ list \in Seq(DraftMaps) /\ Len(list) = N - 1
      /\ \A i \in 1 .. (N - 1) : list[i] = c.maps[Skip(p, i)]
  BY <1>1, RemovedItems
<1>3. /\ orders \in Seq(Nat) /\ Len(orders) = N - 1
      /\ \A i \in 1 .. (N - 1) : orders[i] = l.maps[Skip(p, i)]
  BY <1>1, RemovedItems
<1>4. /\ ids \in Seq(Nat) /\ Len(ids) = N - 1
      /\ \A i \in 1 .. (N - 1) : ids[i] = l.rows[Skip(p, i)]
  BY <1>1, RemovedItems
<1>5. /\ \A i \in 1 .. (N - 1) : Skip(p, i) \in 1 .. N /\ Skip(p, i) # p
      /\ \A j \in 1 .. N : j # p => \E i \in 1 .. (N - 1) : j = Skip(p, i)
  <2>1. p \in 1 .. N /\ N \in Nat
    BY <1>1
  <2> HIDE DEF N
  <2> QED
    BY <2>1, SkipOnto
<1>6. d \in Draft /\ m \in Layouts(d)
  <2>1. \A i, j \in 1 .. (N - 1) : i < j => orders[i] < orders[j] /\ ids[i] < ids[j]
    <3>1. \A i, j \in 1 .. N : i < j => l.maps[i] < l.maps[j] /\ l.rows[i] < l.rows[j]
      BY LayoutParts
    <3> QED
      BY <1>1, <3>1, RemovedGrows
  <2>2. \A i \in 1 .. (N - 1) : ids[i] <= l.last
    BY <1>4, <1>5, LayoutParts
  <2> HIDE DEF list, orders, ids, N
  <2> QED
    BY <1>1, <1>2, <1>3, <1>4, <2>1, <2>2, WithMapListIs
<1>7. d.settings = c.settings /\ d.apis = c.apis /\ d.maps = list
  BY DEF WithMapList
<1>8. m.apis = l.apis /\ m.maps = orders /\ m.rows = ids /\ m.last = l.last
  BY DEF LayMaps
<1> HIDE DEF d, m, list, orders, ids
<1>9. \A i, j \in 1 .. N : i # j => l.rows[i] # l.rows[j]
  BY RowsDiffer
<1>10. MapRows(d, m) = MapRows(c, l) \ {MapRow(c, l, p)}
  <2>1. \A i \in 1 .. (N - 1) : MapRow(d, m, i) = MapRow(c, l, Skip(p, i))
    BY <1>2, <1>3, <1>4, <1>7, <1>8 DEF MapRow
  <2>2. \A j \in 1 .. N : j # p => MapRow(c, l, j) # MapRow(c, l, p)
    BY <1>9 DEF MapRow
  <2>3. MapRows(d, m) = {MapRow(d, m, i) : i \in 1 .. (N - 1)}
    BY <1>2, <1>7 DEF MapRows
  <2>4. MapRows(c, l) = {MapRow(c, l, i) : i \in 1 .. N}
    BY DEF MapRows
  <2> HIDE DEF N
  <2> QED
    BY <1>5, <2>1, <2>2, <2>3, <2>4
<1>11. VersionRows(d, m) = {v \in VersionRows(c, l) : v.map # l.rows[p]}
  <2> DEFINE V(i) == {VersionRow(d, m, i, k) : k \in VersionsAt(d, i)}
             W(i) == {VersionRow(c, l, i, k) : k \in VersionsAt(c, i)}
  <2>1. \A i \in 1 .. (N - 1) : V(i) = W(Skip(p, i))
    BY <1>2, <1>4, <1>7, <1>8 DEF VersionRow, VersionsAt
  <2>2. \A i \in 1 .. N : \A v \in W(i) : v.map = l.rows[i]
    BY DEF VersionRow
  <2>3. /\ VersionRows(d, m) = UNION {V(i) : i \in 1 .. (N - 1)}
        /\ VersionRows(c, l) = UNION {W(i) : i \in 1 .. N}
    BY <1>2, <1>7 DEF VersionRows
  <2> HIDE DEF V, W, N
  <2>4. {v \in VersionRows(c, l) : v.map # l.rows[p]} = UNION {W(i) : i \in 1 .. N \ {p}}
    BY <1>9, <2>2, <2>3 DEF N
  <2>5. UNION {V(i) : i \in 1 .. (N - 1)} = UNION {W(i) : i \in 1 .. N \ {p}}
    BY <1>5, <2>1
  <2> QED
    BY <2>3, <2>4, <2>5
<1>12. StaticRows(d, m) = {s \in StaticRows(c, l) : s.map # l.rows[p]}
  <2> DEFINE V(i) == [map : {m.rows[i]}, column : d.maps[i].statics]
             W(i) == [map : {l.rows[i]}, column : c.maps[i].statics]
  <2>1. \A i \in 1 .. (N - 1) : V(i) = W(Skip(p, i))
    BY <1>2, <1>4, <1>7, <1>8
  <2>2. \A i \in 1 .. N : \A v \in W(i) : v.map = l.rows[i]
    OBVIOUS
  <2>3. /\ StaticRows(d, m) = UNION {V(i) : i \in 1 .. (N - 1)}
        /\ StaticRows(c, l) = UNION {W(i) : i \in 1 .. N}
    BY <1>2, <1>7 DEF StaticRows
  <2> HIDE DEF V, W, N
  <2>4. {s \in StaticRows(c, l) : s.map # l.rows[p]} = UNION {W(i) : i \in 1 .. N \ {p}}
    BY <1>9, <2>2, <2>3 DEF N
  <2>5. UNION {V(i) : i \in 1 .. (N - 1)} = UNION {W(i) : i \in 1 .. N \ {p}}
    BY <1>5, <2>1
  <2> QED
    BY <2>3, <2>4, <2>5
<1>13. APIRows(d, m) = APIRows(c, l)
  BY <1>7, <1>8, OtherRows
<1>14. WithoutMaps(t, {RowOf(t, c.maps[p].id)}) = TablesOf(d, m)
  <2> DEFINE gone == {MapRow(c, l, p)}
             rows == {q.row : q \in gone}
  <2>1. rows = {l.rows[p]}
    <3>1. MapRow(c, l, p).row = l.rows[p]
      BY DEF MapRow
    <3> QED
      BY <3>1
  <2>2. {RowOf(t, c.maps[p].id)} = gone
    BY RowOfIs
  <2> HIDE DEF gone
  <2>3. WithoutMaps(t, gone) = Database(c.settings, APIRows(c, l), MapRows(c, l) \ gone,
            {v \in VersionRows(c, l) : v.map \notin rows},
            {s \in StaticRows(c, l) : s.map \notin rows}, l.last)
    BY WithoutMapsChange DEF TablesOf
  <2> HIDE DEF rows, t
  <2>4. /\ {v \in VersionRows(c, l) : v.map \notin rows} = VersionRows(d, m)
        /\ {s \in StaticRows(c, l) : s.map \notin rows} = StaticRows(d, m)
    BY <1>11, <1>12, <2>1
  <2>5. MapRows(c, l) \ gone = MapRows(d, m)
    BY <1>10 DEF gone
  <2> QED
    BY <1>7, <1>8, <1>13, <2>2, <2>3, <2>4, <2>5 DEF TablesOf
<1> QED
  BY <1>6, <1>14 DEF d, m, list, orders, ids

\* DeleteAPI: the other APIs stay, in their order.
LEMMA DeleteAPIShows ==
    ASSUME NEW c \in Draft, NEW l \in Layouts(c), DistinctIds(c.apis),
           NEW p \in 1 .. Len(c.apis)
    PROVE  LET d == WithAPIs(c, RemoveAt(c.apis, p))
               m == LayAPIs(l, RemoveAt(l.apis, p))
               t == TablesOf(c, l)
           IN  d \in Draft /\ m \in Layouts(d)
               /\ [t EXCEPT !.apis = {r \in @ : r.id # c.apis[p].id}] = TablesOf(d, m)
<1> DEFINE N == Len(c.apis)
           list == RemoveAt(c.apis, p)
           d == WithAPIs(c, list)
           orders == RemoveAt(l.apis, p)
           m == LayAPIs(l, orders)
           t == TablesOf(c, l)
<1>1. /\ c.apis \in Seq(APIs) /\ l.apis \in Seq(Nat)
      /\ Len(l.apis) = N /\ N \in Nat
  <2>1. c.apis \in Seq(APIs)
    BY DEF Draft, APIs
  <2> QED
    BY <2>1, LayoutParts, DraftParts
<1>2. /\ list \in Seq(APIs) /\ Len(list) = N - 1
      /\ \A i \in 1 .. (N - 1) : list[i] = c.apis[Skip(p, i)]
  BY <1>1, RemovedItems
<1>3. /\ orders \in Seq(Nat) /\ Len(orders) = N - 1
      /\ \A i \in 1 .. (N - 1) : orders[i] = l.apis[Skip(p, i)]
  BY <1>1, RemovedItems
<1>4. /\ \A i \in 1 .. (N - 1) : Skip(p, i) \in 1 .. N /\ Skip(p, i) # p
      /\ \A j \in 1 .. N : j # p => \E i \in 1 .. (N - 1) : j = Skip(p, i)
  <2>1. p \in 1 .. N /\ N \in Nat
    BY <1>1
  <2> HIDE DEF N
  <2> QED
    BY <2>1, SkipOnto
<1>5. d \in Draft /\ m \in Layouts(d)
  <2>1. \A i, j \in 1 .. (N - 1) : i < j => orders[i] < orders[j]
    <3>1. \A i, j \in 1 .. N : i < j => l.apis[i] < l.apis[j]
      BY LayoutParts
    <3> QED
      BY <1>1, <3>1, RemovedGrows
  <2> HIDE DEF list, orders, N
  <2> QED
    BY <1>1, <1>2, <1>3, <2>1, WithAPIsIs
<1>6. d.settings = c.settings /\ d.apis = list /\ d.maps = c.maps
  BY DEF WithAPIs
<1>7. m.apis = orders /\ m.maps = l.maps /\ m.rows = l.rows /\ m.last = l.last
  BY DEF LayAPIs
<1> HIDE DEF d, m, list, orders
<1>8. APIRows(d, m) = {r \in APIRows(c, l) : r.id # c.apis[p].id}
  <2>1. \A i \in 1 .. (N - 1) : APIRow(d, m, i) = APIRow(c, l, Skip(p, i))
    BY <1>2, <1>3, <1>6, <1>7 DEF APIRow
  <2>2. \A i \in 1 .. N : APIRow(c, l, i).id = c.apis[i].id
    BY DEF APIRow
  <2>3. \A i \in 1 .. N : c.apis[i].id = c.apis[p].id => i = p
    BY DEF DistinctIds
  <2>4. APIRows(d, m) = {APIRow(d, m, i) : i \in 1 .. (N - 1)}
    BY <1>2, <1>6 DEF APIRows
  <2>5. APIRows(c, l) = {APIRow(c, l, i) : i \in 1 .. N}
    BY DEF APIRows
  <2> HIDE DEF N
  <2> QED
    BY <1>4, <2>1, <2>2, <2>3, <2>4, <2>5
<1>9. /\ MapRows(d, m) = MapRows(c, l) /\ VersionRows(d, m) = VersionRows(c, l)
      /\ StaticRows(d, m) = StaticRows(c, l)
  BY <1>6, <1>7, OtherRows
<1>10. [t EXCEPT !.apis = {r \in @ : r.id # c.apis[p].id}] = TablesOf(d, m)
  <2>1. t.apis = APIRows(c, l)
    BY DatabaseFields DEF TablesOf
  <2> DEFINE new == {r \in t.apis : r.id # c.apis[p].id}
  <2>2. new = APIRows(d, m)
    BY <1>8, <2>1
  <2> HIDE DEF new
  <2>3. [t EXCEPT !.apis = new] = Database(c.settings, new, MapRows(c, l),
                                        VersionRows(c, l), StaticRows(c, l), l.last)
    BY DEF TablesOf, Database
  <2>4. [t EXCEPT !.apis = new] = TablesOf(d, m)
    BY <1>6, <1>7, <1>9, <2>2, <2>3 DEF TablesOf
  <2> HIDE DEF t
  <2> QED
    BY <2>4, Zenon DEF new
<1> QED
  BY <1>5, <1>10 DEF d, m, list, orders

\* UpdateAPI: the row keeps its place.
LEMMA UpdateAPIShows ==
    ASSUME NEW c \in Draft, NEW l \in Layouts(c), DistinctIds(c.apis),
           NEW p \in 1 .. Len(c.apis), NEW a \in APIs, a.id = c.apis[p].id
    PROVE  LET d == WithAPIs(c, [c.apis EXCEPT ![p] = a])
               t == TablesOf(c, l)
           IN  d \in Draft /\ l \in Layouts(d) /\ DistinctIds(d.apis)
               /\ UpdateAPI(t, a) = TablesOf(d, l)
<1> DEFINE N == Len(c.apis)
           list == [c.apis EXCEPT ![p] = a]
           d == WithAPIs(c, list)
           t == TablesOf(c, l)
<1>1. c.apis \in Seq(APIs) /\ DOMAIN c.apis = 1 .. Len(c.apis)
  <2>1. c.apis \in Seq(APIs)
    BY DEF Draft, APIs
  <2> QED
    BY <2>1, LenProperties
<1>2. /\ list \in Seq(APIs) /\ Len(list) = N /\ list[p] = a
      /\ \A i \in 1 .. N : i # p => list[i] = c.apis[i]
  BY <1>1, ExceptSeq
<1>3. d.settings = c.settings /\ d.apis = list /\ d.maps = c.maps
  BY DEF WithAPIs
<1>4. d \in Draft
  BY <1>2 DEF Draft, APIs, WithAPIs
<1> HIDE DEF list, d
<1>5. l \in Layouts(d)
  BY <1>2, <1>3 DEF Layouts
<1>6. \A i \in 1 .. N : list[i].id = c.apis[i].id
  BY <1>2
<1>7. DistinctIds(d.apis)
  BY <1>2, <1>3, <1>6 DEF DistinctIds
<1>8. APIRows(d, l) = {IF r.id = a.id THEN [r EXCEPT !.url = a.url] ELSE r
                        : r \in APIRows(c, l)}
  <2> DEFINE F(r) == IF r.id = a.id THEN [r EXCEPT !.url = a.url] ELSE r
  <2>1. APIRow(d, l, p) = F(APIRow(c, l, p))
    <3>1. APIRow(c, l, p).id = a.id
      BY DEF APIRow
    <3>2. [APIRow(c, l, p) EXCEPT !.url = a.url] = APIRow(d, l, p)
      BY <1>2, <1>3 DEF APIRow
    <3> QED
      BY <3>1, <3>2
  <2>2. ASSUME NEW i \in 1 .. N, i # p
        PROVE  APIRow(d, l, i) = F(APIRow(c, l, i))
    <3>1. APIRow(c, l, i).id # a.id
      BY <2>2 DEF APIRow, DistinctIds
    <3>2. APIRow(d, l, i) = APIRow(c, l, i)
      BY <1>2, <1>3, <2>2 DEF APIRow
    <3> QED
      BY <3>1, <3>2
  <2>3. \A i \in 1 .. N : APIRow(d, l, i) = F(APIRow(c, l, i))
    BY <2>1, <2>2
  <2>4. APIRows(d, l) = {APIRow(d, l, i) : i \in 1 .. N}
    BY <1>2, <1>3 DEF APIRows
  <2> HIDE DEF N, F
  <2>5. APIRows(d, l) = {F(r) : r \in APIRows(c, l)}
    BY <2>3, <2>4 DEF APIRows, N
  <2> QED
    BY <2>5 DEF F
<1>9. /\ MapRows(d, l) = MapRows(c, l) /\ VersionRows(d, l) = VersionRows(c, l)
      /\ StaticRows(d, l) = StaticRows(c, l)
  BY <1>3, OtherRows
<1>10. UpdateAPI(t, a) = TablesOf(d, l)
  <2>1. t.apis = APIRows(c, l)
    BY DatabaseFields DEF TablesOf
  <2> DEFINE new == {IF r.id = a.id THEN [r EXCEPT !.url = a.url] ELSE r : r \in t.apis}
  <2>2. new = APIRows(d, l)
    BY <1>8, <2>1
  <2> HIDE DEF new
  <2>3. [t EXCEPT !.apis = new] = Database(c.settings, new, MapRows(c, l),
                                        VersionRows(c, l), StaticRows(c, l), l.last)
    BY DEF TablesOf, Database
  <2>4. [t EXCEPT !.apis = new] = TablesOf(d, l)
    BY <1>3, <1>9, <2>2, <2>3 DEF TablesOf
  <2> HIDE DEF t
  <2> QED
    BY <2>4, Zenon DEF new, UpdateAPI
<1> QED
  BY <1>4, <1>5, <1>7, <1>10 DEF d, list

-----------------------------------------------------------------------------
(* Edits of the configuration.                                              *)

\* What the runner may hold: no id twice.
Configs == { c \in [ settings : Settings \cup {NoSettings},
                     apis : Seq(Store!API), maps : Seq(Store!MapTarget) ] :
             DistinctIds(c.apis) /\ DistinctIds(c.maps) }

\* The items of the store's configurations are those of the layouts.
LEMMA MapTargets == Store!API = APIs /\ Store!MapTarget \subseteq DraftMaps
<1>1. Store!API = APIs
  BY DEF Store!API, APIs
<1>2. Store!MapTarget \subseteq DraftMaps
  BY VersionsAreNames DEF Store!MapTarget, DraftMaps
<1> QED
  BY <1>1, <1>2

\* What a configuration of the store is.
LEMMA ConfigsAreDrafts ==
    ASSUME NEW c \in Configs
    PROVE  /\ c \in Draft /\ DistinctIds(c.apis) /\ DistinctIds(c.maps)
           /\ c.apis \in Seq(Store!API) /\ c.maps \in Seq(Store!MapTarget)
           /\ c.settings \in Settings \cup {NoSettings}
<1>1. /\ c \in [ settings : Settings \cup {NoSettings},
                 apis : Seq(Store!API), maps : Seq(Store!MapTarget) ]
      /\ DistinctIds(c.apis) /\ DistinctIds(c.maps)
  BY DEF Configs
<1>2. c.apis \in Seq(APIs)
  BY <1>1, MapTargets
<1>3. c.maps \in Seq(DraftMaps)
  <2>1. c.maps \in Seq(Store!MapTarget)
    BY <1>1
  <2> QED
    BY <2>1, MapTargets, SeqMonotonic
<1>4. c \in [settings : Settings \cup {NoSettings}, apis : Seq(APIs), maps : Seq(DraftMaps)]
  BY <1>1, <1>2, <1>3
<1>5. c \in Draft
  BY <1>4 DEF Draft, APIs, DraftMaps
<1> QED
  BY <1>1, <1>5

\* The seven kinds of edit.
LEMMA OpKinds ==
    ASSUME NEW o \in Store!Ops
    PROVE  \/ o.on = "maps" /\ o.do = "create" /\ o.to \in Store!MapTarget
           \/ o.on = "maps" /\ o.do = "update" /\ o.to \in Store!MapTarget
           \/ o.on = "maps" /\ o.do = "delete"
           \/ o.on = "apis" /\ o.do = "create" /\ o.to \in Store!API
           \/ o.on = "apis" /\ o.do = "update" /\ o.to \in Store!API
           \/ o.on = "apis" /\ o.do = "delete"
           \/ o.on = "database" /\ o.do = "save" /\ o.to \in Settings
BY DEF Store!Ops

\* The index of an id that is in the list.
LEMMA IndexOfIs ==
    ASSUME NEW S, NEW list \in Seq(S), NEW id, Store!Has(list, id)
    PROVE  /\ Store!IndexOf(list, id) \in 1 .. Len(list)
           /\ list[Store!IndexOf(list, id)].id = id
<1>1. DOMAIN list = 1 .. Len(list)
  BY LenProperties
<1>2. \E i \in 1 .. Len(list) : list[i].id = id
  BY <1>1 DEF Store!Has
<1>3. Store!IndexOf(list, id) = CHOOSE i \in 1 .. Len(list) : list[i].id = id
  BY <1>1, Zenon DEF Store!IndexOf
<1> QED
  BY <1>2, <1>3

WithSettings(c, x) == [settings |-> x, apis |-> c.apis, maps |-> c.maps]

\* ConfigStore's RemoveAt is the one proved about.
LEMMA SameRemoveAt == \A s, i : Store!RemoveAt(s, i) = RemoveAt(s, i)
BY DEF Store!RemoveAt, RemoveAt

\* The fields an edit leaves alone.
LEMMA ConfigChanges ==
    ASSUME NEW s, NEW a, NEW m, NEW new, NEW c, c = [settings |-> s, apis |-> a, maps |-> m]
    PROVE  /\ [c EXCEPT !["maps"] = new] = [settings |-> s, apis |-> a, maps |-> new]
           /\ [c EXCEPT !["apis"] = new] = [settings |-> s, apis |-> new, maps |-> m]
           /\ [c EXCEPT !.settings = new] = [settings |-> new, apis |-> a, maps |-> m]
<1>1. [c EXCEPT !["maps"] = new] = [settings |-> s, apis |-> a, maps |-> new]
  OBVIOUS
<1>2. [c EXCEPT !["apis"] = new] = [settings |-> s, apis |-> new, maps |-> m]
  OBVIOUS
<1>3. [c EXCEPT !.settings = new] = [settings |-> new, apis |-> a, maps |-> m]
  OBVIOUS
<1> QED
  BY <1>1, <1>2, <1>3

\* What each kind of edit makes of the configuration.
LEMMA EditedIs ==
    ASSUME NEW c \in Configs, NEW o \in Store!Ops
    PROVE  LET e == Store!Edited(c, o)
           IN  /\ o.on = "maps" /\ o.do = "create" => e = WithMapList(c, Append(c.maps, o.to))
               /\ o.on = "maps" /\ o.do = "update" =>
                    e = WithMapAt(c, Store!IndexOf(c.maps, o.to.id), o.to)
               /\ o.on = "maps" /\ o.do = "delete" =>
                    e = WithMapList(c, RemoveAt(c.maps, Store!IndexOf(c.maps, o.id)))
               /\ o.on = "apis" /\ o.do = "create" => e = WithAPIs(c, Append(c.apis, o.to))
               /\ o.on = "apis" /\ o.do = "update" =>
                    e = WithAPIs(c, [c.apis EXCEPT ![Store!IndexOf(c.apis, o.to.id)] = o.to])
               /\ o.on = "apis" /\ o.do = "delete" =>
                    e = WithAPIs(c, RemoveAt(c.apis, Store!IndexOf(c.apis, o.id)))
               /\ o.do = "save" => e = WithSettings(c, o.to)
<1>1. PICK s, a, m : c = [settings |-> s, apis |-> a, maps |-> m]
  BY ConfigsAreDrafts, DraftParts
<1>2. \A list : [c EXCEPT !["maps"] = list] = WithMapList(c, list)
  <2>1. \A list : WithMapList(c, list) = [settings |-> s, apis |-> a, maps |-> list]
    BY <1>1 DEF WithMapList
  <2> QED
    BY <1>1, <2>1, ConfigChanges
<1>3. \A list : [c EXCEPT !["apis"] = list] = WithAPIs(c, list)
  <2>1. \A list : WithAPIs(c, list) = [settings |-> s, apis |-> list, maps |-> m]
    BY <1>1 DEF WithAPIs
  <2> QED
    BY <1>1, <2>1, ConfigChanges
<1>4. \A x : [c EXCEPT !.settings = x] = WithSettings(c, x)
  <2>1. \A x : WithSettings(c, x) = [settings |-> x, apis |-> a, maps |-> m]
    BY <1>1 DEF WithSettings
  <2> QED
    BY <1>1, <2>1, ConfigChanges
<1>5. c["maps"] = c.maps /\ c["apis"] = c.apis
  OBVIOUS
<1> DEFINE e == Store!Edited(c, o)
<1>6. ASSUME o.do = "create", o.on = "maps" PROVE e = WithMapList(c, Append(c.maps, o.to))
  BY <1>2, <1>5, <1>6 DEF Store!Edited
<1>7. ASSUME o.do = "create", o.on = "apis" PROVE e = WithAPIs(c, Append(c.apis, o.to))
  BY <1>3, <1>5, <1>7 DEF Store!Edited
<1>8. ASSUME o.do = "update", o.on = "maps"
      PROVE  e = WithMapAt(c, Store!IndexOf(c.maps, o.to.id), o.to)
  BY <1>2, <1>5, <1>8 DEF Store!Edited, Store!Replaced, WithMapAt
<1>9. ASSUME o.do = "update", o.on = "apis"
      PROVE  e = WithAPIs(c, [c.apis EXCEPT ![Store!IndexOf(c.apis, o.to.id)] = o.to])
  BY <1>3, <1>5, <1>9 DEF Store!Edited, Store!Replaced
<1>10. ASSUME o.do = "delete", o.on = "maps"
       PROVE  e = WithMapList(c, RemoveAt(c.maps, Store!IndexOf(c.maps, o.id)))
  <2>1. e = [c EXCEPT ![o.on] = Store!Removed(@, o.id)]
    BY <1>10 DEF Store!Edited
  <2> HIDE DEF e
  <2> QED
    BY <1>2, <1>5, <1>10, <2>1, SameRemoveAt, Zenon DEF Store!Removed
<1>11. ASSUME o.do = "delete", o.on = "apis"
       PROVE  e = WithAPIs(c, RemoveAt(c.apis, Store!IndexOf(c.apis, o.id)))
  <2>1. e = [c EXCEPT ![o.on] = Store!Removed(@, o.id)]
    BY <1>11 DEF Store!Edited
  <2> HIDE DEF e
  <2> QED
    BY <1>3, <1>5, <1>11, <2>1, SameRemoveAt, Zenon DEF Store!Removed
<1>12. ASSUME o.do = "save" PROVE e = WithSettings(c, o.to)
  BY <1>4, <1>12 DEF Store!Edited
<1> QED
  BY <1>6, <1>7, <1>8, <1>9, <1>10, <1>11, <1>12

\* A created id is new.
LEMMA AppendedDistinct ==
    ASSUME NEW S, NEW s \in Seq(S), NEW x \in S, DistinctIds(s), ~ Store!Has(s, x.id)
    PROVE  DistinctIds(Append(s, x))
<1> DEFINE N == Len(s)
<1>1. /\ N \in Nat /\ Len(Append(s, x)) = N + 1
      /\ \A i \in 1 .. N : Append(s, x)[i] = s[i]
      /\ Append(s, x)[N + 1] = x
      /\ 1 .. Len(Append(s, x)) = 1 .. N \cup {N + 1}
  BY Appended
<1>2. \A i \in 1 .. N : s[i].id # x.id
  BY LenProperties DEF Store!Has
<1>3. \A i, j \in 1 .. N : s[i].id = s[j].id => i = j
  BY DEF DistinctIds
<1> HIDE DEF N
<1> QED
  BY <1>1, <1>2, <1>3 DEF DistinctIds

\* An updated item keeps its id.
LEMMA ReplacedDistinct ==
    ASSUME NEW S, NEW s \in Seq(S), NEW x \in S, NEW p \in 1 .. Len(s), DistinctIds(s),
           s[p].id = x.id
    PROVE  [s EXCEPT ![p] = x] \in Seq(S) /\ DistinctIds([s EXCEPT ![p] = x])
<1>1. /\ [s EXCEPT ![p] = x] \in Seq(S) /\ Len([s EXCEPT ![p] = x]) = Len(s)
      /\ \A i \in 1 .. Len(s) : [s EXCEPT ![p] = x][i] = IF i = p THEN x ELSE s[i]
  BY ExceptSeq, LenProperties
<1>2. \A i \in 1 .. Len(s) : [s EXCEPT ![p] = x][i].id = s[i].id
  BY <1>1
<1> QED
  BY <1>1, <1>2 DEF DistinctIds

\* What Accepts lets through leaves no id twice.
LEMMA EditedInConfigs ==
    ASSUME NEW c \in Configs, NEW o \in Store!Ops, Store!Accepts(c, o)
    PROVE  Store!Edited(c, o) \in Configs
<1> DEFINE e == Store!Edited(c, o)
<1>1. /\ c.apis \in Seq(Store!API) /\ c.maps \in Seq(Store!MapTarget)
      /\ c.settings \in Settings \cup {NoSettings}
      /\ DistinctIds(c.apis) /\ DistinctIds(c.maps)
  BY ConfigsAreDrafts
<1>2. ASSUME NEW list \in Seq(Store!MapTarget), DistinctIds(list)
      PROVE  WithMapList(c, list) \in Configs
  BY <1>1, <1>2 DEF Configs, WithMapList
<1>3. ASSUME NEW list \in Seq(Store!API), DistinctIds(list)
      PROVE  WithAPIs(c, list) \in Configs
  BY <1>1, <1>3 DEF Configs, WithAPIs
<1>4. c["maps"] = c.maps /\ c["apis"] = c.apis
  OBVIOUS
<1>5. CASE o.on = "maps" /\ o.do = "create" /\ o.to \in Store!MapTarget
  <2>1. e = WithMapList(c, Append(c.maps, o.to))
    BY <1>5, EditedIs
  <2>2. ~ Store!Has(c.maps, o.to.id)
    BY <1>4, <1>5 DEF Store!Accepts
  <2>3. Append(c.maps, o.to) \in Seq(Store!MapTarget) /\ DistinctIds(Append(c.maps, o.to))
    BY <1>1, <1>5, <2>2, AppendedDistinct, Appended
  <2> QED
    BY <1>2, <2>1, <2>3
<1>6. CASE o.on = "maps" /\ o.do = "update" /\ o.to \in Store!MapTarget
  <2> DEFINE p == Store!IndexOf(c.maps, o.to.id)
  <2>1. e = WithMapList(c, [c.maps EXCEPT ![p] = o.to])
    BY <1>6, EditedIs DEF WithMapAt
  <2>2. Store!Has(c.maps, o.to.id)
    BY <1>4, <1>6 DEF Store!Accepts
  <2>3. p \in 1 .. Len(c.maps) /\ c.maps[p].id = o.to.id
    BY <1>1, <2>2, IndexOfIs
  <2> HIDE DEF p
  <2>4. /\ [c.maps EXCEPT ![p] = o.to] \in Seq(Store!MapTarget)
        /\ DistinctIds([c.maps EXCEPT ![p] = o.to])
    BY <1>1, <1>6, <2>3, ReplacedDistinct
  <2> QED
    BY <1>2, <2>1, <2>4
<1>7. CASE o.on = "maps" /\ o.do = "delete"
  <2> DEFINE p == Store!IndexOf(c.maps, o.id)
  <2>1. e = WithMapList(c, RemoveAt(c.maps, p))
    BY <1>7, EditedIs
  <2>2. Store!Has(c.maps, o.id)
    BY <1>4, <1>7 DEF Store!Accepts
  <2>3. p \in 1 .. Len(c.maps)
    BY <1>1, <2>2, IndexOfIs
  <2> HIDE DEF p
  <2>4. RemoveAt(c.maps, p) \in Seq(Store!MapTarget) /\ DistinctIds(RemoveAt(c.maps, p))
    BY <1>1, <2>3, RemovedDistinct, RemoveAtItems
  <2> QED
    BY <1>2, <2>1, <2>4
<1>8. CASE o.on = "apis" /\ o.do = "create" /\ o.to \in Store!API
  <2>1. e = WithAPIs(c, Append(c.apis, o.to))
    BY <1>8, EditedIs
  <2>2. ~ Store!Has(c.apis, o.to.id)
    BY <1>4, <1>8 DEF Store!Accepts
  <2>3. Append(c.apis, o.to) \in Seq(Store!API) /\ DistinctIds(Append(c.apis, o.to))
    BY <1>1, <1>8, <2>2, AppendedDistinct, Appended
  <2> QED
    BY <1>3, <2>1, <2>3
<1>9. CASE o.on = "apis" /\ o.do = "update" /\ o.to \in Store!API
  <2> DEFINE p == Store!IndexOf(c.apis, o.to.id)
  <2>1. e = WithAPIs(c, [c.apis EXCEPT ![p] = o.to])
    BY <1>9, EditedIs
  <2>2. Store!Has(c.apis, o.to.id)
    BY <1>4, <1>9 DEF Store!Accepts
  <2>3. p \in 1 .. Len(c.apis) /\ c.apis[p].id = o.to.id
    BY <1>1, <2>2, IndexOfIs
  <2> HIDE DEF p
  <2>4. /\ [c.apis EXCEPT ![p] = o.to] \in Seq(Store!API)
        /\ DistinctIds([c.apis EXCEPT ![p] = o.to])
    BY <1>1, <1>9, <2>3, ReplacedDistinct
  <2> QED
    BY <1>3, <2>1, <2>4
<1>10. CASE o.on = "apis" /\ o.do = "delete"
  <2> DEFINE p == Store!IndexOf(c.apis, o.id)
  <2>1. e = WithAPIs(c, RemoveAt(c.apis, p))
    BY <1>10, EditedIs
  <2>2. Store!Has(c.apis, o.id)
    BY <1>4, <1>10 DEF Store!Accepts
  <2>3. p \in 1 .. Len(c.apis)
    BY <1>1, <2>2, IndexOfIs
  <2> HIDE DEF p
  <2>4. RemoveAt(c.apis, p) \in Seq(Store!API) /\ DistinctIds(RemoveAt(c.apis, p))
    BY <1>1, <2>3, RemovedDistinct, RemoveAtItems
  <2> QED
    BY <1>3, <2>1, <2>4
<1>11. CASE o.on = "database" /\ o.do = "save" /\ o.to \in Settings
  <2>1. e = WithSettings(c, o.to)
    BY <1>11, EditedIs
  <2> QED
    BY <1>1, <1>11, <2>1 DEF Configs, WithSettings
<1> QED
  BY <1>5, <1>6, <1>7, <1>8, <1>9, <1>10, <1>11, OpKinds

-----------------------------------------------------------------------------
(* The statements of an edit.                                               *)

\* A row created goes after the rows there are.
LEMMA NextOrderIs ==
    ASSUME NEW rows, NEW n \in Nat, NEW orders \in Seq(Nat), Len(orders) = n,
           \A i, j \in 1 .. n : i < j => orders[i] < orders[j],
           {r.order : r \in rows} = {orders[i] : i \in 1 .. n}
    PROVE  NextOrder(rows) \in Nat /\ \A i \in 1 .. n : orders[i] < NextOrder(rows)
<1> DEFINE S == {r.order : r \in rows} \cup {-1}
<1>1. \A i \in 1 .. n : orders[i] \in Nat
  OBVIOUS
<1>2. \A y \in S : y = -1 \/ \E i \in 1 .. n : y = orders[i]
  OBVIOUS
<1>3. -1 \in S /\ \A i \in 1 .. n : orders[i] \in S
  OBVIOUS
<1> HIDE DEF S
<1>4. \E x \in S : \A y \in S : x >= y
  <2>1. CASE n = 0
    BY <1>2, <1>3, <2>1
  <2>2. CASE n # 0
    <3>1. n \in 1 .. n /\ \A i \in 1 .. n : orders[i] <= orders[n]
      BY <1>1, <2>2
    <3>2. orders[n] \in S /\ \A y \in S : orders[n] >= y
      BY <1>1, <1>2, <1>3, <3>1
    <3> QED
      BY <3>2
  <2> QED
    BY <2>1, <2>2
<1>5. \A y \in S : y \in Int /\ y >= -1
  BY <1>1, <1>2
<1>6. Max(S) \in S /\ \A y \in S : Max(S) >= y
  BY <1>4 DEF Max
<1>7. NextOrder(rows) = Max(S) + 1
  BY DEF NextOrder, S
<1> QED
  BY <1>1, <1>3, <1>5, <1>6, <1>7

\* A list of statements from its parts.
LEMMA TwoParts ==
    ASSUME NEW S, NEW s \in Seq(S), NEW u \in Seq(S)
    PROVE  /\ s \o u \in Seq(S) /\ Len(s \o u) = Len(s) + Len(u)
           /\ \A i \in 1 .. Len(s) : (s \o u)[i] = s[i]
           /\ \A j \in 1 .. Len(u) : (s \o u)[Len(s) + j] = u[j]
<1>1. /\ s \o u \in Seq(S) /\ Len(s \o u) = Len(s) + Len(u)
      /\ \A i \in 1 .. Len(s) + Len(u) :
            (s \o u)[i] = IF i <= Len(s) THEN s[i] ELSE u[i - Len(s)]
  BY ConcatProperties
<1> DEFINE n == Len(s)
           m == Len(u)
           r == s \o u
<1>2. n \in Nat /\ m \in Nat
  BY LenProperties
<1>3. \A i \in 1 .. n + m : r[i] = IF i <= n THEN s[i] ELSE u[i - n]
  BY <1>1
<1> HIDE DEF n, m, r
<1>4. \A i \in 1 .. n : r[i] = s[i]
  BY <1>2, <1>3
<1>5. \A j \in 1 .. m : r[n + j] = u[j]
  BY <1>2, <1>3
<1> QED
  BY <1>1, <1>4, <1>5 DEF n, m, r

\* Inserts, one per item.
LEMMA InsertsAre ==
    ASSUME NEW S, NEW list \in Seq(S), NEW do, NEW T,
           \A i \in 1 .. Len(list) : Stmt(do, list[i], i - 1) \in T
    PROVE  /\ Inserts(do, list) \in Seq(T) /\ Len(Inserts(do, list)) = Len(list)
           /\ Len(list) \in Nat
           /\ \A i \in 1 .. Len(list) : Inserts(do, list)[i] = Stmt(do, list[i], i - 1)
<1>1. DOMAIN list = 1 .. Len(list) /\ Len(list) \in Nat
  BY LenProperties
<1> DEFINE s == Inserts(do, list)
<1>2. s = [i \in 1 .. Len(list) |-> Stmt(do, list[i], i - 1)]
  BY <1>1, Zenon DEF Inserts
<1>3. s \in [1 .. Len(list) -> T]
  BY <1>2
<1> HIDE DEF s
<1>4. s \in Seq(T) /\ Len(s) = Len(list)
  BY <1>1, <1>3, IsASeq, LenProperties
<1>5. \A i \in 1 .. Len(list) : s[i] = Stmt(do, list[i], i - 1)
  BY <1>2
<1> QED
  BY <1>1, <1>4, <1>5 DEF s

\* Where each statement of a Save is in the list.
LEMMA SaveStatementsAre ==
    ASSUME NEW c \in Draft
    PROVE  LET s == SaveStatements(c)
               n == Len(c.apis)
               m == Len(c.maps)
           IN  /\ \E S : s \in Seq(S)
               /\ Len(s) = 3 + n + m
               /\ s[1] = Stmt("saveScalar", c.settings, 0)
               /\ s[2] = Stmt("clearAPIs", 0, 0)
               /\ \A i \in 1 .. n : s[2 + i] = Stmt("insertAPI", c.apis[i], i - 1)
               /\ s[3 + n] = Stmt("clearMaps", 0, 0)
               /\ \A j \in 1 .. m : s[3 + n + j] = Stmt("insertMap", c.maps[j], j - 1)
<1> DEFINE n == Len(c.apis)
           m == Len(c.maps)
           A == <<Stmt("saveScalar", c.settings, 0), Stmt("clearAPIs", 0, 0)>>
           B == Inserts("insertAPI", c.apis)
           C == <<Stmt("clearMaps", 0, 0)>>
           D == Inserts("insertMap", c.maps)
           TB == {Stmt("insertAPI", c.apis[i], i - 1) : i \in 1 .. n}
           TD == {Stmt("insertMap", c.maps[i], i - 1) : i \in 1 .. m}
           S == {A[1], A[2], C[1]} \cup TB \cup TD
<1>1. c.apis \in Seq(APIs) /\ c.maps \in Seq(DraftMaps) /\ n \in Nat /\ m \in Nat
  <2>1. c.apis \in Seq(APIs) /\ c.maps \in Seq(DraftMaps)
    BY DEF Draft, APIs, DraftMaps
  <2> QED
    BY <2>1, LenProperties
<1>2. A \in Seq(S) /\ Len(A) = 2 /\ C \in Seq(S) /\ Len(C) = 1
  <2>1. A[1] \in S /\ A[2] \in S /\ C[1] \in S
    OBVIOUS
  <2>2. A = <<A[1], A[2]>> /\ C = <<C[1]>>
    OBVIOUS
  <2> HIDE DEF S
  <2> QED
    BY <2>1, <2>2
<1>3. /\ B \in Seq(S) /\ Len(B) = n
      /\ \A i \in 1 .. n : B[i] = Stmt("insertAPI", c.apis[i], i - 1)
  <2>1. \A i \in 1 .. n : Stmt("insertAPI", c.apis[i], i - 1) \in S
    OBVIOUS
  <2> HIDE DEF S
  <2> QED
    BY <1>1, <2>1, InsertsAre
<1>4. /\ D \in Seq(S) /\ Len(D) = m
      /\ \A i \in 1 .. m : D[i] = Stmt("insertMap", c.maps[i], i - 1)
  <2>1. \A i \in 1 .. m : Stmt("insertMap", c.maps[i], i - 1) \in S
    OBVIOUS
  <2> HIDE DEF S
  <2> QED
    BY <1>1, <2>1, InsertsAre
<1>5. /\ A[1] = Stmt("saveScalar", c.settings, 0) /\ A[2] = Stmt("clearAPIs", 0, 0)
      /\ C[1] = Stmt("clearMaps", 0, 0)
  OBVIOUS
<1>6. SaveStatements(c) = A \o B \o C \o D
  BY DEF SaveStatements
<1> HIDE DEF n, m, S, A, B, C, D
<1> DEFINE AB == A \o B
<1>7. /\ AB \in Seq(S) /\ Len(AB) = 2 + n
      /\ \A i \in 1 .. 2 : AB[i] = A[i]
      /\ \A i \in 1 .. n : AB[2 + i] = B[i]
  <2>0. A \in Seq(S) /\ B \in Seq(S)
    BY <1>2, <1>3
  <2>1. /\ AB \in Seq(S) /\ Len(AB) = Len(A) + Len(B)
        /\ \A i \in 1 .. Len(A) : AB[i] = A[i]
        /\ \A i \in 1 .. Len(B) : AB[Len(A) + i] = B[i]
    BY <2>0, TwoParts, SMTT(60)
  <2> QED
    BY <1>2, <1>3, <2>1
<1> HIDE DEF AB
<1> DEFINE ABC == AB \o C
<1>8. /\ ABC \in Seq(S) /\ Len(ABC) = 3 + n
      /\ \A i \in 1 .. 2 + n : ABC[i] = AB[i]
      /\ ABC[3 + n] = C[1]
  <2>0. AB \in Seq(S) /\ C \in Seq(S)
    BY <1>2, <1>7
  <2>1. /\ ABC \in Seq(S) /\ Len(ABC) = Len(AB) + Len(C)
        /\ \A i \in 1 .. Len(AB) : ABC[i] = AB[i]
        /\ \A i \in 1 .. Len(C) : ABC[Len(AB) + i] = C[i]
    BY <2>0, TwoParts, SMTT(60)
  <2>2. /\ ABC \in Seq(S) /\ Len(ABC) = 2 + n + 1
        /\ \A i \in 1 .. 2 + n : ABC[i] = AB[i]
        /\ \A i \in 1 .. 1 : ABC[2 + n + i] = C[i]
    BY <1>2, <1>7, <2>1
  <2>3. 1 \in 1 .. 1 /\ 2 + n + 1 = 3 + n
    BY <1>1
  <2> QED
    BY <2>2, <2>3
<1> HIDE DEF ABC
<1> DEFINE s == ABC \o D
<1>9. /\ s \in Seq(S) /\ Len(s) = 3 + n + m
      /\ \A i \in 1 .. 3 + n : s[i] = ABC[i]
      /\ \A i \in 1 .. m : s[3 + n + i] = D[i]
  <2>0. ABC \in Seq(S) /\ D \in Seq(S)
    BY <1>4, <1>8
  <2>1. /\ s \in Seq(S) /\ Len(s) = Len(ABC) + Len(D)
        /\ \A i \in 1 .. Len(ABC) : s[i] = ABC[i]
        /\ \A i \in 1 .. Len(D) : s[Len(ABC) + i] = D[i]
    BY <2>0, TwoParts, SMTT(60)
  <2> QED
    BY <1>4, <1>8, <2>1
<1>10. s = SaveStatements(c)
  BY <1>6 DEF AB, ABC
<1> HIDE DEF s
<1>11. /\ s[1] = A[1] /\ s[2] = A[2]
  BY <1>1, <1>7, <1>8, <1>9
<1>12. \A i \in 1 .. n : s[2 + i] = B[i]
  <2>1. \A i \in 1 .. n : 2 + i \in 1 .. 2 + n /\ 2 + i \in 1 .. 3 + n
    BY <1>1
  <2> QED
    BY <1>7, <1>8, <1>9, <2>1
<1>13. s[3 + n] = C[1]
  <2>1. 3 + n \in 1 .. 3 + n
    BY <1>1
  <2> QED
    BY <1>8, <1>9, <2>1
<1>14. \A i \in 1 .. n : s[2 + i] = Stmt("insertAPI", c.apis[i], i - 1)
  BY <1>3, <1>12
<1>15. \A i \in 1 .. m : s[3 + n + i] = Stmt("insertMap", c.maps[i], i - 1)
  BY <1>4, <1>9
<1> QED
  BY <1>5, <1>9, <1>10, <1>11, <1>13, <1>14, <1>15 DEF n, m

\* Where each statement of an UpdateMap is in the list.
LEMMA UpdateStatementsAre ==
    ASSUME NEW x \in DraftMaps
    PROVE  LET s == UpdateMapStatements(x)
               n == Len(x.versions)
           IN  /\ \E S : s \in Seq(S)
               /\ Len(s) = 4 + n
               /\ s[1] = Stmt("updateMap", x, 0)
               /\ s[2] = Stmt("clearVersions", x.id, 0)
               /\ s[3] = Stmt("clearStatics", x.id, 0)
               /\ \A i \in 1 .. n : s[3 + i] =
                    Stmt("insertVersion", [id |-> x.id, version |-> x.versions[i]], i - 1)
               /\ s[4 + n] = Stmt("insertStatics", x, 0)
<1> DEFINE n == Len(x.versions)
           I(i) == Stmt("insertVersion", [id |-> x.id, version |-> x.versions[i]], i - 1)
           A == << Stmt("updateMap", x, 0), Stmt("clearVersions", x.id, 0),
                   Stmt("clearStatics", x.id, 0) >>
           B == [i \in DOMAIN x.versions |-> I(i)]
           C == <<Stmt("insertStatics", x, 0)>>
           TB == {I(i) : i \in 1 .. n}
           S == {A[1], A[2], A[3], C[1]} \cup TB
<1>1. x.versions \in Seq(STRING) /\ n \in Nat /\ DOMAIN x.versions = 1 .. n
  <2>1. x.versions \in Seq(STRING)
    BY DEF DraftMaps
  <2> QED
    BY <2>1, LenProperties
<1>2. A \in Seq(S) /\ Len(A) = 3 /\ C \in Seq(S) /\ Len(C) = 1
  <2>1. A[1] \in S /\ A[2] \in S /\ A[3] \in S /\ C[1] \in S
    OBVIOUS
  <2>2. A = <<A[1], A[2], A[3]>> /\ C = <<C[1]>>
    OBVIOUS
  <2> HIDE DEF S
  <2> QED
    BY <2>1, <2>2
<1>3. B \in Seq(S) /\ Len(B) = n /\ \A i \in 1 .. n : B[i] = I(i)
  <2>1. \A i \in 1 .. n : I(i) \in S
    OBVIOUS
  <2> HIDE DEF S, I, n
  <2>2. B \in [1 .. n -> S]
    BY <1>1, <2>1
  <2>3. \A i \in 1 .. n : B[i] = I(i)
    BY <1>1
  <2> HIDE DEF B
  <2> QED
    BY <1>1, <2>2, <2>3, IsASeq, LenProperties
<1>4. /\ A[1] = Stmt("updateMap", x, 0) /\ A[2] = Stmt("clearVersions", x.id, 0)
      /\ A[3] = Stmt("clearStatics", x.id, 0) /\ C[1] = Stmt("insertStatics", x, 0)
  OBVIOUS
<1>5. UpdateMapStatements(x) = A \o B \o C
  BY DEF UpdateMapStatements
<1> HIDE DEF n, S, A, B, C, I
<1> DEFINE AB == A \o B
<1>6. /\ AB \in Seq(S) /\ Len(AB) = 3 + n
      /\ \A i \in 1 .. 3 : AB[i] = A[i]
      /\ \A i \in 1 .. n : AB[3 + i] = B[i]
  <2>0. A \in Seq(S) /\ B \in Seq(S)
    BY <1>2, <1>3
  <2>1. /\ AB \in Seq(S) /\ Len(AB) = Len(A) + Len(B)
        /\ \A i \in 1 .. Len(A) : AB[i] = A[i]
        /\ \A i \in 1 .. Len(B) : AB[Len(A) + i] = B[i]
    BY <2>0, TwoParts, SMTT(60)
  <2> QED
    BY <1>2, <1>3, <2>1
<1> HIDE DEF AB
<1> DEFINE s == AB \o C
<1>7. /\ s \in Seq(S) /\ Len(s) = 4 + n
      /\ \A i \in 1 .. 3 + n : s[i] = AB[i]
      /\ s[4 + n] = C[1]
  <2>0. AB \in Seq(S) /\ C \in Seq(S)
    BY <1>2, <1>6
  <2>1. /\ s \in Seq(S) /\ Len(s) = Len(AB) + Len(C)
        /\ \A i \in 1 .. Len(AB) : s[i] = AB[i]
        /\ \A i \in 1 .. Len(C) : s[Len(AB) + i] = C[i]
    BY <2>0, TwoParts, SMTT(60)
  <2>2. /\ s \in Seq(S) /\ Len(s) = 3 + n + 1
        /\ \A i \in 1 .. 3 + n : s[i] = AB[i]
        /\ \A i \in 1 .. 1 : s[3 + n + i] = C[i]
    BY <1>2, <1>6, <2>1
  <2>3. 1 \in 1 .. 1 /\ 3 + n + 1 = 4 + n
    BY <1>1
  <2> QED
    BY <2>2, <2>3
<1>8. s = UpdateMapStatements(x)
  BY <1>5 DEF AB
<1> HIDE DEF s
<1>9. s[1] = A[1] /\ s[2] = A[2] /\ s[3] = A[3]
  BY <1>1, <1>6, <1>7
<1>10. \A i \in 1 .. n : s[3 + i] = I(i)
  <2>1. \A i \in 1 .. n : 3 + i \in 1 .. 3 + n
    BY <1>1
  <2> QED
    BY <1>3, <1>6, <1>7, <2>1
<1> QED
  BY <1>4, <1>7, <1>8, <1>9, <1>10 DEF n, I

-----------------------------------------------------------------------------
(* How far an edit has come.                                                *)

Shows(t, c) == c \in Draft /\ \E l \in Layouts(c) : t = TablesOf(c, l)

\* Save, once the old APIs are gone: the first i are back, in the orders 0 to i - 1.
WithFirstAPIs(c, i) == WithAPIs(c, SubSeq(c.apis, 1, i))

APIsBack(c, i, t) ==
    /\ WithFirstAPIs(c, i) \in Draft
    /\ \E l \in Layouts(WithFirstAPIs(c, i)) :
            t = TablesOf(WithFirstAPIs(c, i), l) /\ \A x \in 1 .. i : l.apis[x] < i

\* The same of the maps.
WithFirstMaps(c, i) == WithMapList(c, SubSeq(c.maps, 1, i))

MapsBack(c, i, t) ==
    /\ WithFirstMaps(c, i) \in Draft
    /\ \E l \in Layouts(WithFirstMaps(c, i)) :
            t = TablesOf(WithFirstMaps(c, i), l) /\ \A x \in 1 .. i : l.maps[x] < i

\* A list built up from its items.
LEMMA FirstItems ==
    ASSUME NEW S, NEW s \in Seq(S)
    PROVE  /\ Len(s) \in Nat
           /\ SubSeq(s, 1, 0) = <<>> /\ SubSeq(s, 1, Len(s)) = s
           /\ \A i \in 0 .. Len(s) : SubSeq(s, 1, i) \in Seq(S) /\ Len(SubSeq(s, 1, i)) = i
           /\ \A i \in 0 .. (Len(s) - 1) :
                /\ s[i + 1] \in S
                /\ SubSeq(s, 1, i + 1) = Append(SubSeq(s, 1, i), s[i + 1])
<1>1. Len(s) \in Nat /\ \A i \in 1 .. Len(s) : s[i] \in S
  BY LenProperties
<1>2. SubSeq(s, 1, 0) = <<>>
  BY SubSeqEmpty
<1>3. SubSeq(s, 1, Len(s)) = s
  BY SubSeqFull
<1>4. ASSUME NEW i \in 0 .. Len(s)
      PROVE  SubSeq(s, 1, i) \in Seq(S) /\ Len(SubSeq(s, 1, i)) = i
  <2>1. \A j \in 1 .. i : s[j] \in S
    BY <1>1
  <2>2. /\ SubSeq(s, 1, i) \in Seq(S)
        /\ Len(SubSeq(s, 1, i)) = IF 1 <= i THEN i - 1 + 1 ELSE 0
    BY <1>1, <2>1, SubSeqProperties
  <2> QED
    BY <1>1, <2>2
<1>5. ASSUME NEW i \in 0 .. (Len(s) - 1)
      PROVE  s[i + 1] \in S /\ SubSeq(s, 1, i + 1) = Append(SubSeq(s, 1, i), s[i + 1])
  <2>1. i + 1 \in 1 .. Len(s) /\ 1 \in 1 .. Len(s) /\ i \in 0 .. Len(s) /\ i + 1 - 1 = i
    BY <1>1
  <2>2. SubSeq(s, 1, i + 1) = SubSeq(s, 1, i + 1 - 1) \o <<s[i + 1]>>
    BY <2>1, SubSeqRecursiveSecond
  <2>3. SubSeq(s, 1, i) \in Seq(S) /\ s[i + 1] \in S
    BY <1>1, <1>4, <2>1
  <2>4. Append(SubSeq(s, 1, i), s[i + 1]) = SubSeq(s, 1, i) \o <<s[i + 1]>>
    BY <2>3, AppendIsConcat
  <2> QED
    BY <2>1, <2>2, <2>3, <2>4
<1> QED
  BY <1>1, <1>2, <1>3, <1>4, <1>5

\* Save deletes the APIs.
LEMMA NoAPIsBack ==
    ASSUME NEW c \in Draft, NEW t, Shows(t, c)
    PROVE  APIsBack(c, 0, [t EXCEPT !.apis = {}])
<1>1. PICK l \in Layouts(c) : t = TablesOf(c, l)
  BY DEF Shows
<1> DEFINE d == WithAPIs(c, <<>>)
           m == LayAPIs(l, <<>>)
<1>2. d \in Draft /\ m \in Layouts(d) /\ [t EXCEPT !.apis = {}] = TablesOf(d, m)
  BY <1>1, ClearAPIsShows
<1>3. WithFirstAPIs(c, 0) = d
  <2>1. SubSeq(c.apis, 1, 0) = <<>>
    BY SubSeqEmpty
  <2> QED
    BY <2>1 DEF WithFirstAPIs
<1>4. \A x \in 1 .. 0 : m.apis[x] < 0
  OBVIOUS
<1> HIDE DEF d, m
<1> QED
  BY <1>2, <1>3, <1>4 DEF APIsBack

\* It inserts one more.
LEMMA OneAPIBack ==
    ASSUME NEW c \in Draft, NEW i \in 0 .. (Len(c.apis) - 1), NEW t, APIsBack(c, i, t)
    PROVE  APIsBack(c, i + 1, InsertAPI(t, c.apis[i + 1], i))
<1> DEFINE d == WithFirstAPIs(c, i)
           a == c.apis[i + 1]
<1>1. PICK l \in Layouts(d) : t = TablesOf(d, l) /\ \A x \in 1 .. i : l.apis[x] < i
  BY DEF APIsBack
<1>2. /\ c.apis \in Seq(APIs) /\ SubSeq(c.apis, 1, i) \in Seq(APIs)
      /\ Len(SubSeq(c.apis, 1, i)) = i /\ a \in APIs /\ i \in Nat
      /\ SubSeq(c.apis, 1, i + 1) = Append(SubSeq(c.apis, 1, i), a)
  <2>1. c.apis \in Seq(APIs)
    BY DEF Draft, APIs
  <2>2. i \in 0 .. Len(c.apis) /\ i \in Nat
    BY DraftParts
  <2> QED
    BY <2>1, <2>2, FirstItems
<1>3. /\ d.settings = c.settings /\ d.apis = SubSeq(c.apis, 1, i) /\ d.maps = c.maps
      /\ d \in Draft
  BY <1>2 DEF WithFirstAPIs, WithAPIs, Draft, APIs
<1> DEFINE e == WithAPIs(d, Append(d.apis, a))
           m == LayAPIs(l, Append(l.apis, i))
<1>4. e = WithFirstAPIs(c, i + 1)
  BY <1>2, <1>3 DEF WithAPIs, WithFirstAPIs
<1> HIDE DEF d, a
<1>5. e \in Draft /\ m \in Layouts(e) /\ InsertAPI(t, a, i) = TablesOf(e, m)
  <2>1. \A x \in 1 .. Len(d.apis) : l.apis[x] < i
    BY <1>1, <1>2, <1>3
  <2> QED
    BY <1>1, <1>2, <1>3, <2>1, InsertAPIShows
<1>6. \A x \in 1 .. i + 1 : m.apis[x] < i + 1
  <2>1. l.apis \in Seq(Nat) /\ Len(l.apis) = i
    BY <1>2, <1>3, LayoutParts
  <2>2. /\ \A x \in 1 .. i : Append(l.apis, i)[x] = l.apis[x] /\ l.apis[x] \in Nat
        /\ Append(l.apis, i)[i + 1] = i
    BY <1>2, <2>1, Appended, SMTT(60)
  <2>3. m.apis = Append(l.apis, i)
    BY DEF LayAPIs
  <2> HIDE DEF m
  <2>4. ASSUME NEW x \in 1 .. i PROVE m.apis[x] < i + 1
    <3>1. m.apis[x] = l.apis[x] /\ l.apis[x] \in Nat /\ l.apis[x] < i
      BY <1>1, <2>2, <2>3
    <3> QED
      BY <1>2, <3>1
  <2>5. m.apis[i + 1] < i + 1
    <3>1. m.apis[i + 1] = i
      BY <2>2, <2>3
    <3>2. i \in Nat
      BY <1>2
    <3> QED
      BY <3>1, <3>2
  <2>6. \A x \in 1 .. i + 1 : x \in 1 .. i \/ x = i + 1
    BY <1>2
  <2> QED
    BY <2>4, <2>5, <2>6
<1> HIDE DEF e, m
<1> QED
  BY <1>4, <1>5, <1>6 DEF APIsBack, a

\* All of them are back.
LEMMA AllAPIsBack ==
    ASSUME NEW c \in Draft, NEW t, APIsBack(c, Len(c.apis), t)
    PROVE  Shows(t, c)
<1>1. SubSeq(c.apis, 1, Len(c.apis)) = c.apis
  <2>1. c.apis \in Seq(APIs)
    BY DEF Draft, APIs
  <2> QED
    BY <2>1, FirstItems
<1>2. WithFirstAPIs(c, Len(c.apis)) = c
  BY <1>1, DraftParts DEF WithFirstAPIs, WithAPIs
<1> QED
  BY <1>2 DEF APIsBack, Shows

\* Save deletes the maps.
LEMMA NoMapsBack ==
    ASSUME NEW c \in Draft, NEW t, Shows(t, c)
    PROVE  MapsBack(c, 0, WithoutMaps(t, t.maps))
<1>1. PICK l \in Layouts(c) : t = TablesOf(c, l)
  BY DEF Shows
<1> DEFINE d == WithMapList(c, <<>>)
           m == LayMaps(l, <<>>, <<>>, l.last)
<1>2. d \in Draft /\ m \in Layouts(d) /\ WithoutMaps(t, t.maps) = TablesOf(d, m)
  BY <1>1, ClearMapsShows
<1>3. WithFirstMaps(c, 0) = d
  <2>1. SubSeq(c.maps, 1, 0) = <<>>
    BY SubSeqEmpty
  <2> QED
    BY <2>1 DEF WithFirstMaps
<1>4. \A x \in 1 .. 0 : m.maps[x] < 0
  OBVIOUS
<1> HIDE DEF d, m
<1> QED
  BY <1>2, <1>3, <1>4 DEF MapsBack

\* It inserts one more.
LEMMA OneMapBack ==
    ASSUME NEW c \in Draft, NEW i \in 0 .. (Len(c.maps) - 1), NEW t, MapsBack(c, i, t)
    PROVE  MapsBack(c, i + 1, InsertMap(t, c.maps[i + 1], i))
<1> DEFINE d == WithFirstMaps(c, i)
           a == c.maps[i + 1]
<1>1. PICK l \in Layouts(d) : t = TablesOf(d, l) /\ \A x \in 1 .. i : l.maps[x] < i
  BY DEF MapsBack
<1>2. /\ c.maps \in Seq(DraftMaps) /\ SubSeq(c.maps, 1, i) \in Seq(DraftMaps)
      /\ Len(SubSeq(c.maps, 1, i)) = i /\ a \in DraftMaps /\ i \in Nat
      /\ SubSeq(c.maps, 1, i + 1) = Append(SubSeq(c.maps, 1, i), a)
  <2>1. c.maps \in Seq(DraftMaps)
    BY DEF Draft, DraftMaps
  <2>2. i \in 0 .. Len(c.maps) /\ i \in Nat
    BY DraftParts
  <2> QED
    BY <2>1, <2>2, FirstItems
<1>3. /\ d.settings = c.settings /\ d.apis = c.apis /\ d.maps = SubSeq(c.maps, 1, i)
      /\ d \in Draft
  BY <1>2 DEF WithFirstMaps, WithMapList, Draft, DraftMaps
<1> DEFINE e == WithMapList(d, Append(d.maps, a))
           m == LayMaps(l, Append(l.maps, i), Append(l.rows, l.last + 1), l.last + 1)
<1>4. e = WithFirstMaps(c, i + 1)
  BY <1>2, <1>3 DEF WithMapList, WithFirstMaps
<1> HIDE DEF d, a
<1>5. e \in Draft /\ m \in Layouts(e) /\ InsertMap(t, a, i) = TablesOf(e, m)
  <2>1. \A x \in 1 .. Len(d.maps) : l.maps[x] < i
    BY <1>1, <1>2, <1>3
  <2> QED
    BY <1>1, <1>2, <1>3, <2>1, InsertMapShows
<1>6. \A x \in 1 .. i + 1 : m.maps[x] < i + 1
  <2>1. l.maps \in Seq(Nat) /\ Len(l.maps) = i
    BY <1>2, <1>3, LayoutParts
  <2>2. /\ \A x \in 1 .. i : Append(l.maps, i)[x] = l.maps[x] /\ l.maps[x] \in Nat
        /\ Append(l.maps, i)[i + 1] = i
    BY <1>2, <2>1, Appended, SMTT(60)
  <2>3. m.maps = Append(l.maps, i)
    BY DEF LayMaps
  <2> HIDE DEF m
  <2>4. ASSUME NEW x \in 1 .. i PROVE m.maps[x] < i + 1
    <3>1. m.maps[x] = l.maps[x] /\ l.maps[x] \in Nat /\ l.maps[x] < i
      BY <1>1, <2>2, <2>3
    <3> QED
      BY <1>2, <3>1
  <2>5. m.maps[i + 1] < i + 1
    <3>1. m.maps[i + 1] = i
      BY <2>2, <2>3
    <3>2. i \in Nat
      BY <1>2
    <3> QED
      BY <3>1, <3>2
  <2>6. \A x \in 1 .. i + 1 : x \in 1 .. i \/ x = i + 1
    BY <1>2
  <2> QED
    BY <2>4, <2>5, <2>6
<1> HIDE DEF e, m
<1> QED
  BY <1>4, <1>5, <1>6 DEF MapsBack, a

\* All of them are back.
LEMMA AllMapsBack ==
    ASSUME NEW c \in Draft, NEW t, MapsBack(c, Len(c.maps), t)
    PROVE  Shows(t, c)
<1>1. SubSeq(c.maps, 1, Len(c.maps)) = c.maps
  <2>1. c.maps \in Seq(DraftMaps)
    BY DEF Draft, DraftMaps
  <2> QED
    BY <2>1, FirstItems
<1>2. WithFirstMaps(c, Len(c.maps)) = c
  BY <1>1, DraftParts DEF WithFirstMaps, WithMapList
<1> QED
  BY <1>2 DEF MapsBack, Shows

\* A map in the middle of its update is replaced again by the next statement.
LEMMA ReplacedAgain ==
    ASSUME NEW c \in Draft, DistinctIds(c.maps), NEW p \in 1 .. Len(c.maps),
           NEW x \in DraftMaps, x.id = c.maps[p].id, NEW t, Shows(t, WithMapAt(c, p, x))
    PROVE  LET d == WithMapAt(c, p, x)
           IN  /\ d \in Draft /\ DistinctIds(d.maps) /\ p \in 1 .. Len(d.maps) /\ d.maps[p] = x
               /\ \E l \in Layouts(d) : t = TablesOf(d, l)
               /\ \A y : WithMapAt(d, p, y) = WithMapAt(c, p, y)
<1> DEFINE d == WithMapAt(c, p, x)
<1>1. PICK l \in Layouts(d) : t = TablesOf(d, l)
  BY DEF Shows
<1>2. c.maps \in Seq(DraftMaps) /\ DOMAIN c.maps = 1 .. Len(c.maps) /\ Len(c.maps) \in Nat
  <2>1. c.maps \in Seq(DraftMaps)
    BY DEF Draft, DraftMaps
  <2> QED
    BY <2>1, LenProperties
<1>3. d.settings = c.settings /\ d.apis = c.apis /\ d.maps = [c.maps EXCEPT ![p] = x]
  BY DEF WithMapAt, WithMapList
<1>4. /\ d.maps \in Seq(DraftMaps) /\ Len(d.maps) = Len(c.maps) /\ d.maps[p] = x
      /\ \A i \in 1 .. Len(c.maps) : i # p => d.maps[i] = c.maps[i]
  BY <1>2, <1>3, ExceptSeq
<1>5. d \in Draft
  BY <1>4 DEF Draft, DraftMaps, WithMapAt, WithMapList
<1>6. DistinctIds(d.maps)
  BY <1>2, <1>3, ReplacedDistinct
<1>7. \A y : [[c.maps EXCEPT ![p] = x] EXCEPT ![p] = y] = [c.maps EXCEPT ![p] = y]
  BY <1>2
<1>8. \A y : WithMapAt(d, p, y) = WithMapAt(c, p, y)
  BY <1>3, <1>7, Zenon DEF WithMapAt, WithMapList
<1> QED
  BY <1>1, <1>4, <1>5, <1>6, <1>8

\* The map after the first k statements of its update, the last one excepted.
MapAfter(old, new, k) ==
    MapOf(new.id, new.detail,
          IF k = 1 THEN old.versions ELSE SubSeq(new.versions, 1, k - 3),
          IF k < 3 THEN old.statics ELSE {})

\* The stages of the map being updated.
LEMMA MapAfterIs ==
    ASSUME NEW old, NEW new
    PROVE  /\ MapAfter(old, new, 1) = MapOf(new.id, new.detail, old.versions, old.statics)
           /\ MapAfter(old, new, 2) = MapOf(new.id, new.detail, <<>>, old.statics)
           /\ MapAfter(old, new, 3) = MapOf(new.id, new.detail, <<>>, {})
           /\ \A i \in Nat : MapAfter(old, new, 3 + i) =
                MapOf(new.id, new.detail, SubSeq(new.versions, 1, i), {})
<1> DEFINE vs == new.versions
<1>1. \A n \in Int : n < 1 => SubSeq(vs, 1, n) = <<>>
  BY SubSeqEmpty
<1> HIDE DEF vs
<1>2. SubSeq(vs, 1, 2 - 3) = <<>> /\ SubSeq(vs, 1, 3 - 3) = <<>>
  BY <1>1
<1>3. MapAfter(old, new, 1) = MapOf(new.id, new.detail, old.versions, old.statics)
  BY DEF MapAfter
<1>4. /\ MapAfter(old, new, 2) = MapOf(new.id, new.detail, SubSeq(vs, 1, 2 - 3), old.statics)
      /\ MapAfter(old, new, 3) = MapOf(new.id, new.detail, SubSeq(vs, 1, 3 - 3), {})
  BY DEF MapAfter, vs
<1>5. ASSUME NEW i \in Nat
      PROVE  MapAfter(old, new, 3 + i) = MapOf(new.id, new.detail, SubSeq(vs, 1, i), {})
  <2> DEFINE k == 3 + i
  <2>1. k # 1 /\ ~ (k < 3) /\ k - 3 = i
    OBVIOUS
  <2> HIDE DEF k
  <2>2. MapAfter(old, new, k) = MapOf(new.id, new.detail, SubSeq(vs, 1, i), {})
    BY <2>1, Zenon DEF MapAfter, vs
  <2> QED
    BY <2>2 DEF k
<1> QED
  BY <1>2, <1>3, <1>4, <1>5 DEF vs

\* What a map is.
LEMMA DraftMapParts ==
    ASSUME NEW x \in DraftMaps
    PROVE  /\ x.id \in MapId /\ x.detail \in Details
           /\ x.versions \in Seq(STRING) /\ x.statics \subseteq Columns
           /\ x = MapOf(x.id, x.detail, x.versions, x.statics)
BY DEF DraftMaps, MapOf

\* A map of its parts.
LEMMA MapOfIs ==
    ASSUME NEW id \in MapId, NEW detail \in Details, NEW versions \in Seq(STRING),
           NEW statics \in SUBSET Columns
    PROVE  MapOf(id, detail, versions, statics) \in DraftMaps
BY DEF DraftMaps, MapOf

\* The stages of UpdateMap: the row's columns,
LEMMA DetailUpdated ==
    ASSUME NEW c \in Draft, DistinctIds(c.maps), NEW p \in 1 .. Len(c.maps),
           NEW new \in DraftMaps, new.id = c.maps[p].id, NEW t, Shows(t, c)
    PROVE  Shows(UpdateMapRow(t, new), WithMapAt(c, p, MapAfter(c.maps[p], new, 1)))
<1>1. PICK l \in Layouts(c) : t = TablesOf(c, l)
  BY DEF Shows
<1> DEFINE x == MapOf(new.id, new.detail, c.maps[p].versions, c.maps[p].statics)
<1>2. new.detail \in Details
  BY DEF DraftMaps
<1>3. x \in DraftMaps /\ UpdateMapRow(t, new) = TablesOf(WithMapAt(c, p, x), l)
  BY <1>1, <1>2, UpdateMapRowShows
<1>4. MapAfter(c.maps[p], new, 1) = x
  BY MapAfterIs
<1> HIDE DEF x
<1>5. WithMapAt(c, p, x) \in Draft /\ l \in Layouts(WithMapAt(c, p, x))
  BY <1>3, WithMapAtIs
<1> QED
  BY <1>3, <1>4, <1>5 DEF Shows

\* the versions gone,
LEMMA VersionsCleared ==
    ASSUME NEW c \in Draft, DistinctIds(c.maps), NEW p \in 1 .. Len(c.maps),
           NEW new \in DraftMaps, new.id = c.maps[p].id,
           NEW t, Shows(t, WithMapAt(c, p, MapAfter(c.maps[p], new, 1)))
    PROVE  Shows(ClearVersions(t, new.id), WithMapAt(c, p, MapAfter(c.maps[p], new, 2)))
<1> DEFINE x == MapAfter(c.maps[p], new, 1)
           d == WithMapAt(c, p, x)
           y == MapOf(new.id, new.detail, <<>>, c.maps[p].statics)
<1>1. x = MapOf(new.id, new.detail, c.maps[p].versions, c.maps[p].statics)
  BY MapAfterIs
<1>2. x \in DraftMaps
  BY <1>1, MapIsMap, DraftMapParts, MapOfIs
<1>3. x.id = new.id /\ x.detail = new.detail /\ x.statics = c.maps[p].statics
  BY <1>1 DEF MapOf
<1> HIDE DEF x
<1>4. /\ d \in Draft /\ DistinctIds(d.maps) /\ p \in 1 .. Len(d.maps) /\ d.maps[p] = x
      /\ \A z : WithMapAt(d, p, z) = WithMapAt(c, p, z)
  BY <1>2, <1>3, ReplacedAgain DEF x
<1>5. PICK l \in Layouts(d) : t = TablesOf(d, l)
  BY DEF Shows, x
<1> HIDE DEF d
<1>6. y \in DraftMaps /\ ClearVersions(t, new.id) = TablesOf(WithMapAt(d, p, y), l)
  BY <1>3, <1>4, <1>5, ClearVersionsShows
<1>7. MapAfter(c.maps[p], new, 2) = y
  BY MapAfterIs
<1> HIDE DEF y
<1>8. WithMapAt(d, p, y) \in Draft /\ l \in Layouts(WithMapAt(d, p, y))
  BY <1>4, <1>6, WithMapAtIs
<1> QED
  BY <1>4, <1>6, <1>7, <1>8 DEF Shows

\* the static columns gone,
LEMMA StaticsCleared ==
    ASSUME NEW c \in Draft, DistinctIds(c.maps), NEW p \in 1 .. Len(c.maps),
           NEW new \in DraftMaps, new.id = c.maps[p].id,
           NEW t, Shows(t, WithMapAt(c, p, MapAfter(c.maps[p], new, 2)))
    PROVE  Shows(ClearStatics(t, new.id), WithMapAt(c, p, MapAfter(c.maps[p], new, 3)))
<1> DEFINE x == MapAfter(c.maps[p], new, 2)
           d == WithMapAt(c, p, x)
           y == MapOf(new.id, new.detail, <<>>, {})
<1>1. x = MapOf(new.id, new.detail, <<>>, c.maps[p].statics)
  BY MapAfterIs
<1>2. x \in DraftMaps
  <2>1. <<>> \in Seq(STRING)
    BY EmptySeq
  <2>2. new.id \in MapId /\ new.detail \in Details /\ c.maps[p].statics \in SUBSET Columns
    BY MapIsMap, DraftMapParts
  <2> HIDE DEF x
  <2> QED
    BY <1>1, <2>1, <2>2, MapOfIs
<1>3. x.id = new.id /\ x.detail = new.detail /\ x.versions = <<>>
  BY <1>1 DEF MapOf
<1> HIDE DEF x
<1>4. /\ d \in Draft /\ DistinctIds(d.maps) /\ p \in 1 .. Len(d.maps) /\ d.maps[p] = x
      /\ \A z : WithMapAt(d, p, z) = WithMapAt(c, p, z)
  BY <1>2, <1>3, ReplacedAgain DEF x
<1>5. PICK l \in Layouts(d) : t = TablesOf(d, l)
  BY DEF Shows, x
<1> HIDE DEF d
<1>6. y \in DraftMaps /\ ClearStatics(t, new.id) = TablesOf(WithMapAt(d, p, y), l)
  BY <1>3, <1>4, <1>5, ClearStaticsShows
<1>7. MapAfter(c.maps[p], new, 3) = y
  BY MapAfterIs
<1> HIDE DEF y
<1>8. WithMapAt(d, p, y) \in Draft /\ l \in Layouts(WithMapAt(d, p, y))
  BY <1>4, <1>6, WithMapAtIs
<1> QED
  BY <1>4, <1>6, <1>7, <1>8 DEF Shows

\* one more version,
LEMMA VersionInserted ==
    ASSUME NEW c \in Draft, DistinctIds(c.maps), NEW p \in 1 .. Len(c.maps),
           NEW new \in DraftMaps, new.id = c.maps[p].id,
           NEW i \in 0 .. (Len(new.versions) - 1),
           NEW t, Shows(t, WithMapAt(c, p, MapAfter(c.maps[p], new, 3 + i)))
    PROVE  Shows(InsertVersion(t, [id |-> new.id, version |-> new.versions[i + 1]], i),
                 WithMapAt(c, p, MapAfter(c.maps[p], new, 4 + i)))
<1> DEFINE x == MapAfter(c.maps[p], new, 3 + i)
           d == WithMapAt(c, p, x)
           vs == SubSeq(new.versions, 1, i)
           v == [id |-> new.id, version |-> new.versions[i + 1]]
           y == MapOf(new.id, new.detail, Append(vs, v.version), {})
<1>1. /\ new.versions \in Seq(STRING) /\ new.id \in MapId /\ new.detail \in Details
      /\ Len(new.versions) \in Nat /\ i \in Nat /\ i \in 0 .. Len(new.versions)
  <2>1. new.versions \in Seq(STRING) /\ new.id \in MapId /\ new.detail \in Details
    BY DEF DraftMaps
  <2> QED
    BY <2>1, LenProperties
<1>2. /\ vs \in Seq(STRING) /\ Len(vs) = i /\ new.versions[i + 1] \in STRING
      /\ SubSeq(new.versions, 1, i + 1) = Append(vs, new.versions[i + 1])
  BY <1>1, FirstItems
<1>3. x = MapOf(new.id, new.detail, vs, {})
  BY <1>1, MapAfterIs
<1>4. MapAfter(c.maps[p], new, 4 + i) = y
  <2>1. 4 + i = 3 + (i + 1) /\ i + 1 \in Nat
    BY <1>1
  <2>2. MapAfter(c.maps[p], new, 3 + (i + 1)) =
            MapOf(new.id, new.detail, SubSeq(new.versions, 1, i + 1), {})
    BY <2>1, MapAfterIs
  <2> QED
    BY <1>2, <2>1, <2>2
<1>5. v.id = new.id /\ v.version = new.versions[i + 1]
  OBVIOUS
<1> HIDE DEF vs, v, x
<1>6. x \in DraftMaps
  BY <1>1, <1>2, <1>3 DEF MapOf, DraftMaps
<1>7. x.id = new.id /\ x.detail = new.detail /\ x.versions = vs /\ x.statics = {}
  BY <1>3 DEF MapOf
<1>8. /\ d \in Draft /\ DistinctIds(d.maps) /\ p \in 1 .. Len(d.maps) /\ d.maps[p] = x
      /\ \A z : WithMapAt(d, p, z) = WithMapAt(c, p, z)
  BY <1>6, <1>7, ReplacedAgain DEF x
<1>9. PICK l \in Layouts(d) : t = TablesOf(d, l)
  BY DEF Shows, x
<1> HIDE DEF d
<1>10. y \in DraftMaps /\ InsertVersion(t, v, i) = TablesOf(WithMapAt(d, p, y), l)
  <2>1. v.id = d.maps[p].id /\ v.version \in STRING /\ Len(d.maps[p].versions) = i
    BY <1>2, <1>5, <1>7, <1>8
  <2>2. y = MapOf(d.maps[p].id, d.maps[p].detail, Append(d.maps[p].versions, v.version),
                  d.maps[p].statics)
    BY <1>7, <1>8
  <2> HIDE DEF y
  <2> QED
    BY <1>8, <1>9, <2>1, <2>2, InsertVersionShows
<1> HIDE DEF y
<1>11. WithMapAt(d, p, y) \in Draft /\ l \in Layouts(WithMapAt(d, p, y))
  BY <1>8, <1>10, WithMapAtIs
<1> QED
  BY <1>4, <1>8, <1>10, <1>11 DEF Shows, v

\* and the static columns: the map is the new one.
LEMMA StaticsInserted ==
    ASSUME NEW c \in Draft, DistinctIds(c.maps), NEW p \in 1 .. Len(c.maps),
           NEW new \in DraftMaps, new.id = c.maps[p].id,
           NEW t, Shows(t, WithMapAt(c, p, MapAfter(c.maps[p], new, 3 + Len(new.versions))))
    PROVE  Shows(InsertStatics(t, new), WithMapAt(c, p, new))
<1> DEFINE n == Len(new.versions)
           x == MapAfter(c.maps[p], new, 3 + n)
           d == WithMapAt(c, p, x)
<1>1. /\ new.versions \in Seq(STRING) /\ new.id \in MapId /\ new.detail \in Details
      /\ new.statics \subseteq Columns /\ n \in Nat
      /\ new = MapOf(new.id, new.detail, new.versions, new.statics)
  <2>1. /\ new.versions \in Seq(STRING) /\ new.id \in MapId /\ new.detail \in Details
        /\ new.statics \subseteq Columns
        /\ new = MapOf(new.id, new.detail, new.versions, new.statics)
    BY DEF DraftMaps, MapOf
  <2> QED
    BY <2>1, LenProperties
<1>2. SubSeq(new.versions, 1, n) = new.versions
  BY <1>1, FirstItems
<1>3. x = MapOf(new.id, new.detail, new.versions, {})
  BY <1>1, <1>2, MapAfterIs
<1> HIDE DEF x, n
<1>4. x \in DraftMaps
  BY <1>1, <1>3 DEF MapOf, DraftMaps
<1>5. x.id = new.id /\ x.detail = new.detail /\ x.versions = new.versions /\ x.statics = {}
  BY <1>3 DEF MapOf
<1>6. /\ d \in Draft /\ DistinctIds(d.maps) /\ p \in 1 .. Len(d.maps) /\ d.maps[p] = x
      /\ \A z : WithMapAt(d, p, z) = WithMapAt(c, p, z)
  BY <1>4, <1>5, ReplacedAgain DEF x, n
<1>7. PICK l \in Layouts(d) : t = TablesOf(d, l)
  BY DEF Shows, x, n
<1> HIDE DEF d
<1>8. InsertStatics(t, new) = TablesOf(WithMapAt(d, p, new), l)
  <2>1. InsertStatics(t, new) = TablesOf(WithMapAt(d, p,
                MapOf(x.id, x.detail, x.versions, new.statics)), l)
    BY <1>1, <1>5, <1>6, <1>7, InsertStaticsShows
  <2> QED
    BY <1>1, <1>5, <2>1
<1>9. WithMapAt(d, p, new) \in Draft /\ l \in Layouts(WithMapAt(d, p, new))
  BY <1>6, WithMapAtIs
<1> QED
  BY <1>6, <1>8, <1>9 DEF Shows

-----------------------------------------------------------------------------
(* An edit, statement by statement.                                         *)

\* The tables after the first k statements of a Save of c, k > 0.
SaveStage(c, k, now) ==
    /\ k = 1 => Shows(now, c)
    /\ \A i \in 0 .. Len(c.apis) : k = 2 + i => APIsBack(c, i, now)
    /\ \A j \in 0 .. Len(c.maps) : k = 3 + Len(c.apis) + j => MapsBack(c, j, now)

\* The same of an update of the p-th map to new.
UpdateStage(c, p, new, k, now) ==
    /\ k < 4 + Len(new.versions) => Shows(now, WithMapAt(c, p, MapAfter(c.maps[p], new, k)))
    /\ k = 4 + Len(new.versions) => Shows(now, WithMapAt(c, p, new))

\* The same of any edit o of configuration c, begun when the tables were t.
Stage(c, t, o, k, now) ==
    IF k = 0 THEN now = t
    ELSE IF o.do = "save" THEN SaveStage(Store!Edited(c, o), k, now)
    ELSE IF o.on = "maps" /\ o.do = "update"
         THEN UpdateStage(c, Store!IndexOf(c.maps, o.to.id), o.to, k, now)
    ELSE Shows(now, Store!Edited(c, o))

\* Save, whatever lists the configuration has.
LEMMA SaveStep ==
    ASSUME NEW c \in Draft, NEW k \in 1 .. (2 + Len(c.apis) + Len(c.maps)),
           NEW now, SaveStage(c, k, now)
    PROVE  SaveStage(c, k + 1, Run(now, SaveStatements(c)[k + 1]))
<1> DEFINE n == Len(c.apis)
           m == Len(c.maps)
           s == SaveStatements(c)
           next == Run(now, s[k + 1])
<1>1. n \in Nat /\ m \in Nat /\ k \in Nat /\ k >= 1 /\ k <= 2 + n + m
  <2>1. n \in Nat /\ m \in Nat
    BY DraftParts
  <2>2. k \in 1 .. (2 + n + m)
    OBVIOUS
  <2> HIDE DEF n, m
  <2> QED
    BY <2>1, <2>2
<1>2. /\ s[2] = Stmt("clearAPIs", 0, 0)
      /\ \A i \in 1 .. n : s[2 + i] = Stmt("insertAPI", c.apis[i], i - 1)
      /\ s[3 + n] = Stmt("clearMaps", 0, 0)
      /\ \A j \in 1 .. m : s[3 + n + j] = Stmt("insertMap", c.maps[j], j - 1)
  BY SaveStatementsAre
<1>3. /\ k = 1 => Shows(now, c)
      /\ \A i \in 0 .. n : k = 2 + i => APIsBack(c, i, now)
      /\ \A j \in 0 .. m : k = 3 + n + j => MapsBack(c, j, now)
  BY DEF SaveStage
<1>4. SUFFICES /\ \A i \in 0 .. n : k + 1 = 2 + i => APIsBack(c, i, next)
               /\ \A j \in 0 .. m : k + 1 = 3 + n + j => MapsBack(c, j, next)
  BY <1>1 DEF SaveStage
<1> HIDE DEF s
<1>5. CASE k = 1
  <2>1. next = [now EXCEPT !.apis = {}]
    <3>1. s[k + 1] = Stmt("clearAPIs", 0, 0)
      BY <1>2, <1>5
    <3>2. Run(now, Stmt("clearAPIs", 0, 0)) = [now EXCEPT !.apis = {}]
      BY DEF Run, Stmt
    <3> QED
      BY <3>1, <3>2, Zenon
  <2> HIDE DEF next, n, m
  <2>2. APIsBack(c, 0, next)
    BY <1>3, <1>5, <2>1, NoAPIsBack
  <2> QED
    BY <1>1, <1>5, <2>2
<1>6. CASE k > 1 /\ k < 2 + n
  <2> DEFINE i == k - 2
  <2>1. /\ i \in 0 .. (n - 1) /\ i \in 0 .. n /\ i + 1 \in 1 .. n
        /\ k = 2 + i /\ k + 1 = 2 + (i + 1) /\ (i + 1) - 1 = i
    BY <1>1, <1>6
  <2> HIDE DEF i
  <2>2. APIsBack(c, i, now)
    BY <1>3, <2>1
  <2>3. next = InsertAPI(now, c.apis[i + 1], i)
    <3>1. s[k + 1] = Stmt("insertAPI", c.apis[i + 1], i)
      BY <1>2, <2>1
    <3>2. Run(now, Stmt("insertAPI", c.apis[i + 1], i)) = InsertAPI(now, c.apis[i + 1], i)
      BY DEF Run, Stmt
    <3> QED
      BY <3>1, <3>2, Zenon
  <2>4. APIsBack(c, i + 1, next)
    <3> HIDE DEF next
    <3> QED
      BY <2>1, <2>2, <2>3, OneAPIBack DEF n
  <2> HIDE DEF next, n, m
  <2>5. \A x \in 0 .. n : k + 1 = 2 + x => x = i + 1
    BY <1>1, <2>1
  <2>6. \A j \in 0 .. m : k + 1 # 3 + n + j
    BY <1>1, <1>6
  <2> QED
    BY <2>4, <2>5, <2>6
<1>7. CASE k = 2 + n
  <2>1. next = WithoutMaps(now, now.maps)
    <3>1. k + 1 = 3 + n
      BY <1>1, <1>7
    <3>2. s[k + 1] = Stmt("clearMaps", 0, 0)
      BY <1>2, <3>1
    <3>3. Run(now, Stmt("clearMaps", 0, 0)) = WithoutMaps(now, now.maps)
      BY DEF Run, Stmt
    <3> QED
      BY <3>2, <3>3, Zenon
  <2>2. APIsBack(c, n, now)
    BY <1>1, <1>3, <1>7
  <2>3. Shows(now, c)
    BY <2>2, AllAPIsBack
  <2> HIDE DEF next, n, m
  <2>4. MapsBack(c, 0, next)
    BY <2>1, <2>3, NoMapsBack
  <2>5. \A x \in 0 .. n : k + 1 # 2 + x
    BY <1>1, <1>7
  <2>6. \A j \in 0 .. m : k + 1 = 3 + n + j => j = 0
    BY <1>1, <1>7
  <2> QED
    BY <2>4, <2>5, <2>6
<1>8. CASE k > 2 + n
  <2> DEFINE j == k - 3 - n
  <2>1. /\ j \in 0 .. (m - 1) /\ j \in 0 .. m /\ j + 1 \in 1 .. m
        /\ k = 3 + n + j /\ k + 1 = 3 + n + (j + 1) /\ (j + 1) - 1 = j
    <3> HIDE DEF n, m
    <3> QED
      BY <1>1, <1>8
  <2> HIDE DEF j
  <2>2. MapsBack(c, j, now)
    BY <1>3, <2>1
  <2>3. next = InsertMap(now, c.maps[j + 1], j)
    <3>1. s[k + 1] = Stmt("insertMap", c.maps[j + 1], j)
      BY <1>2, <2>1
    <3>2. Run(now, Stmt("insertMap", c.maps[j + 1], j)) = InsertMap(now, c.maps[j + 1], j)
      BY DEF Run, Stmt
    <3> QED
      BY <3>1, <3>2, Zenon
  <2>4. MapsBack(c, j + 1, next)
    <3> HIDE DEF next
    <3> QED
      BY <2>1, <2>2, <2>3, OneMapBack DEF m
  <2> HIDE DEF next, n, m
  <2>5. \A x \in 0 .. m : k + 1 = 3 + n + x => x = j + 1
    BY <1>1, <2>1
  <2>6. \A x \in 0 .. n : k + 1 # 2 + x
    BY <1>1, <1>8
  <2> QED
    BY <2>4, <2>5, <2>6
<1> QED
  BY <1>1, <1>5, <1>6, <1>7, <1>8

\* UpdateMap.
LEMMA UpdateStep ==
    ASSUME NEW c \in Draft, DistinctIds(c.maps), NEW p \in 1 .. Len(c.maps),
           NEW new \in DraftMaps, new.id = c.maps[p].id,
           NEW k \in 0 .. (3 + Len(new.versions)), NEW now,
           IF k = 0 THEN Shows(now, c) ELSE UpdateStage(c, p, new, k, now)
    PROVE  UpdateStage(c, p, new, k + 1, Run(now, UpdateMapStatements(new)[k + 1]))
<1> DEFINE n == Len(new.versions)
           s == UpdateMapStatements(new)
           next == Run(now, s[k + 1])
           After(i) == WithMapAt(c, p, MapAfter(c.maps[p], new, i))
<1>1. n \in Nat /\ k \in Nat /\ k <= 3 + n
  <2>1. new.versions \in Seq(STRING)
    BY DEF DraftMaps
  <2> QED
    BY <2>1, LenProperties
<1>2. /\ s[1] = Stmt("updateMap", new, 0)
      /\ s[2] = Stmt("clearVersions", new.id, 0)
      /\ s[3] = Stmt("clearStatics", new.id, 0)
      /\ \A i \in 1 .. n : s[3 + i] =
            Stmt("insertVersion", [id |-> new.id, version |-> new.versions[i]], i - 1)
      /\ s[4 + n] = Stmt("insertStatics", new, 0)
  BY UpdateStatementsAre
<1>3. k # 0 => Shows(now, After(k))
  BY <1>1 DEF UpdateStage
<1>4. SUFFICES /\ k + 1 < 4 + n => Shows(next, After(k + 1))
               /\ k + 1 = 4 + n => Shows(next, WithMapAt(c, p, new))
  BY DEF UpdateStage
<1> HIDE DEF s
<1>5. CASE k = 0
  <2>1. next = UpdateMapRow(now, new)
    <3>1. s[k + 1] = Stmt("updateMap", new, 0)
      BY <1>2, <1>5
    <3>2. Run(now, Stmt("updateMap", new, 0)) = UpdateMapRow(now, new)
      BY DEF Run, Stmt
    <3> QED
      BY <3>1, <3>2, Zenon
  <2>2. Shows(next, After(1))
    BY <1>5, <2>1, DetailUpdated
  <2> HIDE DEF next, n, After
  <2> QED
    BY <1>1, <1>5, <2>2
<1>6. CASE k = 1
  <2>1. next = ClearVersions(now, new.id)
    <3>1. s[k + 1] = Stmt("clearVersions", new.id, 0)
      BY <1>2, <1>6
    <3>2. Run(now, Stmt("clearVersions", new.id, 0)) = ClearVersions(now, new.id)
      BY DEF Run, Stmt
    <3> QED
      BY <3>1, <3>2, Zenon
  <2>2. Shows(next, After(2))
    <3> HIDE DEF next
    <3>1. Shows(now, After(1))
      BY <1>3, <1>6
    <3> QED
      BY <2>1, <3>1, VersionsCleared
  <2> HIDE DEF next, n, After
  <2> QED
    BY <1>1, <1>6, <2>2
<1>7. CASE k = 2
  <2>1. next = ClearStatics(now, new.id)
    <3>1. s[k + 1] = Stmt("clearStatics", new.id, 0)
      BY <1>2, <1>7
    <3>2. Run(now, Stmt("clearStatics", new.id, 0)) = ClearStatics(now, new.id)
      BY DEF Run, Stmt
    <3> QED
      BY <3>1, <3>2, Zenon
  <2>2. Shows(next, After(3))
    <3> HIDE DEF next
    <3>1. Shows(now, After(2))
      BY <1>3, <1>7
    <3> QED
      BY <2>1, <3>1, StaticsCleared
  <2> HIDE DEF next, n, After
  <2> QED
    BY <1>1, <1>7, <2>2
<1>8. CASE k > 2 /\ k < 3 + n
  <2> DEFINE i == k - 3
  <2>1. /\ i \in 0 .. (n - 1) /\ i + 1 \in 1 .. n /\ (i + 1) - 1 = i
        /\ k = 3 + i /\ k + 1 = 3 + (i + 1) /\ k + 1 = 4 + i
    BY <1>1, <1>8
  <2> HIDE DEF i
  <2>2. next = InsertVersion(now, [id |-> new.id, version |-> new.versions[i + 1]], i)
    <3>1. s[k + 1] = Stmt("insertVersion",
                          [id |-> new.id, version |-> new.versions[i + 1]], i)
      BY <1>2, <2>1
    <3>2. Run(now, Stmt("insertVersion", [id |-> new.id, version |-> new.versions[i + 1]], i))
            = InsertVersion(now, [id |-> new.id, version |-> new.versions[i + 1]], i)
      BY DEF Run, Stmt
    <3> QED
      BY <3>1, <3>2, Zenon
  <2>3. Shows(now, After(3 + i))
    BY <1>1, <1>3, <1>8, <2>1
  <2>4. Shows(next, After(4 + i))
    <3> HIDE DEF next
    <3> QED
      BY <2>1, <2>2, <2>3, VersionInserted
  <2> HIDE DEF next, n, After
  <2> QED
    BY <1>1, <1>8, <2>1, <2>4
<1>9. CASE k = 3 + n
  <2>1. next = InsertStatics(now, new)
    <3>1. k + 1 = 4 + n
      BY <1>1, <1>9
    <3>2. s[k + 1] = Stmt("insertStatics", new, 0)
      BY <1>2, <3>1
    <3>3. Run(now, Stmt("insertStatics", new, 0)) = InsertStatics(now, new)
      BY DEF Run, Stmt
    <3> QED
      BY <3>2, <3>3, Zenon
  <2>2. Shows(now, After(3 + n))
    BY <1>1, <1>3, <1>9
  <2>3. Shows(next, WithMapAt(c, p, new))
    <3> HIDE DEF next
    <3> QED
      BY <2>1, <2>2, StaticsInserted
  <2> HIDE DEF next, n, After
  <2> QED
    BY <1>1, <1>9, <2>3
<1> QED
  BY <1>1, <1>5, <1>6, <1>7, <1>8, <1>9

\* The statements of each kind of edit.
LEMMA StatementsAre ==
    ASSUME NEW c, NEW t, NEW o \in Store!Ops
    PROVE  LET s == Statements(c, t, o)
           IN  /\ o.do = "save" => s = SaveStatements(Store!Edited(c, o))
               /\ o.on = "maps" /\ o.do = "create" =>
                    s = <<Stmt("insertMap", o.to, NextOrder(t.maps))>>
               /\ o.on = "maps" /\ o.do = "update" => s = UpdateMapStatements(o.to)
               /\ o.on = "maps" /\ o.do = "delete" => s = <<Stmt("deleteMap", o.id, 0)>>
               /\ o.on = "apis" /\ o.do = "create" =>
                    s = <<Stmt("insertAPI", o.to, NextOrder(t.apis))>>
               /\ o.on = "apis" /\ o.do = "update" => s = <<Stmt("updateAPI", o.to, 0)>>
               /\ o.on = "apis" /\ o.do = "delete" => s = <<Stmt("deleteAPI", o.id, 0)>>
BY DEF Statements

\* Every edit has a statement.
LEMMA SomeStatements ==
    ASSUME NEW c \in Configs, NEW t, NEW o \in Store!Ops, Store!Accepts(c, o)
    PROVE  /\ \E S : Statements(c, t, o) \in Seq(S)
           /\ Len(Statements(c, t, o)) \in Nat \ {0}
<1> DEFINE s == Statements(c, t, o)
<1>1. CASE o.do = "save"
  <2> DEFINE e == Store!Edited(c, o)
  <2>1. e \in Draft
    BY EditedInConfigs, ConfigsAreDrafts
  <2>2. Len(e.apis) \in Nat /\ Len(e.maps) \in Nat
    BY <2>1, DraftParts
  <2>3. s = SaveStatements(e)
    BY <1>1, StatementsAre
  <2> HIDE DEF s, e
  <2>4. /\ \E S : SaveStatements(e) \in Seq(S)
        /\ Len(SaveStatements(e)) = 3 + Len(e.apis) + Len(e.maps)
    BY <2>1, SaveStatementsAre
  <2>5. 3 + Len(e.apis) + Len(e.maps) \in Nat \ {0}
    <3>1. \A x, y \in Nat : 3 + x + y \in Nat \ {0}
      OBVIOUS
    <3> QED
      BY <2>2, <3>1
  <2>6. (\E S : s \in Seq(S)) /\ Len(s) \in Nat \ {0}
    BY <2>3, <2>4, <2>5
  <2> QED
    BY <2>6 DEF s
<1>2. CASE o.on = "maps" /\ o.do = "update"
  <2>1. o.to \in DraftMaps
    BY <1>2, OpKinds, MapTargets
  <2>2. Len(o.to.versions) \in Nat
    <3>1. o.to.versions \in Seq(STRING)
      BY <2>1, DraftMapParts
    <3> QED
      BY <3>1, LenProperties
  <2>3. s = UpdateMapStatements(o.to)
    BY <1>2, StatementsAre
  <2> HIDE DEF s
  <2>4. /\ \E S : UpdateMapStatements(o.to) \in Seq(S)
        /\ Len(UpdateMapStatements(o.to)) = 4 + Len(o.to.versions)
    BY <2>1, UpdateStatementsAre
  <2>5. 4 + Len(o.to.versions) \in Nat \ {0}
    BY <2>2
  <2>6. (\E S : s \in Seq(S)) /\ Len(s) \in Nat \ {0}
    BY <2>3, <2>4, <2>5
  <2> QED
    BY <2>6 DEF s
<1>3. ASSUME \E x : s = <<x>>
      PROVE  (\E S : s \in Seq(S)) /\ Len(s) \in Nat \ {0}
  <2>1. PICK x : s = <<x>>
    BY <1>3
  <2> HIDE DEF s
  <2>2. s \in Seq({x}) /\ Len(s) = 1
    BY <2>1
  <2> QED
    BY <2>2
<1>4. o.do = "save" \/ (o.on = "maps" /\ o.do = "update") \/ \E x : s = <<x>>
  BY OpKinds, StatementsAre
<1> QED
  BY <1>1, <1>2, <1>3, <1>4

\* The sort order of a new row is above those of the rows there are.
LEMMA NextAbove ==
    ASSUME NEW c \in Draft, NEW l \in Layouts(c)
    PROVE  LET t == TablesOf(c, l)
           IN  /\ NextOrder(t.apis) \in Nat
               /\ \A i \in 1 .. Len(c.apis) : l.apis[i] < NextOrder(t.apis)
               /\ NextOrder(t.maps) \in Nat
               /\ \A i \in 1 .. Len(c.maps) : l.maps[i] < NextOrder(t.maps)
<1>1. TablesOf(c, l).apis = APIRows(c, l) /\ TablesOf(c, l).maps = MapRows(c, l)
  BY DatabaseFields DEF TablesOf
<1>2. Len(c.apis) \in Nat /\ Len(c.maps) \in Nat
  BY DraftParts
<1>3. {r.order : r \in APIRows(c, l)} = {l.apis[i] : i \in 1 .. Len(c.apis)}
  <2>1. \A i \in 1 .. Len(c.apis) : APIRow(c, l, i).order = l.apis[i]
    BY DEF APIRow
  <2> QED
    BY <2>1 DEF APIRows
<1>4. {r.order : r \in MapRows(c, l)} = {l.maps[i] : i \in 1 .. Len(c.maps)}
  <2>1. \A i \in 1 .. Len(c.maps) : MapRow(c, l, i).order = l.maps[i]
    BY DEF MapRow
  <2> QED
    BY <2>1 DEF MapRows
<1>5. /\ NextOrder(APIRows(c, l)) \in Nat
      /\ \A i \in 1 .. Len(c.apis) : l.apis[i] < NextOrder(APIRows(c, l))
  <2>1. /\ l.apis \in Seq(Nat) /\ Len(l.apis) = Len(c.apis)
        /\ \A i, j \in 1 .. Len(c.apis) : i < j => l.apis[i] < l.apis[j]
    BY LayoutParts
  <2> QED
    BY <1>2, <1>3, <2>1, NextOrderIs
<1>6. /\ NextOrder(MapRows(c, l)) \in Nat
      /\ \A i \in 1 .. Len(c.maps) : l.maps[i] < NextOrder(MapRows(c, l))
  <2>1. /\ l.maps \in Seq(Nat) /\ Len(l.maps) = Len(c.maps)
        /\ \A i, j \in 1 .. Len(c.maps) : i < j => l.maps[i] < l.maps[j]
    BY LayoutParts
  <2> QED
    BY <1>2, <1>4, <2>1, NextOrderIs
<1> QED
  BY <1>1, <1>5, <1>6

\* An edit of one statement: what the statement makes of the tables.
LEMMA OneStatement ==
    ASSUME NEW c \in Configs, NEW t, Shows(t, c), NEW o \in Store!Ops, Store!Accepts(c, o),
           o.do # "save", ~ (o.on = "maps" /\ o.do = "update")
    PROVE  /\ Len(Statements(c, t, o)) = 1
           /\ Shows(Run(t, Statements(c, t, o)[1]), Store!Edited(c, o))
<1> DEFINE s == Statements(c, t, o)
           e == Store!Edited(c, o)
<1>1. c \in Draft /\ DistinctIds(c.apis) /\ DistinctIds(c.maps)
  BY ConfigsAreDrafts
<1>2. PICK l \in Layouts(c) : t = TablesOf(c, l)
  BY DEF Shows
<1>3. SUFFICES \E x : s = <<x>> /\ Shows(Run(t, x), e)
  <2>1. PICK x : s = <<x>> /\ Shows(Run(t, x), e)
    BY <1>3
  <2> HIDE DEF s
  <2>2. Len(s) = 1 /\ s[1] = x
    BY <2>1
  <2>3. Len(s) = 1 /\ Shows(Run(t, s[1]), e)
    BY <2>1, <2>2
  <2> QED
    BY <2>3 DEF s
<1>4. CASE o.on = "maps" /\ o.do = "create"
  <2> DEFINE n == NextOrder(t.maps)
  <2>1. s = <<Stmt("insertMap", o.to, n)>>
    BY <1>4, StatementsAre
  <2>2. Run(t, Stmt("insertMap", o.to, n)) = InsertMap(t, o.to, n)
    BY DEF Run, Stmt
  <2>3. e = WithMapList(c, Append(c.maps, o.to))
    BY <1>4, EditedIs
  <2>4. o.to \in DraftMaps
    BY <1>4, OpKinds, MapTargets
  <2>5. n \in Nat /\ \A i \in 1 .. Len(c.maps) : l.maps[i] < n
    BY <1>1, <1>2, NextAbove
  <2> HIDE DEF n, s, e
  <2>6. Shows(InsertMap(t, o.to, n), e)
    BY <1>1, <1>2, <2>3, <2>4, <2>5, InsertMapShows DEF Shows
  <2> QED
    BY <2>1, <2>2, <2>6
<1>5. CASE o.on = "maps" /\ o.do = "delete"
  <2> DEFINE p == Store!IndexOf(c.maps, o.id)
  <2>1. s = <<Stmt("deleteMap", o.id, 0)>>
    BY <1>5, StatementsAre
  <2>2. Run(t, Stmt("deleteMap", o.id, 0)) = WithoutMaps(t, {RowOf(t, o.id)})
    BY DEF Run, Stmt
  <2>3. e = WithMapList(c, RemoveAt(c.maps, p))
    BY <1>5, EditedIs
  <2>4. p \in 1 .. Len(c.maps) /\ c.maps[p].id = o.id
    <3>1. Store!Has(c.maps, o.id)
      BY <1>5 DEF Store!Accepts
    <3>2. c.maps \in Seq(DraftMaps)
      BY <1>1 DEF Draft, DraftMaps
    <3> QED
      BY <3>1, <3>2, IndexOfIs
  <2> HIDE DEF p, s, e
  <2>5. Shows(WithoutMaps(t, {RowOf(t, o.id)}), e)
    BY <1>1, <1>2, <2>3, <2>4, DeleteMapShows DEF Shows
  <2> QED
    BY <2>1, <2>2, <2>5
<1>6. CASE o.on = "apis" /\ o.do = "create"
  <2> DEFINE n == NextOrder(t.apis)
  <2>1. s = <<Stmt("insertAPI", o.to, n)>>
    BY <1>6, StatementsAre
  <2>2. Run(t, Stmt("insertAPI", o.to, n)) = InsertAPI(t, o.to, n)
    BY DEF Run, Stmt
  <2>3. e = WithAPIs(c, Append(c.apis, o.to))
    BY <1>6, EditedIs
  <2>4. o.to \in APIs
    BY <1>6, OpKinds, MapTargets
  <2>5. n \in Nat /\ \A i \in 1 .. Len(c.apis) : l.apis[i] < n
    BY <1>1, <1>2, NextAbove
  <2> HIDE DEF n, s, e
  <2>6. Shows(InsertAPI(t, o.to, n), e)
    BY <1>1, <1>2, <2>3, <2>4, <2>5, InsertAPIShows DEF Shows
  <2> QED
    BY <2>1, <2>2, <2>6
<1>7. CASE o.on = "apis" /\ o.do = "update"
  <2> DEFINE p == Store!IndexOf(c.apis, o.to.id)
  <2>1. s = <<Stmt("updateAPI", o.to, 0)>>
    BY <1>7, StatementsAre
  <2>2. Run(t, Stmt("updateAPI", o.to, 0)) = UpdateAPI(t, o.to)
    BY DEF Run, Stmt
  <2>3. e = WithAPIs(c, [c.apis EXCEPT ![p] = o.to])
    BY <1>7, EditedIs
  <2>4. p \in 1 .. Len(c.apis) /\ c.apis[p].id = o.to.id
    <3>1. Store!Has(c.apis, o.to.id)
      BY <1>7 DEF Store!Accepts
    <3>2. c.apis \in Seq(APIs)
      BY <1>1 DEF Draft, APIs
    <3> QED
      BY <3>1, <3>2, IndexOfIs
  <2>5. o.to \in APIs
    BY <1>7, OpKinds, MapTargets
  <2> HIDE DEF p, s, e
  <2>6. Shows(UpdateAPI(t, o.to), e)
    BY <1>1, <1>2, <2>3, <2>4, <2>5, UpdateAPIShows DEF Shows
  <2> QED
    BY <2>1, <2>2, <2>6
<1>8. CASE o.on = "apis" /\ o.do = "delete"
  <2> DEFINE p == Store!IndexOf(c.apis, o.id)
  <2>1. s = <<Stmt("deleteAPI", o.id, 0)>>
    BY <1>8, StatementsAre
  <2>2. Run(t, Stmt("deleteAPI", o.id, 0)) = [t EXCEPT !.apis = {r \in @ : r.id # o.id}]
    BY DEF Run, Stmt
  <2>3. e = WithAPIs(c, RemoveAt(c.apis, p))
    BY <1>8, EditedIs
  <2>4. p \in 1 .. Len(c.apis) /\ c.apis[p].id = o.id
    <3>1. Store!Has(c.apis, o.id)
      BY <1>8 DEF Store!Accepts
    <3>2. c.apis \in Seq(APIs)
      BY <1>1 DEF Draft, APIs
    <3> QED
      BY <3>1, <3>2, IndexOfIs
  <2> HIDE DEF p, s, e
  <2>5. Shows([t EXCEPT !.apis = {r \in @ : r.id # o.id}], e)
    <3>1. Shows([t EXCEPT !.apis = {r \in @ : r.id # c.apis[p].id}], e)
      <4> DEFINE m == LayAPIs(l, RemoveAt(l.apis, p))
      <4>1. /\ e \in Draft /\ m \in Layouts(e)
            /\ [TablesOf(c, l) EXCEPT !.apis = {r \in @ : r.id # c.apis[p].id}]
                    = TablesOf(e, m)
        BY <1>1, <2>3, <2>4, DeleteAPIShows
      <4> HIDE DEF m
      <4>2. [t EXCEPT !.apis = {r \in @ : r.id # c.apis[p].id}] = TablesOf(e, m)
        BY <1>2, <4>1, Zenon
      <4> QED
        BY <4>1, <4>2, Zenon DEF Shows
    <3>2. [t EXCEPT !.apis = {r \in @ : r.id # o.id}]
            = [t EXCEPT !.apis = {r \in @ : r.id # c.apis[p].id}]
      BY <2>4, Zenon
    <3> QED
      BY <3>1, <3>2
  <2> QED
    BY <2>1, <2>2, <2>5
<1> QED
  BY <1>4, <1>5, <1>6, <1>7, <1>8, OpKinds

\* A statement moves an edit one stage on.
LEMMA EditStep ==
    ASSUME NEW c \in Configs, NEW t, Shows(t, c), NEW o \in Store!Ops, Store!Accepts(c, o),
           NEW k \in 0 .. (Len(Statements(c, t, o)) - 1), NEW now, Stage(c, t, o, k, now)
    PROVE  Stage(c, t, o, k + 1, Run(now, Statements(c, t, o)[k + 1]))
<1> DEFINE s == Statements(c, t, o)
           e == Store!Edited(c, o)
           next == Run(now, s[k + 1])
<1>1. c \in Draft /\ DistinctIds(c.apis) /\ DistinctIds(c.maps) /\ e \in Draft
  BY ConfigsAreDrafts, EditedInConfigs
<1>2. k \in Nat /\ k + 1 # 0 /\ Len(s) \in Nat /\ k <= Len(s) - 1
  BY SomeStatements
<1>3. CASE o.do = "save"
  <2>1. s = SaveStatements(e)
    BY <1>3, StatementsAre
  <2>2. SUFFICES SaveStage(e, k + 1, next)
    BY <1>2, <1>3 DEF Stage
  <2>3. CASE k = 0
    <3>1. s[k + 1] = Stmt("saveScalar", e.settings, 0)
      <4> HIDE DEF s, e
      <4>1. SaveStatements(e)[1] = Stmt("saveScalar", e.settings, 0)
        BY <1>1, SaveStatementsAre
      <4>2. k + 1 = 1
        BY <2>3
      <4> QED
        BY <2>1, <4>1, <4>2
    <3>2. e = WithSettings(c, o.to)
      BY <1>3, EditedIs
    <3>3. o.to \in Settings
      BY <1>3, OpKinds
    <3>4. now = t
      BY <2>3 DEF Stage
    <3>5. Run(t, Stmt("saveScalar", o.to, 0)) = [t EXCEPT !.settings = o.to]
      BY DEF Run, Stmt
    <3>6. e.settings = o.to
      BY <3>2 DEF WithSettings
    <3>7. next = [t EXCEPT !.settings = o.to]
      <4> HIDE DEF s, e
      <4> QED
        BY <3>1, <3>4, <3>5, <3>6, Zenon
    <3> HIDE DEF next, s, e
    <3>8. PICK l \in Layouts(c) : t = TablesOf(c, l)
      BY DEF Shows
    <3>9. e \in Draft /\ l \in Layouts(e) /\ next = TablesOf(e, l)
      <4>1. LET d == [settings |-> o.to, apis |-> c.apis, maps |-> c.maps]
            IN  d \in Draft /\ l \in Layouts(d)
                /\ [TablesOf(c, l) EXCEPT !.settings = o.to] = TablesOf(d, l)
        BY <1>1, <3>3, SaveScalarShows
      <4> QED
        BY <3>2, <3>7, <3>8, <4>1 DEF WithSettings
    <3>10. Shows(next, e)
      BY <3>9 DEF Shows
    <3>11. Len(e.apis) \in Nat /\ Len(e.maps) \in Nat
      BY <1>1, DraftParts
    <3> QED
      BY <2>3, <3>10, <3>11 DEF SaveStage
  <2>4. CASE k # 0
    <3>1. SaveStage(e, k, now)
      BY <1>3, <2>4 DEF Stage
    <3>2. k \in 1 .. (2 + Len(e.apis) + Len(e.maps))
      <4>1. Len(SaveStatements(e)) = 3 + Len(e.apis) + Len(e.maps)
        <5> HIDE DEF e
        <5> QED
          BY <1>1, SaveStatementsAre
      <4>2. Len(e.apis) \in Nat /\ Len(e.maps) \in Nat
        BY <1>1, DraftParts
      <4>3. \A x, y, z, w \in Nat :
                z # 0 /\ z <= w - 1 /\ w = 3 + x + y => z \in 1 .. (2 + x + y)
        OBVIOUS
      <4> HIDE DEF s, e
      <4>4. Len(s) = 3 + Len(e.apis) + Len(e.maps)
        BY <2>1, <4>1, Zenon
      <4> QED
        BY <1>2, <2>4, <4>2, <4>3, <4>4
    <3> HIDE DEF s, e
    <3> QED
      BY <1>1, <2>1, <3>1, <3>2, SaveStep
  <2> QED
    BY <2>3, <2>4
<1>4. CASE o.on = "maps" /\ o.do = "update"
  <2> DEFINE p == Store!IndexOf(c.maps, o.to.id)
  <2>1. s = UpdateMapStatements(o.to)
    BY <1>4, StatementsAre
  <2>2. o.do # "save"
    BY <1>4
  <2>3. SUFFICES UpdateStage(c, p, o.to, k + 1, next)
    BY <1>2, <1>4, <2>2 DEF Stage
  <2>4. o.to \in DraftMaps
    BY <1>4, OpKinds, MapTargets
  <2>5. p \in 1 .. Len(c.maps) /\ c.maps[p].id = o.to.id
    <3>1. Store!Has(c.maps, o.to.id)
      BY <1>4 DEF Store!Accepts
    <3>2. c.maps \in Seq(DraftMaps)
      BY <1>1 DEF Draft, DraftMaps
    <3> QED
      BY <3>1, <3>2, IndexOfIs
  <2>6. IF k = 0 THEN Shows(now, c) ELSE UpdateStage(c, p, o.to, k, now)
    BY <1>4, <2>2 DEF Stage
  <2>7. k \in 0 .. (3 + Len(o.to.versions))
    <3>1. Len(UpdateMapStatements(o.to)) = 4 + Len(o.to.versions)
      BY <2>4, UpdateStatementsAre
    <3>2. Len(o.to.versions) \in Nat
      <4>1. o.to.versions \in Seq(STRING)
        BY <2>4, DraftMapParts
      <4> QED
        BY <4>1, LenProperties
    <3> HIDE DEF s
    <3> QED
      BY <1>2, <2>1, <3>1, <3>2
  <2> HIDE DEF p, s
  <2> QED
    BY <1>1, <2>1, <2>4, <2>5, <2>6, <2>7, UpdateStep
<1>5. CASE o.do # "save" /\ ~ (o.on = "maps" /\ o.do = "update")
  <2>1. Len(s) = 1 /\ Shows(Run(t, s[1]), e)
    BY <1>5, OneStatement
  <2> HIDE DEF s, e
  <2>2. k = 0
    BY <1>2, <2>1
  <2>3. now = t
    BY <2>2 DEF Stage
  <2>4. Shows(next, e)
    BY <2>1, <2>2, <2>3
  <2> HIDE DEF next
  <2>5. Stage(c, t, o, k + 1, next)
    BY <1>2, <1>5, <2>4 DEF Stage, e
  <2> QED
    BY <2>5 DEF next, s
<1> QED
  BY <1>3, <1>4, <1>5

\* After its last statement an edit is made.
LEMMA EditMade ==
    ASSUME NEW c \in Configs, NEW t, Shows(t, c), NEW o \in Store!Ops, Store!Accepts(c, o),
           NEW now, Stage(c, t, o, Len(Statements(c, t, o)), now)
    PROVE  Shows(now, Store!Edited(c, o))
<1> DEFINE s == Statements(c, t, o)
           e == Store!Edited(c, o)
<1>1. c \in Draft /\ e \in Draft
  BY ConfigsAreDrafts, EditedInConfigs
<1>2. Len(s) # 0
  BY SomeStatements
<1>3. CASE o.do = "save"
  <2>1. SaveStage(e, Len(s), now)
    BY <1>2, <1>3 DEF Stage
  <2>2. s = SaveStatements(e)
    BY <1>3, StatementsAre
  <2> HIDE DEF s, e
  <2>3. Len(s) = 3 + Len(e.apis) + Len(e.maps)
    BY <1>1, <2>2, SaveStatementsAre
  <2>4. Len(e.maps) \in Nat /\ Len(e.maps) \in 0 .. Len(e.maps)
    <3>1. Len(e.maps) \in Nat
      BY <1>1, DraftParts
    <3> QED
      BY <3>1
  <2>5. MapsBack(e, Len(e.maps), now)
    BY <2>1, <2>3, <2>4 DEF SaveStage
  <2>6. Shows(now, e)
    BY <1>1, <2>5, AllMapsBack
  <2> QED
    BY <2>6 DEF e
<1>4. CASE o.on = "maps" /\ o.do = "update"
  <2> DEFINE p == Store!IndexOf(c.maps, o.to.id)
  <2>1. o.do # "save"
    BY <1>4
  <2>2. UpdateStage(c, p, o.to, Len(s), now)
    BY <1>2, <1>4, <2>1 DEF Stage
  <2>3. s = UpdateMapStatements(o.to)
    BY <1>4, StatementsAre
  <2>4. o.to \in DraftMaps
    BY <1>4, OpKinds, MapTargets
  <2>5. Len(s) = 4 + Len(o.to.versions)
    <3> HIDE DEF s
    <3> QED
      BY <2>3, <2>4, UpdateStatementsAre
  <2>6. e = WithMapAt(c, p, o.to)
    BY <1>4, EditedIs
  <2> HIDE DEF s, e, p
  <2>7. Shows(now, e)
    BY <2>2, <2>5, <2>6 DEF UpdateStage
  <2> QED
    BY <2>7 DEF e
<1>5. CASE o.do # "save" /\ ~ (o.on = "maps" /\ o.do = "update")
  BY <1>2, <1>5 DEF Stage
<1> QED
  BY <1>3, <1>4, <1>5

\* At every stage there are tables.
LEMMA ShowsTables ==
    ASSUME NEW t, NEW c, Shows(t, c)
    PROVE  t \in Tables /\ t # NoTx
<1>1. t \in Tables
  BY TablesOfType DEF Shows
<1> QED
  BY <1>1, NoTxIsNone

\* At every stage of an edit there are tables.
LEMMA StageTables ==
    ASSUME NEW c \in Configs, NEW t, Shows(t, c), NEW o \in Store!Ops, Store!Accepts(c, o),
           NEW k \in 0 .. Len(Statements(c, t, o)), NEW now, Stage(c, t, o, k, now)
    PROVE  now \in Tables
<1> DEFINE s == Statements(c, t, o)
           e == Store!Edited(c, o)
<1>1. c \in Draft /\ e \in Draft
  BY ConfigsAreDrafts, EditedInConfigs
<1>2. k \in Nat /\ Len(s) \in Nat /\ k <= Len(s)
  BY SomeStatements
<1>3. CASE k = 0
  BY <1>3, ShowsTables DEF Stage
<1>4. CASE k # 0 /\ o.do = "save"
  <2> DEFINE n == Len(e.apis)
             m == Len(e.maps)
  <2>1. SaveStage(e, k, now)
    BY <1>4 DEF Stage
  <2>2. s = SaveStatements(e)
    BY <1>4, StatementsAre
  <2>3. n \in Nat /\ m \in Nat
    BY <1>1, DraftParts
  <2> HIDE DEF s, e
  <2>4. Len(s) = 3 + n + m
    BY <1>1, <2>2, SaveStatementsAre
  <2>5. \/ k = 1
        \/ \E i \in 0 .. n : k = 2 + i
        \/ \E j \in 0 .. m : k = 3 + n + j
    <3>1. \A x, y, z, w \in Nat : z # 0 /\ z <= w /\ w = 3 + x + y =>
            z = 1 \/ (z - 2 \in 0 .. x /\ z = 2 + (z - 2))
                  \/ (z - 3 - x \in 0 .. y /\ z = 3 + x + (z - 3 - x))
      OBVIOUS
    <3> HIDE DEF n, m
    <3>2. k = 1 \/ (k - 2 \in 0 .. n /\ k = 2 + (k - 2))
                \/ (k - 3 - n \in 0 .. m /\ k = 3 + n + (k - 3 - n))
      BY <1>2, <1>4, <2>3, <2>4, <3>1
    <3> QED
      BY <3>2, Zenon
  <2>6. CASE k = 1
    <3>1. Shows(now, e)
      BY <2>1, <2>6 DEF SaveStage
    <3> QED
      BY <3>1, ShowsTables
  <2>7. CASE \E i \in 0 .. n : k = 2 + i
    <3>1. PICK i \in 0 .. n : APIsBack(e, i, now)
      BY <2>1, <2>7 DEF SaveStage
    <3> QED
      BY <3>1, TablesOfType DEF APIsBack
  <2>8. CASE \E j \in 0 .. m : k = 3 + n + j
    <3>1. PICK j \in 0 .. m : MapsBack(e, j, now)
      BY <2>1, <2>8 DEF SaveStage
    <3> QED
      BY <3>1, TablesOfType DEF MapsBack
  <2> QED
    BY <2>5, <2>6, <2>7, <2>8
<1>5. CASE k # 0 /\ o.on = "maps" /\ o.do = "update"
  <2> DEFINE p == Store!IndexOf(c.maps, o.to.id)
  <2>1. o.do # "save"
    BY <1>5
  <2>2. UpdateStage(c, p, o.to, k, now)
    BY <1>5, <2>1 DEF Stage
  <2>3. s = UpdateMapStatements(o.to)
    BY <1>5, StatementsAre
  <2>4. o.to \in DraftMaps
    BY <1>5, OpKinds, MapTargets
  <2> HIDE DEF s, p
  <2>5. Len(s) = 4 + Len(o.to.versions)
    BY <2>3, <2>4, UpdateStatementsAre
  <2>6. Len(o.to.versions) \in Nat
    <3>1. o.to.versions \in Seq(STRING)
      BY <2>4, DraftMapParts
    <3> QED
      BY <3>1, LenProperties
  <2>7. k < 4 + Len(o.to.versions) \/ k = 4 + Len(o.to.versions)
    <3>1. \A x, y, z \in Nat : x <= y /\ y = 4 + z => x < 4 + z \/ x = 4 + z
      OBVIOUS
    <3> QED
      BY <1>2, <2>5, <2>6, <3>1
  <2>8. \E d : Shows(now, d)
    BY <2>2, <2>7 DEF UpdateStage
  <2> QED
    BY <2>8, ShowsTables
<1>6. CASE k # 0 /\ o.do # "save" /\ ~ (o.on = "maps" /\ o.do = "update")
  <2>1. Shows(now, e)
    BY <1>6, SMTT(60) DEF Stage
  <2> QED
    BY <2>1, ShowsTables
<1> QED
  BY <1>3, <1>4, <1>5, <1>6

\* What is left of a list of statements.
LEMMA LeftOver ==
    ASSUME NEW S, NEW s \in Seq(S)
    PROVE  /\ Len(s) \in Nat /\ SubSeq(s, 1, Len(s)) = s
           /\ \A k \in 0 .. Len(s) : SubSeq(s, k + 1, Len(s)) = <<>> => k = Len(s)
           /\ \A k \in 0 .. (Len(s) - 1) :
                /\ Head(SubSeq(s, k + 1, Len(s))) = s[k + 1]
                /\ Tail(SubSeq(s, k + 1, Len(s))) = SubSeq(s, k + 2, Len(s))
           /\ SubSeq(s, Len(s) + 1, Len(s)) = <<>>
<1>1. Len(s) \in Nat
  BY LenProperties
<1>2. SubSeq(s, 1, Len(s)) = s
  BY FirstItems
<1>3. ASSUME NEW k \in 0 .. (Len(s) - 1)
      PROVE  /\ SubSeq(s, k + 1, Len(s)) # <<>>
             /\ Head(SubSeq(s, k + 1, Len(s))) = s[k + 1]
             /\ Tail(SubSeq(s, k + 1, Len(s))) = SubSeq(s, k + 2, Len(s))
  <2>1. k + 1 \in 1 .. Len(s) /\ k + 1 \in Nat /\ k + 1 >= 1 /\ k + 1 <= Len(s)
        /\ k + 2 = (k + 1) + 1
    BY <1>1
  <2>2. /\ SubSeq(s, k + 1, Len(s)) \in Seq(S)
        /\ Len(SubSeq(s, k + 1, Len(s))) = Len(s) - (k + 1) + 1
    BY <1>1, <2>1, SubSeqProperties, SMTT(30)
  <2>3. SubSeq(s, k + 1, Len(s)) # <<>>
    <3>1. Len(s) - (k + 1) + 1 # 0
      <4>1. \A n, i \in Nat : i <= n => n - i + 1 # 0
        OBVIOUS
      <4>2. k + 1 \in Nat /\ k + 1 <= Len(s)
        BY <2>1, Zenon
      <4> QED
        BY <1>1, <4>1, <4>2, Zenon
    <3>2. Len(SubSeq(s, k + 1, Len(s))) # 0
      BY <2>2, <3>1
    <3>3. Len(<<>>) = 0
      OBVIOUS
    <3> QED
      BY <3>2, <3>3, Zenon
  <2>4. /\ Head(SubSeq(s, k + 1, Len(s))) = s[k + 1]
        /\ Tail(SubSeq(s, k + 1, Len(s))) = SubSeq(s, (k + 1) + 1, Len(s))
    BY <1>1, <2>1, HeadTailOfSubSeq, SMTT(30)
  <2> QED
    BY <2>1, <2>3, <2>4
<1>4. SubSeq(s, Len(s) + 1, Len(s)) = <<>>
  BY <1>1, SubSeqEmpty
<1>5. ASSUME NEW k \in 0 .. Len(s), SubSeq(s, k + 1, Len(s)) = <<>>
      PROVE  k = Len(s)
  <2>1. k \in 0 .. (Len(s) - 1) \/ k = Len(s)
    BY <1>1
  <2> QED
    BY <1>3, <1>5, <2>1
<1> QED
  BY <1>1, <1>2, <1>3, <1>4, <1>5

-----------------------------------------------------------------------------
(* The invariant.                                                           *)

\* The open transaction has run the first k statements of the edit.
Progress ==
    LET s == Statements(stored, db, op)
    IN  \E k \in 0 .. Len(s) :
            Stage(stored, db, op, k, tx) /\ todo = SubSeq(s, k + 1, Len(s))

\* The committed tables show the runner's copy, but between a commit and the
\* change of the copy, when they show the edit of it.
Inv ==
    /\ stored \in Configs
    /\ op \in Store!Ops \cup {NoOp}
    /\ ops \in 0 .. MaxOps /\ crashes \in 0 .. MaxCrashes
    /\ op # NoOp => Store!Accepts(stored, op)
    /\ op = NoOp => tx = NoTx
    /\ tx = NoTx => todo = <<>>
    /\ op = NoOp \/ tx # NoTx => Shows(db, stored)
    /\ op # NoOp /\ tx = NoTx => Shows(db, Store!Edited(stored, op))
    /\ tx # NoTx => Progress

\* The tables show a configuration whether an edit is under way or not.
LEMMA AlwaysShown ==
    ASSUME Inv
    PROVE  \E c \in Configs : Shows(db, c)
BY EditedInConfigs DEF Inv

\* The empty tables show the empty configuration.
LEMMA NoConfiguration ==
    /\ Store!Empty \in Configs
    /\ Shows(EmptyTables, Store!Empty)
<1> DEFINE c == Store!Empty
           l == [apis |-> <<>>, maps |-> <<>>, rows |-> <<>>, last |-> 0]
<1>1. c = [settings |-> NoSettings, apis |-> <<>>, maps |-> <<>>]
  BY DEF Store!Empty
<1>2. \A S : <<>> \in Seq(S) /\ Len(<<>>) = 0 /\ 1 .. Len(<<>>) = {}
  BY EmptySeq
<1>3. c \in Configs
  BY <1>1, <1>2 DEF Configs, DistinctIds
<1>4. c \in Draft
  BY <1>3, ConfigsAreDrafts
<1>5. l \in Layouts(c)
  BY <1>1, <1>2 DEF Layouts, Increasing
<1>6. EmptyTables = TablesOf(c, l)
  <2>1. /\ APIRows(c, l) = {} /\ MapRows(c, l) = {}
        /\ VersionRows(c, l) = {} /\ StaticRows(c, l) = {}
    BY <1>1, <1>2 DEF APIRows, MapRows, VersionRows, StaticRows
  <2>2. c.settings = NoSettings /\ l.last = 0
    BY <1>1
  <2> HIDE DEF c, l
  <2> QED
    BY <2>1, <2>2 DEF EmptyTables, TablesOf, Database
<1> QED
  BY <1>3, <1>4, <1>5, <1>6 DEF Shows

\* A Load returns what the tables show.
LEMMA ShownIsLoaded ==
    ASSUME NEW t, NEW c, Shows(t, c)
    PROVE  Loaded(t) = c
BY LoadedIs DEF Shows

\* Init.
LEMMA InitInv == Init => Inv
<1> SUFFICES ASSUME Init PROVE Inv
  OBVIOUS
<1>1. db = EmptyTables /\ tx = NoTx /\ todo = <<>> /\ op = NoOp /\ stored = Loaded(db)
      /\ ops \in 0 .. MaxOps /\ crashes \in 0 .. MaxCrashes
  BY BoundsAreNaturals DEF Init
<1>2. stored = Store!Empty
  BY <1>1, NoConfiguration, ShownIsLoaded
<1> QED
  BY <1>1, <1>2, NoConfiguration DEF Inv

\* Begin: the transaction starts from the committed tables.
LEMMA BeginInv == ASSUME Inv, Begin PROVE Inv'
<1>1. PICK o \in Store!Ops : /\ Store!Accepts(stored, o) /\ op' = o
                            /\ todo' = Statements(stored, db, o)
  BY DEF Begin
<1>2. /\ op = NoOp /\ stored \in Configs /\ Shows(db, stored)
      /\ ops' \in 0 .. MaxOps /\ crashes \in 0 .. MaxCrashes
  <2>1. ops < MaxOps /\ ops' = ops + 1 /\ ops \in 0 .. MaxOps
    BY DEF Inv, Begin
  <2>2. ops' \in 0 .. MaxOps
    BY <2>1, BoundsAreNaturals
  <2> QED
    BY <2>2 DEF Inv, Begin
<1>3. tx' = db /\ db' = db /\ stored' = stored /\ crashes' = crashes
  BY DEF Begin
<1>4. op' # NoOp
  BY <1>1, NoOpIsNone
<1>5. tx' # NoTx
  BY <1>2, <1>3, ShowsTables
<1>6. Progress'
  <2> DEFINE s == Statements(stored, db, o)
  <2>1. PICK S : s \in Seq(S)
    BY <1>1, <1>2, SomeStatements
  <2>2. Stage(stored, db, o, 0, db)
    BY DEF Stage
  <2> HIDE DEF s
  <2>3. 0 \in 0 .. Len(s) /\ todo' = SubSeq(s, 0 + 1, Len(s))
    BY <1>1, <2>1, LeftOver DEF s
  <2> QED
    BY <1>1, <1>3, <2>2, <2>3 DEF Progress, s
<1> QED
  BY <1>1, <1>2, <1>3, <1>4, <1>5, <1>6 DEF Inv

\* Exec: one stage on.
LEMMA ExecInv == ASSUME Inv, Exec PROVE Inv'
<1> DEFINE s == Statements(stored, db, op)
<1>1. /\ todo # <<>> /\ tx' = Run(tx, Head(todo)) /\ todo' = Tail(todo)
      /\ db' = db /\ op' = op /\ stored' = stored /\ ops' = ops /\ crashes' = crashes
  BY DEF Exec
<1>2. /\ tx # NoTx /\ op # NoOp /\ op \in Store!Ops /\ stored \in Configs
      /\ Store!Accepts(stored, op) /\ Shows(db, stored)
  BY <1>1 DEF Inv
<1>3. PICK k \in 0 .. Len(s) : Stage(stored, db, op, k, tx) /\ todo = SubSeq(s, k + 1, Len(s))
  BY <1>2 DEF Inv, Progress
<1>4. PICK S : s \in Seq(S)
  BY <1>2, SomeStatements
<1>5. Len(s) \in Nat
  BY <1>2, SomeStatements
<1>6. k \in 0 .. (Len(s) - 1) /\ k + 1 \in 0 .. Len(s) /\ (k + 1) + 1 = k + 2
  <2>1. k # Len(s)
    <3> HIDE DEF s
    <3> QED
      BY <1>1, <1>3, <1>4, LeftOver
  <2> HIDE DEF s
  <2> QED
    BY <1>5, <2>1
<1>7. Head(todo) = s[k + 1] /\ todo' = SubSeq(s, (k + 1) + 1, Len(s))
  <2> HIDE DEF s
  <2> QED
    BY <1>1, <1>3, <1>4, <1>6, LeftOver
<1>8. Stage(stored, db, op, k + 1, tx')
  <2>1. Stage(stored, db, op, k + 1, Run(tx, s[k + 1]))
    BY <1>2, <1>3, <1>6, EditStep
  <2> QED
    BY <1>1, <1>7, <2>1
<1>9. tx' # NoTx
  <2>1. tx' \in Tables
    BY <1>2, <1>6, <1>8, StageTables
  <2> QED
    BY <2>1, NoTxIsNone
<1>10. Progress'
  BY <1>1, <1>6, <1>7, <1>8 DEF Progress
<1> QED
  BY <1>1, <1>2, <1>9, <1>10 DEF Inv

\* Fails: the committed tables never changed.
LEMMA FailsInv == ASSUME Inv, Fails PROVE Inv'
<1>1. /\ tx # NoTx /\ tx' = NoTx /\ todo' = <<>> /\ op' = NoOp
      /\ db' = db /\ stored' = stored /\ ops' = ops /\ crashes' = crashes
  BY DEF Fails
<1>2. stored \in Configs /\ Shows(db, stored)
  BY <1>1 DEF Inv
<1> QED
  BY <1>1, <1>2 DEF Inv

\* Commit, after the last statement.
LEMMA CommitIs ==
    ASSUME Inv, Commit
    PROVE  /\ op \in Store!Ops /\ Store!Accepts(stored, op)
           /\ Shows(db, stored) /\ Shows(db', Store!Edited(stored, op))
<1> DEFINE s == Statements(stored, db, op)
<1>1. tx # NoTx /\ todo = <<>> /\ db' = tx
  BY DEF Commit
<1>2. /\ op # NoOp /\ op \in Store!Ops /\ stored \in Configs
      /\ Store!Accepts(stored, op) /\ Shows(db, stored)
  BY <1>1 DEF Inv
<1>3. PICK k \in 0 .. Len(s) : Stage(stored, db, op, k, tx) /\ todo = SubSeq(s, k + 1, Len(s))
  BY <1>1 DEF Inv, Progress
<1>4. PICK S : s \in Seq(S)
  BY <1>2, SomeStatements
<1>5. k = Len(s)
  <2> HIDE DEF s
  <2> QED
    BY <1>1, <1>3, <1>4, LeftOver
<1>6. Shows(tx, Store!Edited(stored, op))
  BY <1>2, <1>3, <1>5, EditMade
<1> QED
  BY <1>1, <1>2, <1>6

\* Between the commit and setStored the tables show the edit.
LEMMA CommitInv == ASSUME Inv, Commit PROVE Inv'
<1>1. /\ tx' = NoTx /\ todo' = <<>> /\ op' = op /\ stored' = stored
      /\ ops' = ops /\ crashes' = crashes
  BY DEF Commit
<1>2. /\ op \in Store!Ops /\ Store!Accepts(stored, op)
      /\ Shows(db', Store!Edited(stored, op))
  BY CommitIs
<1>3. op # NoOp
  BY <1>2, NoOpIsNone
<1> QED
  BY <1>1, <1>2, <1>3 DEF Inv

\* SetStored: the runner's copy catches up.
LEMMA SetStoredInv == ASSUME Inv, SetStored PROVE Inv'
<1>1. /\ op # NoOp /\ tx = NoTx /\ stored' = Store!Edited(stored, op) /\ op' = NoOp
      /\ db' = db /\ tx' = tx /\ todo' = todo /\ ops' = ops /\ crashes' = crashes
  BY DEF SetStored
<1>2. stored' \in Configs /\ Shows(db, stored')
  BY <1>1, EditedInConfigs DEF Inv
<1> QED
  BY <1>1, <1>2 DEF Inv

\* Restart: what is loaded is what the tables show.
LEMMA RestartInv == ASSUME Inv, Restart PROVE Inv'
<1>1. /\ tx' = NoTx /\ todo' = <<>> /\ op' = NoOp /\ stored' = Loaded(db)
      /\ db' = db /\ ops' = ops /\ crashes' \in 0 .. MaxCrashes
  <2>1. crashes < MaxCrashes /\ crashes' = crashes + 1 /\ crashes \in 0 .. MaxCrashes
    BY DEF Restart, Inv
  <2>2. crashes' \in 0 .. MaxCrashes
    BY <2>1, BoundsAreNaturals
  <2> QED
    BY <2>2 DEF Restart
<1>2. PICK c \in Configs : Shows(db, c)
  BY AlwaysShown
<1>3. stored' = c
  BY <1>1, <1>2, ShownIsLoaded
<1> QED
  BY <1>1, <1>2, <1>3 DEF Inv

\* Every step keeps the invariant.
LEMMA NextInv == ASSUME Inv, [Next]_vars PROVE Inv'
<1>1. CASE UNCHANGED vars
  BY <1>1 DEF vars, Inv, Progress
<1>2. CASE Next
  BY <1>2, BeginInv, ExecInv, FailsInv, CommitInv, SetStoredInv, RestartInv DEF Next
<1> QED
  BY <1>1, <1>2

\* The tables and the runner's copy always agree, up to the edit between them.
LEMMA Invariant == Spec => []Inv
<1> QED
  BY InitInv, NextInv, PTL DEF Spec

-----------------------------------------------------------------------------
(* The theorems.                                                            *)

\* Every state of the database, the transaction and the runner's copy is of its type.
THEOREM TypeCorrect == Spec => []TypeOK
<1>1. ASSUME Inv PROVE TypeOK
  <2>1. db \in Tables
    BY <1>1, AlwaysShown, ShowsTables
  <2>2. tx \in Tables \cup {NoTx}
    <3>1. SUFFICES ASSUME tx # NoTx PROVE tx \in Tables
      OBVIOUS
    <3>2. /\ op \in Store!Ops /\ stored \in Configs /\ Store!Accepts(stored, op)
          /\ Shows(db, stored) /\ Progress
      BY <1>1, <3>1 DEF Inv
    <3> QED
      BY <3>2, StageTables DEF Progress
  <2>3. /\ stored.settings \in Settings \cup {NoSettings}
        /\ stored.apis \in Seq(Store!API) /\ stored.maps \in Seq(Store!MapTarget)
    BY <1>1, ConfigsAreDrafts DEF Inv
  <2> QED
    BY <1>1, <2>1, <2>2, <2>3 DEF Inv, TypeOK
<1> QED
  BY Invariant, <1>1, PTL

\* Between edits the runner's copy is what a Load of the tables returns.
THEOREM StoredLoaded == Spec => []StoredIsLoaded
<1>1. ASSUME Inv PROVE StoredIsLoaded
  BY <1>1, ShownIsLoaded DEF Inv, StoredIsLoaded
<1> QED
  BY Invariant, <1>1, PTL

\* Every version and static column belongs to a map.
THEOREM NoOrphans == Spec => []NoOrphanRows
<1>1. ASSUME Inv PROVE NoOrphanRows
  <2>1. PICK c \in Configs : Shows(db, c)
    BY <1>1, AlwaysShown
  <2>2. PICK l \in Layouts(c) : db = TablesOf(c, l)
    BY <2>1 DEF Shows
  <2>3. db.maps = MapRows(c, l) /\ db.versions = VersionRows(c, l) /\ db.statics = StaticRows(c, l)
    BY <2>2, DatabaseFields DEF TablesOf
  <2>4. \A i \in 1 .. Len(c.maps) : \E r \in MapRows(c, l) : r.row = l.rows[i]
    <3>1. ASSUME NEW i \in 1 .. Len(c.maps)
          PROVE  MapRow(c, l, i) \in MapRows(c, l) /\ MapRow(c, l, i).row = l.rows[i]
      BY DEF MapRows, MapRow
    <3> QED
      BY <3>1
  <2>5. \A v \in VersionRows(c, l) : \E i \in 1 .. Len(c.maps) : v.map = l.rows[i]
    BY DEF VersionRows, VersionRow
  <2>6. \A s \in StaticRows(c, l) : \E i \in 1 .. Len(c.maps) : s.map = l.rows[i]
    BY DEF StaticRows
  <2> QED
    BY <2>3, <2>4, <2>5, <2>6 DEF NoOrphanRows
<1> QED
  BY Invariant, <1>1, PTL

\* A Load at any moment sees the configuration before an edit or after it: the
\* database implements the store, an edit taking effect when it commits.
THEOREM EditsAtomic == Spec => EditsAreAtomic
<1>1. Init => Store!Init
  <2> SUFFICES ASSUME Init PROVE Loaded(db) = Store!Empty
    BY DEF Store!Init
  <2>1. db = EmptyTables
    BY DEF Init
  <2> QED
    BY <2>1, NoConfiguration, ShownIsLoaded
<1>2. ASSUME Inv, [Next]_vars
      PROVE  [Store!Next]_(Loaded(db))
  <2>1. CASE Commit
    <3>1. /\ op \in Store!Ops /\ Store!Accepts(stored, op)
          /\ Shows(db, stored) /\ Shows(db', Store!Edited(stored, op))
      BY <1>2, <2>1, CommitIs
    <3>2. Loaded(db) = stored
      BY <3>1, ShownIsLoaded
    <3>3. Loaded(db') = Store!Edited(stored, op)
      BY <3>1, ShownIsLoaded
    <3>4. Loaded(db)' = Loaded(db')
      OBVIOUS
    <3> QED
      BY <3>1, <3>2, <3>3, <3>4 DEF Store!Next
  <2>2. CASE db' = db
    <3>1. Loaded(db)' = Loaded(db)
      BY <2>2
    <3> QED
      BY <3>1
  <2>3. Commit \/ db' = db
    BY <1>2 DEF Next, Begin, Exec, Fails, SetStored, Restart, vars
  <2> QED
    BY <2>1, <2>2, <2>3
<1> QED
  BY Invariant, <1>1, <1>2, PTL DEF Spec, EditsAreAtomic, Store!Spec
=============================================================================
