--------------------------- MODULE GeoStoreProofs ---------------------------
(***************************************************************************)
(* Theorems about GeoStore, for any maps, versions, objects and batch      *)
(* size: its types, that a pass implements whole syncs (GeoSync), and that *)
(* a pass without failures leaves a map as its versions reported it.       *)
(***************************************************************************)
EXTENDS GeoStore, TLAPS

USE DEF Scope, Rows

\* The configuration of a process that has applied nothing yet is one.
LEMMA NotConfiguredType == NotConfigured \in Config /\ NoReporter \in [UUID -> Version \cup {NoVersion}]
BY DEF NotConfigured, Config, NoReporter

\* What can be reported for a map are uuids.
LEMMA ReportedKnown == \A m \in MapId : ObjectsOf[m] \subseteq UUID
BY DEF UUID

\* Where a version of the running pass goes.
LEMMA HereType == TypeOK /\ Left => Here \in Scope
<1> SUFFICES ASSUME TypeOK, Left PROVE Here \in Scope
  OBVIOUS
<1>1. map \in MapId /\ snap.versions[map] \in Seq(Version)
  BY DEF TypeOK, Left, Idle, Config
<1>2. at \in 1..Len(snap.versions[map])
  BY <1>1 DEF TypeOK, Left
<1>3. snap.versions[map][at] \in Version
  BY <1>1, <1>2
<1> QED
  BY <1>1, <1>3 DEF Here

-----------------------------------------------------------------------------
(* Types. *)

\* What an open transaction holds: the committed rows, with the objects upserted
\* so far moved to the version being synced and, once pruned, without the other
\* rows of that version.
TxInv ==
    tx # NoTx =>
        /\ Left
        /\ fetched \subseteq ObjectsOf[map]
        /\ pruned => rest = {} /\ snap.prune
        /\ tx = [u \in UUID |-> IF u \in fetched \ rest THEN Here
                                ELSE IF pruned /\ table[u] = Here THEN NoRow
                                ELSE table[u]]

\* The types hold at the start.
LEMMA TypeInit == Init => TypeOK
<1> SUFFICES ASSUME Init PROVE TypeOK
  OBVIOUS
<1>1. cfg \in Config /\ snap \in Config /\ reporter \in [UUID -> Version \cup {NoVersion}]
  BY NotConfiguredType DEF Init
<1>2. cols \in (SUBSET Columns) \cup {NoTable}
  BY KnownCols DEF Init
<1>3. table \in Rows /\ tx \in Rows \cup {NoTx}
  BY DEF Init
<1>4. rest \subseteq fetched /\ fetched \subseteq UUID /\ maps \subseteq MapId
  BY DEF Init
<1>5. pruned \in BOOLEAN /\ failed \in BOOLEAN
  BY DEF Init
<1>6. map \in MapId \cup {NoMap} /\ at \in Nat \ {0} /\ applies \in 0..MaxApplies
  BY SomeRows DEF Init
<1> QED
  BY <1>1, <1>2, <1>3, <1>4, <1>5, <1>6 DEF TypeOK

\* The parts of TypeOK the running pass works on.
PassOK == /\ snap \in Config
          /\ maps \subseteq MapId /\ map \in MapId \cup {NoMap}
          /\ at \in Nat \ {0}
          /\ rest \subseteq fetched /\ fetched \subseteq UUID
          /\ pruned \in BOOLEAN /\ failed \in BOOLEAN
          /\ reporter \in [UUID -> Version \cup {NoVersion}]

\* Leaving a version, whatever became of it, keeps the pass well typed.
LEMMA NextVersionType ==
    ASSUME PassOK, NEW ok \in BOOLEAN, NextVersion(ok),
           reporter' \in [UUID -> Version \cup {NoVersion}]
    PROVE  PassOK'
<1>1. failed' \in BOOLEAN
  BY Zenon DEF NextVersion, PassOK
<1>2. rest' \subseteq fetched' /\ fetched' \subseteq UUID
  BY DEF NextVersion, Quiet
<1>3. pruned' \in BOOLEAN
  BY DEF NextVersion, Quiet
<1>4. at' \in Nat \ {0}
  BY DEF NextVersion, PassOK
<1> QED
  BY <1>1, <1>2, <1>3, <1>4 DEF NextVersion, PassOK

\* So does going on to another map, or to none.
LEMMA StartMapType ==
    ASSUME snap' \in Config, NEW m \in MapId \cup {NoMap}, NEW left \in SUBSET MapId,
           StartMap(m, left), Quiet
    PROVE  PassOK'
<1>1. rest' \subseteq fetched' /\ fetched' \subseteq UUID
  BY DEF Quiet
<1>2. pruned' \in BOOLEAN /\ failed' \in BOOLEAN
  BY DEF Quiet, StartMap
<1>3. at' \in Nat \ {0} /\ maps' \subseteq MapId /\ map' \in MapId \cup {NoMap}
  BY DEF StartMap
<1> QED
  BY <1>1, <1>2, <1>3, NotConfiguredType DEF StartMap, PassOK

\* Every step keeps the types.
LEMMA TypeNext == TypeOK /\ TxInv /\ [Next]_vars => TypeOK'
<1> SUFFICES ASSUME TypeOK, TxInv, [Next]_vars PROVE TypeOK'
  OBVIOUS
<1>0. PassOK
  BY DEF TypeOK, PassOK
<1>a. ASSUME PassOK', UNCHANGED <<cfg, cols, applies>>,
             table' \in Rows, tx' \in Rows \cup {NoTx}
      PROVE  TypeOK'
  BY <1>a DEF TypeOK, PassOK
<1>b. ASSUME UNCHANGED passVars PROVE PassOK'
  BY <1>0, <1>b DEF passVars, PassOK
<1>1. CASE Apply
  <2>1. cfg' \in Config /\ cols' \in (SUBSET Columns) \cup {NoTable}
    BY <1>1, KnownConfigs DEF Apply, EnsureSchema, TypeOK, Config
  <2> QED
    BY <1>1, <1>b, <2>1, SomeRows DEF Apply, Counted, TypeOK, PassOK
<1>2. ASSUME NEW m \in MapId, Purge(m) PROVE TypeOK'
  <2>1. cfg' \in Config
    <3>1. <<>> \in Seq(Version)
      OBVIOUS
    <3>2. [cfg.versions EXCEPT ![m] = <<>>] \in [MapId -> Seq(Version)]
      BY <3>1 DEF TypeOK, Config
    <3> QED
      BY <1>2, <3>2 DEF Purge, TypeOK, Config
  <2>2. table' \in Rows
    BY <1>2 DEF Purge, TypeOK
  <2> QED
    BY <1>2, <1>b, <2>1, <2>2, SomeRows DEF Purge, Counted, TypeOK, PassOK
<1>3. CASE Begin
  <2>1. PICK due \in SUBSET MapId : \E m \in due : StartMap(m, due \ {m})
    BY <1>3 DEF Begin
  <2>2. PICK m \in due : StartMap(m, due \ {m})
    BY <2>1
  <2>3. PassOK'
    BY <1>3, <2>2, StartMapType DEF Begin, TypeOK
  <2> QED
    BY <1>3, <1>a, <2>3 DEF Begin, TypeOK
<1>4. CASE FetchFails
  BY <1>0, <1>4, <1>a, NextVersionType DEF FetchFails, TypeOK
<1>5. CASE FetchedNothing
  BY <1>0, <1>5, <1>a, NextVersionType DEF FetchedNothing, TypeOK
<1>6. CASE Fetched
  <2>1. PassOK'
    BY <1>0, <1>6, ReportedKnown DEF Fetched, Left, Idle, PassOK
  <2> QED
    BY <1>6, <1>a, <2>1 DEF Fetched, TypeOK
<1>7. CASE UpsertBatch
  <2>1. PICK batch \in SUBSET rest : tx' = Upserted(batch) /\ rest' = rest \ batch
    BY <1>7 DEF UpsertBatch
  <2>2. tx' \in Rows
    BY <1>7, <2>1, HereType DEF UpsertBatch, Upserted, TxInv, TypeOK
  <2>3. PassOK'
    BY <1>0, <1>7, <2>1 DEF UpsertBatch, PassOK
  <2> QED
    BY <1>7, <1>a, <2>2, <2>3 DEF UpsertBatch, TypeOK
<1>8. CASE PruneMissing
  <2>1. tx' \in Rows
    BY <1>8 DEF PruneMissing, Pruned, TypeOK
  <2>2. PassOK'
    BY <1>0, <1>8 DEF PruneMissing, PassOK
  <2> QED
    BY <1>8, <1>a, <2>1, <2>2 DEF PruneMissing, TypeOK
<1>9. CASE Commit
  <2>1. reporter' \in [UUID -> Version \cup {NoVersion}]
    BY <1>9, HereType DEF Commit, TxInv, TypeOK
  <2>2. PassOK'
    BY <1>0, <1>9, <2>1, NextVersionType DEF Commit
  <2> QED
    BY <1>9, <1>a, <2>2 DEF Commit, TypeOK
<1>10. CASE Fails
  <2>1. PassOK'
    BY <1>0, <1>10, NextVersionType DEF Fails, PassOK
  <2> QED
    BY <1>10, <1>a, <2>1 DEF Fails, TypeOK
<1>11. CASE NextMap
  <2>1. snap' \in Config
    BY <1>0, <1>11, NotConfiguredType DEF NextMap, PassOK
  <2>2. PassOK'
    <3>1. CASE maps = {}
      BY <1>11, <2>1, <3>1, StartMapType DEF NextMap
    <3>2. CASE maps # {}
      BY <1>0, <1>11, <2>1, <3>2, StartMapType DEF NextMap, PassOK
    <3> QED
      BY <3>1, <3>2
  <2> QED
    BY <1>11, <1>a, <2>2 DEF NextMap, TypeOK
<1>12. CASE Restart
  <2>1. PassOK' /\ cfg' \in Config
    BY <1>12, NotConfiguredType, StartMapType DEF Restart
  <2> QED
    BY <1>12, <2>1, SomeRows DEF Restart, Counted, TypeOK, PassOK
<1>13. CASE UNCHANGED vars
  BY <1>13 DEF vars, passVars, TypeOK
<1> QED
  BY <1>1, <1>2, <1>3, <1>4, <1>5, <1>6, <1>7, <1>8, <1>9, <1>10, <1>11, <1>12, <1>13 DEF Next

-----------------------------------------------------------------------------
(* The transaction. *)

\* Every step keeps what an open transaction holds.
LEMMA TxNext == TypeOK /\ TxInv /\ [Next]_vars => TxInv'
<1> SUFFICES ASSUME TypeOK, TxInv, [Next]_vars, tx' # NoTx
             PROVE  TxInv'
  BY DEF TxInv
<1>0. UNCHANGED <<table, tx, passVars>> => TxInv'
  BY DEF TxInv, passVars, Left, Idle, Here
<1>1. CASE Apply
  BY <1>0, <1>1 DEF Apply
<1>2. CASE Fetched
  <2>1. Left' /\ Here' = Here
    BY <1>2 DEF Fetched, Left, Idle, Here
  <2>2. fetched' \subseteq ObjectsOf[map'] /\ fetched' \ rest' = {} /\ ~pruned'
    BY <1>2 DEF Fetched
  <2>3. tx' = table' /\ table' = [u \in UUID |-> table'[u]]
    BY <1>2 DEF Fetched, TypeOK
  <2> QED
    BY <2>1, <2>2, <2>3 DEF TxInv
<1>3. CASE UpsertBatch
  <2>1. PICK batch \in SUBSET rest : tx' = Upserted(batch) /\ rest' = rest \ batch
    BY <1>3 DEF UpsertBatch
  <2>2. Left' /\ Here' = Here /\ UNCHANGED <<table, fetched, pruned, map>>
    BY <1>3 DEF UpsertBatch, TxInv, Left, Idle, Here
  <2>3. ~pruned /\ Left /\ fetched \subseteq ObjectsOf[map]
    BY <1>3 DEF UpsertBatch, TxInv
  <2>4. tx = [u \in UUID |-> IF u \in fetched \ rest THEN Here ELSE table[u]]
    BY <1>3, <2>3 DEF UpsertBatch, TxInv
  <2>5. \A u : u \in fetched \ rest' <=> u \in batch \/ u \in fetched \ rest
    BY <2>1 DEF TypeOK
  <2>6. tx' = [u \in UUID |-> IF u \in fetched \ rest' THEN Here ELSE table[u]]
    BY <2>1, <2>4, <2>5 DEF Upserted
  <2> QED
    BY <2>2, <2>3, <2>6 DEF TxInv
<1>4. CASE PruneMissing
  <2>1. Left' /\ Here' = Here /\ pruned' /\ UNCHANGED <<table, fetched, rest, map, snap>>
    BY <1>4 DEF PruneMissing, TxInv, Left, Idle, Here
  <2>2. rest = {} /\ ~pruned /\ snap.prune /\ Left /\ fetched \subseteq ObjectsOf[map]
    BY <1>4 DEF PruneMissing, TxInv
  <2>3. tx = [u \in UUID |-> IF u \in fetched THEN Here ELSE table[u]]
    BY <1>4, <2>2 DEF PruneMissing, TxInv
  <2>4. tx' = [u \in UUID |-> IF u \in fetched THEN Here
                              ELSE IF table[u] = Here THEN NoRow ELSE table[u]]
    BY <1>4, <2>3 DEF PruneMissing, Pruned
  <2> QED
    BY <2>1, <2>2, <2>4 DEF TxInv
<1>5. CASE UNCHANGED vars
  BY <1>0, <1>5 DEF vars
<1>6. CASE Begin
  BY <1>6 DEF Begin, TxInv, Left
<1>7. CASE NextMap
  BY <1>7 DEF NextMap, TxInv
<1>8. CASE \E m \in MapId : Purge(m)
  BY <1>8 DEF Purge, TxInv, Left
<1> QED
  BY <1>1, <1>2, <1>3, <1>4, <1>5, <1>6, <1>7, <1>8
     DEF Next, FetchFails, FetchedNothing, Commit, Fails, Restart

\* The types and what a transaction holds are inductive together: that an
\* upsert is well typed rests on the transaction's version being one.
THEOREM TypeTxInvariance == Spec => [](TypeOK /\ TxInv)
<1>1. Init => TypeOK /\ TxInv
  BY TypeInit DEF Init, TxInv
<1>2. TypeOK /\ TxInv /\ [Next]_vars => (TypeOK /\ TxInv)'
  BY TypeNext, TxNext
<1> QED
  BY <1>1, <1>2, PTL DEF Spec

\* Every reachable state is well typed.
THEOREM TypeCorrect == Spec => []TypeOK
BY TypeTxInvariance, PTL

-----------------------------------------------------------------------------
(* Implementation of GeoSync. *)

\* What a transaction about to commit holds.
LEMMA Committed ==
    ASSUME TypeOK, TxInv, Commit
    PROVE  table' = [u \in UUID |-> IF u \in fetched THEN Here
                                    ELSE IF snap.prune /\ table[u] = Here THEN NoRow
                                    ELSE table[u]]
<1>1. rest = {} /\ (snap.prune <=> pruned) /\ table' = tx
  BY DEF Commit, TxInv
<1> QED
  BY <1>1 DEF Commit, TxInv

\* An open transaction stores a fetch.
LEMMA StoringFetch ==
    ASSUME TypeOK, TxInv, tx # NoTx
    PROVE  /\ Storing = [at |-> Here, objects |-> fetched, prune |-> snap.prune]
           /\ Storing # NoTx
<1>1. Here \in Scope /\ fetched \in SUBSET UUID /\ snap.prune \in BOOLEAN
  BY HereType DEF TxInv, TypeOK, Config
<1>2. Storing = [at |-> Here, objects |-> fetched, prune |-> snap.prune]
  BY DEF Storing
<1>3. Storing \in Fetches
  BY <1>1, <1>2 DEF Fetches
<1> QED
  BY <1>2, <1>3, NoTxDistinct

\* A commit stores the whole fetch its transaction was begun for.
LEMMA CommitStores ==
    ASSUME TypeOK, TxInv, Commit
    PROVE  Geo!Store
<1>1. /\ Storing = [at |-> Here, objects |-> fetched, prune |-> snap.prune]
      /\ Storing # NoTx /\ Storing' = NoTx
  BY StoringFetch DEF Commit, Storing
<1>2. table' = [u \in UUID |-> IF u \in fetched THEN Here
                               ELSE IF snap.prune /\ table[u] = Here THEN NoRow
                               ELSE table[u]]
  BY Committed
<1> QED
  BY <1>1, <1>2 DEF Geo!Store, Geo!UUID, UUID

\* A transaction begins with a fetch of the version the pass is at.
LEMMA FetchedFetches ==
    ASSUME TypeOK, Fetched
    PROVE  Geo!Next
<1>1. Here \in Scope /\ map \in MapId /\ snap.prune \in BOOLEAN
  BY HereType DEF Fetched, Left, Idle, TypeOK, Config
<1>2. Here = [map |-> map, version |-> Here.version] /\ Here.version \in Version
  BY <1>1 DEF Here
<1>3. PICK objects \in SUBSET ObjectsOf[map] : fetched' = objects
  BY DEF Fetched
<1>4. Here' = Here /\ tx' # NoTx /\ UNCHANGED <<snap, table>>
  BY NoTxDistinct DEF Fetched, Here, TypeOK
<1>5. Storing = NoTx
  BY DEF Fetched, Storing
<1>6. Storing' = [at |-> Here, objects |-> objects, prune |-> snap.prune]
  BY <1>3, <1>4 DEF Storing
<1>7. Storing' = [at |-> [map |-> map, version |-> Here.version],
                  objects |-> objects, prune |-> snap.prune]
  BY <1>2, <1>6
<1>8. Geo!Fetch(map, Here.version, objects, snap.prune)
  BY <1>4, <1>5, <1>7 DEF Geo!Fetch
<1> QED
  BY <1>1, <1>2, <1>3, <1>8 DEF Geo!Next

\* A transaction rolled back, or lost with its process, stores nothing.
LEMMA RollbackGivesUp ==
    ASSUME TypeOK, TxInv, tx # NoTx, tx' = NoTx, UNCHANGED table
    PROVE  Geo!GiveUp
<1>1. Storing # NoTx /\ Storing' = NoTx
  BY StoringFetch DEF Storing
<1> QED
  BY <1>1 DEF Geo!GiveUp

\* The table changes only by whole syncs and purges: a pass with its batches,
\* failures and crashes implements GeoSync.
THEOREM WholeSyncs == Spec => SyncsAreWhole
<1>1. Init => Geo!Init
  BY DEF Init, Geo!Init, Geo!UUID, UUID, Storing
<1>2. TypeOK /\ TxInv /\ [Next]_vars => [Geo!Next]_(Geo!vars)
  <2> SUFFICES ASSUME TypeOK, TxInv, [Next]_vars
               PROVE  Geo!Next \/ UNCHANGED <<table, Storing>>
    BY DEF Geo!vars
  <2>1. CASE Commit
    BY <2>1, CommitStores DEF Geo!Next
  <2>2. ASSUME NEW m \in MapId, Purge(m) PROVE Geo!Next \/ UNCHANGED <<table, Storing>>
    <3>1. tx = NoTx /\ tx' = NoTx
      BY <2>2 DEF Purge, TxInv, Left
    <3>2. Storing = NoTx /\ Storing' = NoTx
      BY <3>1 DEF Storing
    <3>3. Geo!Purge(m) \/ UNCHANGED <<table, Storing>>
      <4>1. CASE UNCHANGED table
        BY <3>2, <4>1
      <4>2. CASE table' = [u \in UUID |-> IF table[u] \in [map : {m}, version : Version]
                                          THEN NoRow ELSE table[u]]
        BY <3>2, <4>2 DEF Geo!Purge, Geo!UUID, UUID
      <4> QED
        BY <2>2, <4>1, <4>2 DEF Purge
    <3> QED
      BY <3>3 DEF Geo!Next
  <2>3. CASE Fetched
    BY <2>3, FetchedFetches
  <2>4. CASE Fails
    BY <2>4, RollbackGivesUp DEF Fails, Geo!Next
  <2>5. CASE Restart
    <3>1. CASE tx = NoTx
      BY <2>5, <3>1 DEF Restart, Storing
    <3>2. CASE tx # NoTx
      BY <2>5, <3>2, RollbackGivesUp DEF Restart, Geo!Next
    <3> QED
      BY <3>1, <3>2
  <2>6. CASE UpsertBatch \/ PruneMissing \/ Apply
    <3>1. CASE Apply
      BY <3>1 DEF Apply, passVars, Storing, Here
    <3>2. CASE UpsertBatch \/ PruneMissing
      <4>1. tx # NoTx /\ Left
        BY <3>2 DEF UpsertBatch, PruneMissing, TxInv
      <4>2. tx' \in Rows
        <5>1. CASE UpsertBatch
          BY <4>1, <5>1, HereType DEF UpsertBatch, Upserted, TypeOK
        <5>2. CASE PruneMissing
          BY <4>1, <5>2 DEF PruneMissing, Pruned, TypeOK
        <5> QED
          BY <3>2, <5>1, <5>2
      <4>3. tx' # NoTx
        BY <4>2, NoTxDistinct
      <4> QED
        BY <3>2, <4>1, <4>3 DEF UpsertBatch, PruneMissing, Storing, Here
    <3> QED
      BY <2>6, <3>1, <3>2
  <2>7. CASE FetchFails \/ FetchedNothing
    BY <2>7 DEF FetchFails, FetchedNothing, Storing
  <2>8. CASE Begin \/ NextMap
    <3>1. tx = NoTx
      BY <2>8 DEF Begin, NextMap, TxInv, Left
    <3> QED
      BY <2>8, <3>1 DEF Begin, NextMap, Storing
  <2>9. CASE UNCHANGED vars
    BY <2>9 DEF vars, passVars, Storing, Here
  <2> QED
    BY <2>1, <2>2, <2>3, <2>4, <2>5, <2>6, <2>7, <2>8, <2>9 DEF Next
<1> QED
  BY <1>1, <1>2, TypeTxInvariance, PTL DEF Spec, SyncsAreWhole, Geo!Spec

-----------------------------------------------------------------------------
(* A pass over a map. *)

Done == {snap.versions[map][i] : i \in {j \in DOMAIN snap.versions[map] : j < at}}

\* MapSyncedWhole in the middle of a pass: the same of the versions done.
DoneInv ==
    ~Idle /\ ~failed =>
        \A u \in ObjectsOf[map] :
            /\ reporter[u] # NoVersion => table[u] = [map |-> map, version |-> reporter[u]]
            /\ snap.prune /\ reporter[u] = NoVersion
                 => \A v \in Done : table[u] # [map |-> map, version |-> v]

\* What is done, and what is known of it, stays as long as the pass stays where
\* it is and the table does.
LEMMA DoneKept ==
    ASSUME DoneInv, UNCHANGED <<snap, map, at, failed, reporter, table>>
    PROVE  DoneInv'
BY DEF DoneInv, Done, Idle

\* A commit adds its version to those done.
LEMMA DoneCommit ==
    ASSUME TypeOK, TxInv, DoneInv, Commit
    PROVE  DoneInv'
<1> SUFFICES ASSUME ~failed, NEW u \in ObjectsOf[map]
             PROVE  /\ reporter'[u] # NoVersion
                         => table'[u] = [map |-> map, version |-> reporter'[u]]
                    /\ snap.prune /\ reporter'[u] = NoVersion
                         => \A v \in Done' : table'[u] # [map |-> map, version |-> v]
  BY ZenonT(60) DEF DoneInv, Commit, NextVersion, Idle
<1>1. Left /\ u \in UUID
  BY ReportedKnown DEF Commit, TxInv, Left, Idle, TypeOK
<1>2. /\ Here \in Scope /\ Here = [map |-> map, version |-> Here.version]
      /\ Here.version \in Version /\ Here.version # NoVersion
  BY <1>1, HereType, DistinctNone DEF Here
<1>3. table'[u] = IF u \in fetched THEN Here
                  ELSE IF snap.prune /\ table[u] = Here THEN NoRow ELSE table[u]
  BY <1>1, Committed
<1>4. reporter'[u] = IF u \in fetched THEN Here.version
                     ELSE IF reporter[u] = Here.version THEN NoVersion ELSE reporter[u]
  BY <1>1 DEF Commit
<1>5. \A v \in Done' : v \in Done \/ v = Here.version
  BY <1>1 DEF Commit, NextVersion, Done, Here, TypeOK, Left
<1>6. \A v : NoRow # [map |-> map, version |-> v] \/ v \notin Version
  BY <1>1, DistinctNone DEF Left, Idle, TypeOK
<1>7. Done \subseteq Version
  BY <1>1 DEF Done, Left, Idle, TypeOK, Config
<1>8. /\ reporter[u] # NoVersion => table[u] = [map |-> map, version |-> reporter[u]]
      /\ snap.prune /\ reporter[u] = NoVersion
           => \A v \in Done : table[u] # [map |-> map, version |-> v]
  BY <1>1 DEF DoneInv, Left
<1>9. reporter'[u] # NoVersion => table'[u] = [map |-> map, version |-> reporter'[u]]
  BY <1>2, <1>3, <1>4, <1>8
<1>10. ASSUME snap.prune, reporter'[u] = NoVersion, NEW v \in Done'
       PROVE  table'[u] # [map |-> map, version |-> v]
  <2>1. u \notin fetched
    BY <1>2, <1>4, <1>10
  <2>2. CASE table[u] = Here
    BY <1>2, <1>3, <1>5, <1>6, <1>7, <1>10, <2>1, <2>2
  <2>3. CASE table[u] # Here
    BY <1>2, <1>3, <1>4, <1>5, <1>8, <1>10, <2>1, <2>3
  <2> QED
    BY <2>2, <2>3
<1> QED
  BY <1>9, <1>10

\* Every step keeps what is known of the versions done.
LEMMA DoneNext == TypeOK /\ TxInv /\ DoneInv /\ [Next]_vars => DoneInv'
<1> SUFFICES ASSUME TypeOK, TxInv, DoneInv, [Next]_vars PROVE DoneInv'
  OBVIOUS
<1>1. CASE Apply \/ Fetched \/ UpsertBatch \/ PruneMissing \/ UNCHANGED vars
  BY <1>1, DoneKept DEF Apply, Fetched, UpsertBatch, PruneMissing, vars, passVars
<1>2. CASE \E m \in MapId : Purge(m)
  BY <1>2 DEF Purge, passVars, Idle, DoneInv
<1>3. ASSUME NEW m, NEW left, StartMap(m, left) PROVE DoneInv'
  <2> SUFFICES ASSUME ~Idle', NEW u \in ObjectsOf[map']
               PROVE  reporter'[u] = NoVersion /\ Done' = {}
    BY Zenon DEF DoneInv
  <2>1. map' \in MapId /\ snap' \in Config
    BY TypeNext DEF TypeOK, Idle
  <2>2. reporter'[u] = NoVersion
    BY <1>3, <2>1, ReportedKnown DEF StartMap, NoReporter
  <2>3. snap'.versions[map'] \in Seq(Version) /\ at' = 1
    BY <1>3, <2>1 DEF StartMap, Config
  <2> QED
    BY <2>2, <2>3 DEF Done
<1>4. CASE Begin
  BY <1>3, <1>4 DEF Begin
<1>5. CASE FetchFails \/ Fails
  BY <1>5, Zenon DEF FetchFails, Fails, NextVersion, DoneInv
<1>6. CASE FetchedNothing
  BY <1>6 DEF FetchedNothing, NextVersion, DoneInv, Idle
<1>7. CASE Commit
  BY <1>7, DoneCommit
<1>8. CASE NextMap
  BY <1>3, <1>8 DEF NextMap
<1>9. CASE Restart
  BY <1>3, <1>9 DEF Restart
<1> QED
  BY <1>1, <1>2, <1>4, <1>5, <1>6, <1>7, <1>8, <1>9 DEF Next

\* After a pass over a map in which nothing failed, the map's rows are what its
\* versions reported, each under the last version to report it.
THEOREM MapWhole == Spec => []MapSyncedWhole
<1>1. Init => DoneInv
  BY DEF Init, DoneInv, Idle
<1>2. TypeOK /\ DoneInv => MapSyncedWhole
  <2> SUFFICES ASSUME TypeOK, DoneInv, ~Idle, ~Left, ~failed, NEW u \in ObjectsOf[map]
               PROVE  /\ reporter[u] # NoVersion
                           => table[u] = [map |-> map, version |-> reporter[u]]
                      /\ snap.prune /\ reporter[u] = NoVersion
                           => table[u] \notin [map : {map}, version : Synced]
    BY DEF MapSyncedWhole
  <2>1. Synced = Done
    BY DEF Synced, Done, Left, Idle, TypeOK, Config
  <2> QED
    BY <2>1 DEF DoneInv
<1> QED
  BY <1>1, <1>2, DoneNext, TypeTxInvariance, PTL DEF Spec
=============================================================================
