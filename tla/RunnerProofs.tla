---------------------------- MODULE RunnerProofs ----------------------------
(* Theorems about Runner, for any number of maps, APIs, databases, writers,  *)
(* manual syncs, requests and restarts.                                      *)
EXTENDS Runner, TLAPS

-----------------------------------------------------------------------------
(* What the operators on configurations preserve. *)

\* An edit of a configuration is a configuration.
LEMMA EditType ==
    ASSUME NEW c \in Config, NEW r \in Requests
    PROVE  Edit(c, r) \in Config
<1>1. CASE r \in PutMap
  BY <1>1 DEF PutMap, Edit, MapEdits, APIEdits, Config
<1>2. CASE r \in DropMap
  BY <1>2 DEF DropMap, Edit, MapEdits, APIEdits, Config
<1>3. CASE r \in PutAPI
  BY <1>3 DEF PutAPI, Edit, MapEdits, APIEdits, Config
<1>4. CASE r \in DropAPI
  BY <1>4 DEF DropAPI, Edit, MapEdits, APIEdits, Config
<1>5. CASE r \in PutDB
  BY <1>5 DEF PutDB, Edit, MapEdits, APIEdits, Config
<1> QED
  BY <1>1, <1>2, <1>3, <1>4, <1>5 DEF Requests

\* An edit other than DeleteMap loses no map, and DeleteMap only its own.
LEMMA EditKeepsMaps ==
    ASSUME NEW c \in Config, NEW r \in Requests, NEW m \in MapsOf(c),
           ~(r.kind = "DeleteMap" /\ r.id = m)
    PROVE  m \in MapsOf(Edit(c, r))
<1>1. CASE r \in PutMap
  BY <1>1, NoMapDistinct DEF PutMap, Edit, MapEdits, APIEdits, Config, MapsOf
<1>2. CASE r \in DropMap
  BY <1>2 DEF DropMap, Edit, MapEdits, APIEdits, Config, MapsOf
<1>3. CASE r \in PutAPI
  BY <1>3 DEF PutAPI, Edit, MapEdits, APIEdits, Config, MapsOf
<1>4. CASE r \in DropAPI
  BY <1>4 DEF DropAPI, Edit, MapEdits, APIEdits, Config, MapsOf
<1>5. CASE r \in PutDB
  BY <1>5 DEF PutDB, Edit, MapEdits, APIEdits, Config, MapsOf
<1> QED
  BY <1>1, <1>2, <1>3, <1>4, <1>5 DEF Requests

\* A change that passes the handler's checks leaves every map with its API.
LEMMA EditKeepsValid ==
    ASSUME NEW c \in Config, NEW r \in Requests, ValidMaps(c), Accepts(c, r)
    PROVE  ValidMaps(Edit(c, r))
<1>1. CASE r \in PutMap
  BY <1>1 DEF PutMap, Accepts
<1>2. CASE r \in DropMap
  BY <1>2 DEF DropMap, Edit, MapEdits, APIEdits, Config, MapsOf, ValidMaps
<1>3. CASE r \in PutAPI
  BY <1>3, DistinctNone DEF PutAPI, Edit, MapEdits, APIEdits, Config, MapsOf, ValidMaps, MapCfg
<1>4. CASE r \in DropAPI
  BY <1>4 DEF DropAPI, Accepts, Edit, MapEdits, APIEdits, Config, MapsOf, UsersOf, ValidMaps, MapCfg
<1>5. CASE r \in PutDB
  BY <1>5 DEF PutDB, Edit, MapEdits, APIEdits, Config, MapsOf, ValidMaps
<1> QED
  BY <1>1, <1>2, <1>3, <1>4, <1>5 DEF Requests

-----------------------------------------------------------------------------
(* Types. A handler past its request serves one, a purge serves a deletion,  *)
(* and a pass with maps to sync has a connection.                            *)

OpInv ==
    \A w \in Writers :
        /\ pc[w] # "idle" => op[w] \in Requests
        /\ pc[w] = "purge" => op[w].kind = "DeleteMap"

PassInv == \A p \in SyncProcs : pass[p].todo # {} => pass[p].snap.db \in Handles

TypeInv == TypeOK /\ OpInv /\ PassInv

USE DEF Appliers, SyncProcs, Procs, Goto, Label, WriteHeld, RecordMapVersion, RemoveMap

\* The empty configuration of a fresh install is a configuration.
LEMMA EmptyConfigType == EmptyConfig \in Config
BY DEF EmptyConfig, Config

\* What an unconfigured runner, and a goroutine not syncing, hold is well typed.
LEMMA NoPassType == NotConfigured \in Active /\ NoPass \in Pass
BY EmptyConfigType DEF NotConfigured, Active, NoPass, Pass, EmptyConfig, Config

\* What Init and Restart give the program counters and the connections.
LEMMA BootTypes ==
    /\ BootPc \in [Procs -> Label]
    /\ AllClosed \in [Handles -> DBs \cup {NoDB}]
    /\ \A w \in Writers : BootPc[w] = "idle"
BY DistinctProcs DEF BootPc, AllClosed

\* Only maps have overlay rows to rewrite.
LEMMA OverlayMapsType ==
    ASSUME NEW c \in Config, NEW r \in Requests
    PROVE  OverlayMaps(c, r) \subseteq MapId
<1>1. r.kind \in MapEdits => r.id \in MapId
  BY DEF Requests, PutMap, DropMap, PutAPI, DropAPI, PutDB, MapEdits
<1> QED
  BY <1>1 DEF OverlayMaps, UsersOf, MapsOf

\* The first state after New is well typed.
LEMMA TypeInit == Init => TypeInv
<1> SUFFICES ASSUME Init PROVE TypeInv
  OBVIOUS
<1>1. disk \in Config
  BY FirstConfigsSaved DEF Init
<1>2. TypeOK
  <2>1. requests \in 0..MaxRequests /\ crashes \in 0..MaxCrashes
    BY Bounds DEF Init
  <2>2. /\ pass \in [SyncProcs -> Pass] /\ active \in Active
        /\ work \in [Appliers -> Config]
    BY EmptyConfigType, NoPassType DEF Init
  <2>3. pc \in [Procs -> Label] /\ conn \in [Handles -> DBs \cup {NoDB}]
    BY BootTypes DEF Init
  <2> QED
    BY <1>1, <2>1, <2>2, <2>3 DEF Init, TypeOK
<1>3. OpInv
  BY BootTypes, DistinctProcs DEF Init, OpInv
<1>4. PassInv
  BY DEF Init, PassInv, NoPass
<1> QED
  BY <1>2, <1>3, <1>4 DEF TypeInv

\* Every step of every goroutine, and a restart, keeps the types.
LEMMA TypeNext == TypeInv /\ [Next]_vars => TypeInv'
<1> SUFFICES ASSUME TypeInv, [Next]_vars PROVE TypeInv'
  OBVIOUS
<1> USE DEF TypeInv, TypeOK, configVars, lockVars,
        dbVars, writerVars, syncVars, schedVars, budgetVars
<1>1. ASSUME NEW w \in Writers, Request(w) PROVE TypeInv'
  <2>1. pc' \in [Procs -> Label]
    BY <1>1 DEF Request
  <2>2. op' \in [Writers -> Requests \cup {NoReq}]
    BY <1>1 DEF Request
  <2>3. requests' \in 0..MaxRequests
    BY <1>1, Bounds DEF Request
  <2>4. OpInv'
    BY <1>1, DistinctProcs DEF Request, OpInv
  <2>5. PassInv'
    BY <1>1 DEF Request, PassInv
  <2> QED
    BY <1>1, <2>1, <2>2, <2>3, <2>4, <2>5 DEF Request
<1>2. ASSUME NEW w \in Writers, Reject(w) PROVE TypeInv'
  <2>1. pc' \in [Procs -> Label]
    BY <1>2 DEF Reject
  <2>2. OpInv'
    BY <1>2, DistinctProcs DEF Reject, OpInv
  <2>3. PassInv'
    BY <1>2 DEF Reject, PassInv
  <2> QED
    BY <1>2, <2>1, <2>2, <2>3 DEF Reject
<1>3. ASSUME NEW w \in Writers, Persist(w) PROVE TypeInv'
  <2>0. op[w] \in Requests
    BY <1>3 DEF Persist, OpInv
  <2>1. pc' \in [Procs -> Label]
    BY <1>3 DEF Persist
  <2>2. disk' \in Config
    BY <1>3, <2>0, EditType DEF Persist, Written
  <2>3. work' \in [Appliers -> Config]
    BY <1>3, <2>0, EditType DEF Persist
  <2>4. OpInv'
    BY <1>3, DistinctProcs DEF Persist, OpInv
  <2>5. PassInv'
    BY <1>3 DEF Persist, PassInv
  <2> QED
    BY <1>3, <2>1, <2>2, <2>3, <2>4, <2>5 DEF Persist
<1>4. ASSUME NEW w \in Writers, SetStored(w) PROVE TypeInv'
  <2>0. op[w] \in Requests
    BY <1>4 DEF SetStored, OpInv
  <2>1. pc' \in [Procs -> Label]
    BY <1>4 DEF SetStored
  <2>2. stored' \in Config
    BY <1>4 DEF SetStored
  <2>3. pending' \in [Writers -> SUBSET MapId]
    BY <1>4, <2>0, OverlayMapsType DEF SetStored
  <2>4. OpInv'
    BY <1>4, DistinctProcs DEF SetStored, OpInv
  <2>5. PassInv'
    BY <1>4 DEF SetStored, PassInv
  <2> QED
    BY <1>4, <2>1, <2>2, <2>3, <2>4, <2>5 DEF SetStored
<1>5. ASSUME NEW w \in Writers, Purge(w) PROVE TypeInv'
  <2>1. pc' \in [Procs -> Label]
    BY <1>5 DEF Purge
  <2>2. active' \in Active
    BY <1>5 DEF Purge, RemoveActiveMap, Active, Config
  <2>3. results' \subseteq MapId
    BY <1>5 DEF Purge
  <2>4. rows' \in [DBs -> SUBSET MapId]
    BY <1>5 DEF Purge
  <2>5. OpInv'
    BY <1>5, DistinctProcs DEF Purge, OpInv
  <2>6. PassInv'
    BY <1>5 DEF Purge, PassInv
  <2> QED
    BY <1>5, <2>1, <2>2, <2>3, <2>4, <2>5, <2>6 DEF Purge
<1>6. ASSUME NEW w \in Writers, WriteOverlay(w) PROVE TypeInv'
  <2>1. pending' \in [Writers -> SUBSET MapId]
    BY <1>6 DEF WriteOverlay
  <2>2. OpInv'
    BY <1>6, DistinctProcs DEF WriteOverlay, OpInv
  <2>3. PassInv'
    BY <1>6 DEF WriteOverlay, PassInv
  <2> QED
    BY <1>6, <2>1, <2>2, <2>3 DEF WriteOverlay
<1>7. ASSUME NEW w \in Writers, OverlaysDone(w) PROVE TypeInv'
  <2>1. pc' \in [Procs -> Label]
    BY <1>7 DEF OverlaysDone
  <2>2. OpInv'
    BY <1>7, DistinctProcs DEF OverlaysDone, OpInv
  <2>3. PassInv'
    BY <1>7 DEF OverlaysDone, PassInv
  <2> QED
    BY <1>7, <2>1, <2>2, <2>3 DEF OverlaysDone
<1>8. ASSUME NEW p \in Appliers, Lock(p) PROVE TypeInv'
  <2>1. pc' \in [Procs -> Label]
    BY <1>8 DEF Lock
  <2>2. writeMu' \in Appliers \cup {Nobody}
    BY <1>8 DEF Lock
  <2>3. work' \in [Appliers -> Config]
    BY <1>8 DEF Lock
  <2>4. OpInv'
    BY <1>8, DistinctProcs DEF Lock, OpInv
  <2>5. PassInv'
    BY <1>8 DEF Lock, PassInv
  <2> QED
    BY <1>8, <2>1, <2>2, <2>3, <2>4, <2>5 DEF Lock
<1>9. ASSUME NEW p \in Appliers, ApplyFails(p) PROVE TypeInv'
  <2>1. pc' \in [Procs -> Label]
    BY <1>9 DEF ApplyFails
  <2>2. OpInv'
    BY <1>9, DistinctProcs DEF ApplyFails, OpInv
  <2>3. PassInv'
    BY <1>9 DEF ApplyFails, PassInv
  <2> QED
    BY <1>9, <2>1, <2>2, <2>3 DEF ApplyFails
<1>10. ASSUME NEW p \in Appliers, ApplyOpens(p) PROVE TypeInv'
  <2>0. NewHandle \in Handles
    BY <1>10 DEF ApplyOpens, NewHandle, FreeHandles
  <2>1. pc' \in [Procs -> Label]
    BY <1>10 DEF ApplyOpens
  <2>2. work' \in [Appliers -> Config]
    BY <1>10 DEF ApplyOpens
  <2>3. conn' \in [Handles -> DBs \cup {NoDB}]
    BY <1>10, <2>0 DEF ApplyOpens, Config
  <2>4. handle' \in [Appliers -> Handles \cup {NoHandle}]
    BY <1>10, <2>0 DEF ApplyOpens
  <2>5. OpInv'
    BY <1>10, DistinctProcs DEF ApplyOpens, OpInv
  <2>6. PassInv'
    BY <1>10 DEF ApplyOpens, PassInv
  <2> QED
    BY <1>10, <2>1, <2>2, <2>3, <2>4, <2>5, <2>6 DEF ApplyOpens
<1>11. ASSUME NEW p \in Appliers, Swap(p) PROVE TypeInv'
  <2>1. pc' \in [Procs -> Label]
    BY <1>11 DEF Swap
  <2>2. active' \in Active
    BY <1>11 DEF Swap, Active, Config
  <2>3. handle' \in [Appliers -> Handles \cup {NoHandle}]
    BY <1>11 DEF Swap, Active
  <2>4. OpInv'
    BY <1>11, DistinctProcs DEF Swap, OpInv
  <2>5. PassInv'
    BY <1>11 DEF Swap, PassInv
  <2> QED
    BY <1>11, <2>1, <2>2, <2>3, <2>4, <2>5 DEF Swap
<1>12. ASSUME NEW p \in Appliers, CloseOld(p) PROVE TypeInv'
  <2>1. pc' \in [Procs -> Label]
    BY <1>12 DEF CloseOld
  <2>2. conn' \in [Handles -> DBs \cup {NoDB}]
    BY <1>12 DEF CloseOld
  <2>3. handle' \in [Appliers -> Handles \cup {NoHandle}]
    BY <1>12 DEF CloseOld
  <2>4. wake' \in BOOLEAN
    BY <1>12 DEF CloseOld
  <2>5. OpInv'
    BY <1>12, DistinctProcs DEF CloseOld, OpInv
  <2>6. PassInv'
    BY <1>12 DEF CloseOld, PassInv
  <2> QED
    BY <1>12, <2>1, <2>2, <2>3, <2>4, <2>5, <2>6 DEF CloseOld
<1>13. ASSUME NEW p \in Appliers, Unlock(p) PROVE TypeInv'
  <2>1. pc' \in [Procs -> Label]
    BY <1>13 DEF Unlock
  <2>2. writeMu' \in Appliers \cup {Nobody}
    BY <1>13 DEF Unlock
  <2>3. op' \in [Writers -> Requests \cup {NoReq}]
    BY <1>13 DEF Unlock
  <2>4. work' \in [Appliers -> Config]
    BY <1>13, EmptyConfigType DEF Unlock
  <2>5. OpInv'
    BY <1>13, DistinctProcs DEF Unlock, OpInv
  <2>6. PassInv'
    BY <1>13 DEF Unlock, PassInv
  <2> QED
    BY <1>13, <2>1, <2>2, <2>3, <2>4, <2>5, <2>6 DEF Unlock
<1>14. ASSUME NEW p \in SyncProcs, SyncNothing(p) PROVE TypeInv'
  <2>1. pc' \in [Procs -> Label]
    BY <1>14 DEF SyncNothing, FinishSync
  <2>2. lastSync' \subseteq MapId
    BY <1>14 DEF SyncNothing, FinishSync
  <2>3. ids' \in [SyncProcs -> SUBSET MapId]
    BY <1>14 DEF SyncNothing, FinishSync
  <2>4. OpInv'
    BY <1>14, DistinctProcs DEF SyncNothing, OpInv, FinishSync
  <2>5. PassInv'
    BY <1>14 DEF SyncNothing, PassInv
  <2> QED
    BY <1>14, <2>1, <2>2, <2>3, <2>4, <2>5 DEF SyncNothing, FinishSync
<1>15. ASSUME NEW p \in SyncProcs, SyncBegins(p) PROVE TypeInv'
  <2>1. pc' \in [Procs -> Label]
    BY <1>15 DEF SyncBegins
  <2>2. syncMu' \in SyncProcs \cup {Nobody}
    BY <1>15 DEF SyncBegins
  <2>3. pass' \in [SyncProcs -> Pass]
    BY <1>15 DEF SyncBegins, Pass, Due
  <2>4. OpInv'
    BY <1>15, DistinctProcs DEF SyncBegins, OpInv
  <2>5. PassInv'
    BY <1>15 DEF SyncBegins, PassInv, Active
  <2> QED
    BY <1>15, <2>1, <2>2, <2>3, <2>4, <2>5 DEF SyncBegins
<1>16. ASSUME NEW p \in SyncProcs, SyncMapFails(p) PROVE TypeInv'
  <2>1. results' \subseteq MapId
    BY <1>16 DEF SyncMapFails, Pass
  <2>2. pass' \in [SyncProcs -> Pass]
    BY <1>16 DEF SyncMapFails, Pass
  <2>3. OpInv'
    BY <1>16, DistinctProcs DEF SyncMapFails, OpInv
  <2>4. PassInv'
    BY <1>16 DEF SyncMapFails, PassInv, Pass
  <2> QED
    BY <1>16, <2>1, <2>2, <2>3, <2>4 DEF SyncMapFails
<1>17. ASSUME NEW p \in SyncProcs, BeginTx(p) PROVE TypeInv'
  <2>0. conn[pass[p].snap.db] \in DBs
    BY <1>17 DEF BeginTx, PassInv
  <2>1. pass' \in [SyncProcs -> Pass]
    BY <1>17, <2>0 DEF BeginTx, Pass, Tx, PassInv
  <2>2. OpInv'
    BY <1>17, DistinctProcs DEF BeginTx, OpInv
  <2>3. PassInv'
    BY <1>17 DEF BeginTx, PassInv, Pass
  <2> QED
    BY <1>17, <2>1, <2>2, <2>3 DEF BeginTx
<1>18. ASSUME NEW p \in SyncProcs, EndTx(p) PROVE TypeInv'
  <2>1. results' \subseteq MapId
    BY <1>18, NoTxDistinct DEF EndTx, Pass, Tx
  <2>2. rows' \in [DBs -> SUBSET MapId]
    BY <1>18, NoTxDistinct DEF EndTx, Pass, Tx
  <2>3. pass' \in [SyncProcs -> Pass]
    <3>1. pass' = [pass EXCEPT ![p].tx = NoTx]
      BY <1>18 DEF EndTx
    <3>2. pass \in [SyncProcs -> Pass]
      OBVIOUS
    <3> QED
      BY ONLY <3>1, <3>2 DEF Pass
  <2>4. OpInv'
    BY <1>18, DistinctProcs DEF EndTx, OpInv
  <2>5. PassInv'
    BY <1>18 DEF EndTx, PassInv, Pass
  <2> QED
    BY <1>18, <2>1, <2>2, <2>3, <2>4, <2>5 DEF EndTx
<1>19. ASSUME NEW p \in SyncProcs, SyncEnds(p) PROVE TypeInv'
  <2>1. pc' \in [Procs -> Label]
    BY <1>19 DEF SyncEnds, FinishSync
  <2>2. syncMu' \in SyncProcs \cup {Nobody}
    BY <1>19 DEF SyncEnds, FinishSync
  <2>3. lastSync' \subseteq MapId
    BY <1>19 DEF SyncEnds, FinishSync
  <2>4. ids' \in [SyncProcs -> SUBSET MapId]
    BY <1>19 DEF SyncEnds, FinishSync
  <2>5. pass' \in [SyncProcs -> Pass]
    BY <1>19, NoPassType DEF SyncEnds, FinishSync
  <2>6. OpInv'
    BY <1>19, DistinctProcs DEF SyncEnds, OpInv, FinishSync
  <2>7. PassInv'
    BY <1>19 DEF SyncEnds, PassInv, NoPass
  <2> QED
    BY <1>19, <2>1, <2>2, <2>3, <2>4, <2>5, <2>6, <2>7 DEF SyncEnds,
       FinishSync
<1>20. CASE \E s \in Syncers : SyncRequest(s)
  <2>. PICK s \in Syncers : SyncRequest(s)
    BY <1>20
  <2>1. pc' \in [Procs -> Label] /\ ids' \in [SyncProcs -> SUBSET MapId]
    BY DEF SyncRequest
  <2>2. requests' \in 0..MaxRequests
    BY Bounds DEF SyncRequest
  <2>3. OpInv'
    BY DistinctProcs DEF SyncRequest, OpInv
  <2>4. PassInv'
    BY DEF SyncRequest, PassInv
  <2> QED
    BY <2>1, <2>2, <2>3, <2>4 DEF SyncRequest
<1>21. CASE Tick
  <2>1. pc' \in [Procs -> Label]
    BY <1>21 DEF Tick
  <2>2. ids' \in [SyncProcs -> SUBSET MapId]
    BY <1>21 DEF Tick, Enabled, Repeats, MapsOf
  <2>3. OpInv'
    BY <1>21, DistinctProcs DEF Tick, OpInv
  <2>4. PassInv'
    BY <1>21 DEF Tick, PassInv
  <2> QED
    BY <1>21, <2>1, <2>2, <2>3, <2>4 DEF Tick
<1>22. CASE Rest
  <2>1. pc' \in [Procs -> Label]
    BY <1>22 DEF Rest
  <2>2. OpInv'
    BY <1>22, DistinctProcs DEF Rest, OpInv
  <2> QED
    BY <1>22, <2>1, <2>2 DEF Rest, PassInv
<1>23. CASE TimerFires
  <2>1. pc' \in [Procs -> Label]
    BY <1>23 DEF TimerFires
  <2>2. OpInv'
    BY <1>23, DistinctProcs DEF TimerFires, OpInv
  <2> QED
    BY <1>23, <2>1, <2>2 DEF TimerFires, PassInv
<1>24. CASE WakeReceived
  <2>1. pc' \in [Procs -> Label]
    BY <1>24 DEF WakeReceived
  <2>2. OpInv'
    BY <1>24, DistinctProcs DEF WakeReceived, OpInv
  <2> QED
    BY <1>24, <2>1, <2>2 DEF WakeReceived, PassInv
<1>25. CASE Restart
  <2>1. TypeOK'
    <3>1. crashes' \in 0..MaxCrashes
      BY <1>25, Bounds DEF Restart
    <3>2. /\ pass' \in [SyncProcs -> Pass] /\ active' \in Active
          /\ work' \in [Appliers -> Config]
      BY <1>25, EmptyConfigType, NoPassType DEF Restart
    <3>3. pc' \in [Procs -> Label] /\ conn' \in [Handles -> DBs \cup {NoDB}]
      BY <1>25, BootTypes DEF Restart
    <3> QED
      BY <1>25, <3>1, <3>2, <3>3 DEF Restart
  <2>2. OpInv'
    BY <1>25, BootTypes, DistinctProcs DEF Restart, OpInv
  <2>3. PassInv'
    BY <1>25 DEF Restart, PassInv, NoPass
  <2> QED
    BY <2>1, <2>2, <2>3
<1>26. CASE UNCHANGED vars
  BY <1>26 DEF vars, OpInv, PassInv
<1>27. ASSUME NEW p \in Appliers, OpenFails(p) PROVE TypeInv'
  <2>1. pc' \in [Procs -> Label]
    BY <1>27 DEF OpenFails
  <2>2. conn' \in [Handles -> DBs \cup {NoDB}]
    BY <1>27 DEF OpenFails
  <2>3. handle' \in [Appliers -> Handles \cup {NoHandle}]
    BY <1>27 DEF OpenFails
  <2>4. OpInv'
    BY <1>27, DistinctProcs DEF OpenFails, OpInv
  <2>5. PassInv'
    BY <1>27 DEF OpenFails, PassInv
  <2> QED
    BY <1>27, <2>1, <2>2, <2>3, <2>4, <2>5 DEF OpenFails
<1> QED
  BY <1>1, <1>2, <1>3, <1>4, <1>5, <1>6, <1>7, <1>8, <1>9, <1>10,
     <1>11, <1>12, <1>13, <1>14, <1>15, <1>16, <1>17, <1>18, <1>19,
     <1>20, <1>21, <1>22, <1>23, <1>24, <1>25, <1>26, <1>27
     DEF Next, WriterStep, ApplyStep, SyncStep, SchedStep

\* Runner's state, SQLite and MariaDB keep their types.
THEOREM TypeCorrect == Spec => []TypeOK
<1>1. TypeInv => TypeOK
  BY DEF TypeInv
<1> QED
  BY <1>1, TypeInit, TypeNext, PTL DEF Spec

-----------------------------------------------------------------------------
(* The two locks. A process is inside a critical section of writeMu exactly  *)
(* while it holds it, and a pass exists only under syncMu.                   *)

LockInv == \A p \in Appliers : pc[p] \in WriteHeld <=> writeMu = p

SyncInv ==
    \A p \in SyncProcs : /\ pc[p] = "syncing" <=> syncMu = p
                         /\ pc[p] # "syncing" => pass[p] = NoPass

\* writeMu is held by p exactly between p's Lock and its Unlock.
LEMMA LockNext == TypeOK /\ LockInv /\ [Next]_vars => LockInv'
<1> SUFFICES ASSUME TypeOK /\ LockInv, [Next]_vars PROVE LockInv'
  OBVIOUS
<1> USE DistinctProcs DEF TypeOK, LockInv, lockVars, syncVars, writerVars,
   schedVars, dbVars
<1>1. ASSUME NEW w \in Writers, Request(w) PROVE LockInv'
  BY <1>1 DEF Request
<1>2. ASSUME NEW w \in Writers, Reject(w) PROVE LockInv'
  BY <1>2 DEF Reject
<1>3. ASSUME NEW w \in Writers, Persist(w) PROVE LockInv'
  BY <1>3 DEF Persist
<1>4. ASSUME NEW w \in Writers, SetStored(w) PROVE LockInv'
  BY <1>4 DEF SetStored
<1>5. ASSUME NEW w \in Writers, Purge(w) PROVE LockInv'
  BY <1>5 DEF Purge
<1>6. ASSUME NEW w \in Writers, WriteOverlay(w) PROVE LockInv'
  BY <1>6 DEF WriteOverlay
<1>7. ASSUME NEW w \in Writers, OverlaysDone(w) PROVE LockInv'
  BY <1>7 DEF OverlaysDone
<1>8. ASSUME NEW p \in Appliers, Lock(p) PROVE LockInv'
  BY <1>8 DEF Lock
<1>9. ASSUME NEW p \in Appliers, ApplyFails(p) PROVE LockInv'
  BY <1>9 DEF ApplyFails
<1>10. ASSUME NEW p \in Appliers, ApplyOpens(p) PROVE LockInv'
  BY <1>10 DEF ApplyOpens
<1>11. ASSUME NEW p \in Appliers, Swap(p) PROVE LockInv'
  BY <1>11 DEF Swap
<1>12. ASSUME NEW p \in Appliers, CloseOld(p) PROVE LockInv'
  BY <1>12 DEF CloseOld
<1>13. ASSUME NEW p \in Appliers, Unlock(p) PROVE LockInv'
  BY <1>13 DEF Unlock
<1>14. ASSUME NEW p \in SyncProcs, SyncNothing(p) PROVE LockInv'
  BY <1>14 DEF SyncNothing, FinishSync
<1>15. ASSUME NEW p \in SyncProcs, SyncBegins(p) PROVE LockInv'
  BY <1>15 DEF SyncBegins
<1>16. ASSUME NEW p \in SyncProcs, SyncMapFails(p) PROVE LockInv'
  BY <1>16 DEF SyncMapFails
<1>17. ASSUME NEW p \in SyncProcs, BeginTx(p) PROVE LockInv'
  BY <1>17 DEF BeginTx
<1>18. ASSUME NEW p \in SyncProcs, EndTx(p) PROVE LockInv'
  BY <1>18 DEF EndTx
<1>19. ASSUME NEW p \in SyncProcs, SyncEnds(p) PROVE LockInv'
  BY <1>19 DEF SyncEnds, FinishSync
<1>20. ASSUME NEW s \in Syncers, SyncRequest(s) PROVE LockInv'
  BY <1>20 DEF SyncRequest
<1>21. CASE Tick
  BY <1>21 DEF Tick
<1>22. CASE Rest
  BY <1>22 DEF Rest
<1>23. CASE TimerFires
  BY <1>23 DEF TimerFires
<1>24. CASE WakeReceived
  BY <1>24 DEF WakeReceived
<1>25. CASE Restart
  BY <1>25 DEF Restart, BootPc
<1>26. CASE UNCHANGED vars
  BY <1>26 DEF vars
<1>27. ASSUME NEW p \in Appliers, OpenFails(p) PROVE LockInv'
  BY <1>27 DEF OpenFails
<1> QED
  BY <1>1, <1>2, <1>3, <1>4, <1>5, <1>6, <1>7, <1>8, <1>9, <1>10, <1>11,
     <1>12, <1>13, <1>14, <1>15, <1>16, <1>17, <1>18, <1>19, <1>20, <1>21,
     <1>22, <1>23, <1>24, <1>25, <1>26, <1>27 DEF Next, WriterStep, ApplyStep,
     SyncStep, SchedStep

\* syncMu is held by p exactly during p's pass, and a pass leaves nothing behind.
LEMMA SyncNext == TypeOK /\ SyncInv /\ [Next]_vars => SyncInv'
<1> SUFFICES ASSUME TypeOK /\ SyncInv, [Next]_vars PROVE SyncInv'
  OBVIOUS
<1> USE DistinctProcs DEF TypeOK, SyncInv, lockVars, syncVars
<1>1. ASSUME NEW w \in Writers, Request(w) PROVE SyncInv'
  BY <1>1 DEF Request
<1>2. ASSUME NEW w \in Writers, Reject(w) PROVE SyncInv'
  BY <1>2 DEF Reject
<1>3. ASSUME NEW w \in Writers, Persist(w) PROVE SyncInv'
  BY <1>3 DEF Persist
<1>4. ASSUME NEW w \in Writers, SetStored(w) PROVE SyncInv'
  BY <1>4 DEF SetStored
<1>5. ASSUME NEW w \in Writers, Purge(w) PROVE SyncInv'
  BY <1>5 DEF Purge
<1>6. ASSUME NEW w \in Writers, WriteOverlay(w) PROVE SyncInv'
  BY <1>6 DEF WriteOverlay
<1>7. ASSUME NEW w \in Writers, OverlaysDone(w) PROVE SyncInv'
  BY <1>7 DEF OverlaysDone
<1>8. ASSUME NEW p \in Appliers, Lock(p) PROVE SyncInv'
  BY <1>8 DEF Lock
<1>9. ASSUME NEW p \in Appliers, ApplyFails(p) PROVE SyncInv'
  BY <1>9 DEF ApplyFails
<1>10. ASSUME NEW p \in Appliers, ApplyOpens(p) PROVE SyncInv'
  BY <1>10 DEF ApplyOpens
<1>11. ASSUME NEW p \in Appliers, Swap(p) PROVE SyncInv'
  BY <1>11 DEF Swap
<1>12. ASSUME NEW p \in Appliers, CloseOld(p) PROVE SyncInv'
  BY <1>12 DEF CloseOld
<1>13. ASSUME NEW p \in Appliers, Unlock(p) PROVE SyncInv'
  BY <1>13 DEF Unlock
<1>14. ASSUME NEW p \in SyncProcs, SyncNothing(p) PROVE SyncInv'
  BY <1>14 DEF SyncNothing, FinishSync
<1>15. ASSUME NEW p \in SyncProcs, SyncBegins(p) PROVE SyncInv'
  BY <1>15 DEF SyncBegins
<1>16. ASSUME NEW p \in SyncProcs, SyncMapFails(p) PROVE SyncInv'
  BY <1>16 DEF SyncMapFails
<1>17. ASSUME NEW p \in SyncProcs, BeginTx(p) PROVE SyncInv'
  BY <1>17 DEF BeginTx
<1>18. ASSUME NEW p \in SyncProcs, EndTx(p) PROVE SyncInv'
  BY <1>18 DEF EndTx
<1>19. ASSUME NEW p \in SyncProcs, SyncEnds(p) PROVE SyncInv'
  BY <1>19 DEF SyncEnds, FinishSync
<1>20. ASSUME NEW s \in Syncers, SyncRequest(s) PROVE SyncInv'
  BY <1>20 DEF SyncRequest
<1>21. CASE Tick
  BY <1>21 DEF Tick
<1>22. CASE Rest
  BY <1>22 DEF Rest
<1>23. CASE TimerFires
  BY <1>23 DEF TimerFires
<1>24. CASE WakeReceived
  BY <1>24 DEF WakeReceived
<1>25. CASE Restart
  BY <1>25 DEF Restart, BootPc
<1>26. CASE UNCHANGED vars
  BY <1>26 DEF vars
<1>27. ASSUME NEW p \in Appliers, OpenFails(p) PROVE SyncInv'
  BY <1>27 DEF OpenFails
<1> QED
  BY <1>1, <1>2, <1>3, <1>4, <1>5, <1>6, <1>7, <1>8, <1>9, <1>10, <1>11,
     <1>12, <1>13, <1>14, <1>15, <1>16, <1>17, <1>18, <1>19, <1>20, <1>21,
     <1>22, <1>23, <1>24, <1>25, <1>26, <1>27 DEF Next, WriterStep, ApplyStep,
     SyncStep, SchedStep

-----------------------------------------------------------------------------
(* What a handler's copy is worth: under writeMu it is what is stored and    *)
(* saved, and between Persist and SetStored only the one edit is ahead.      *)

MirrorInv ==
    /\ \A w \in Writers :
          /\ pc[w] = "locked" => work[w] = stored /\ stored = disk
          /\ pc[w] = "persisted" => work[w] = disk /\ disk = Edit(stored, op[w])
    /\ (\A w \in Writers : pc[w] # "persisted") => stored = disk

SwapInv == \A p \in Appliers : pc[p] = "opened" => work[p] = stored

\* Runner.stored differs from SQLite only between Persist and SetStored.
LEMMA MirrorNext == TypeOK /\ LockInv /\ MirrorInv /\ [Next]_vars => MirrorInv'
<1> SUFFICES ASSUME TypeOK /\ LockInv /\ MirrorInv, [Next]_vars PROVE MirrorInv'
  OBVIOUS
<1> USE DistinctProcs DEF TypeOK, MirrorInv, LockInv, configVars, writerVars
<1>1. ASSUME NEW w \in Writers, Request(w) PROVE MirrorInv'
  BY <1>1 DEF Request
<1>2. ASSUME NEW w \in Writers, Reject(w) PROVE MirrorInv'
  BY <1>2 DEF Reject
<1>3. ASSUME NEW w \in Writers, Persist(w) PROVE MirrorInv'
  <2>1. \A v \in Writers : v # w => pc[v] \notin WriteHeld
    BY <1>3 DEF Persist
  <2>2. disk' = Edit(disk, op[w]) /\ stored = disk
    BY <1>3 DEF Persist, Written
  <2> QED
    BY <1>3, <2>1, <2>2 DEF Persist
<1>4. ASSUME NEW w \in Writers, SetStored(w) PROVE MirrorInv'
  <2>1. \A v \in Writers : v # w => pc[v] \notin WriteHeld
    BY <1>4 DEF SetStored
  <2>2. stored' = disk'
    BY <1>4 DEF SetStored
  <2>3. pc'[w] \in {"purge", "overlay"}
    BY <1>4 DEF SetStored
  <2>4. \A v \in Writers : pc'[v] \notin {"locked", "persisted"}
    BY <1>4, <2>1, <2>3 DEF SetStored
  <2> QED
    BY <2>2, <2>4
<1>5. ASSUME NEW w \in Writers, Purge(w) PROVE MirrorInv'
  BY <1>5 DEF Purge
<1>6. ASSUME NEW w \in Writers, WriteOverlay(w) PROVE MirrorInv'
  BY <1>6 DEF WriteOverlay
<1>7. ASSUME NEW w \in Writers, OverlaysDone(w) PROVE MirrorInv'
  BY <1>7 DEF OverlaysDone
<1>8. ASSUME NEW p \in Appliers, Lock(p) PROVE MirrorInv'
  BY <1>8 DEF Lock
<1>9. ASSUME NEW p \in Appliers, ApplyFails(p) PROVE MirrorInv'
  BY <1>9 DEF ApplyFails
<1>10. ASSUME NEW p \in Appliers, ApplyOpens(p) PROVE MirrorInv'
  BY <1>10 DEF ApplyOpens
<1>11. ASSUME NEW p \in Appliers, Swap(p) PROVE MirrorInv'
  BY <1>11 DEF Swap
<1>12. ASSUME NEW p \in Appliers, CloseOld(p) PROVE MirrorInv'
  BY <1>12 DEF CloseOld
<1>13. ASSUME NEW p \in Appliers, Unlock(p) PROVE MirrorInv'
  BY <1>13 DEF Unlock
<1>14. ASSUME NEW p \in SyncProcs, SyncNothing(p) PROVE MirrorInv'
  BY <1>14 DEF SyncNothing, FinishSync
<1>15. ASSUME NEW p \in SyncProcs, SyncBegins(p) PROVE MirrorInv'
  BY <1>15 DEF SyncBegins
<1>16. ASSUME NEW p \in SyncProcs, SyncMapFails(p) PROVE MirrorInv'
  BY <1>16 DEF SyncMapFails
<1>17. ASSUME NEW p \in SyncProcs, BeginTx(p) PROVE MirrorInv'
  BY <1>17 DEF BeginTx
<1>18. ASSUME NEW p \in SyncProcs, EndTx(p) PROVE MirrorInv'
  BY <1>18 DEF EndTx
<1>19. ASSUME NEW p \in SyncProcs, SyncEnds(p) PROVE MirrorInv'
  BY <1>19 DEF SyncEnds, FinishSync
<1>20. ASSUME NEW s \in Syncers, SyncRequest(s) PROVE MirrorInv'
  BY <1>20 DEF SyncRequest
<1>21. CASE Tick
  BY <1>21 DEF Tick
<1>22. CASE Rest
  BY <1>22 DEF Rest
<1>23. CASE TimerFires
  BY <1>23 DEF TimerFires
<1>24. CASE WakeReceived
  BY <1>24 DEF WakeReceived
<1>25. CASE Restart
  BY <1>25 DEF Restart, BootPc
<1>26. CASE UNCHANGED vars
  BY <1>26 DEF vars
<1>27. ASSUME NEW p \in Appliers, OpenFails(p) PROVE MirrorInv'
  BY <1>27 DEF OpenFails
<1> QED
  BY <1>1, <1>2, <1>3, <1>4, <1>5, <1>6, <1>7, <1>8, <1>9, <1>10, <1>11,
     <1>12, <1>13, <1>14, <1>15, <1>16, <1>17, <1>18, <1>19, <1>20, <1>21,
     <1>22, <1>23, <1>24, <1>25, <1>26, <1>27 DEF Next, WriterStep, ApplyStep,
     SyncStep, SchedStep

\* What apply swaps in is what is stored: nobody edits it in between.
LEMMA SwapNext == TypeOK /\ LockInv /\ SwapInv /\ [Next]_vars => SwapInv'
<1> SUFFICES ASSUME TypeOK /\ LockInv /\ SwapInv, [Next]_vars PROVE SwapInv'
  OBVIOUS
<1> USE DistinctProcs DEF TypeOK, SwapInv, LockInv, configVars, writerVars
<1>1. ASSUME NEW w \in Writers, Request(w) PROVE SwapInv'
  BY <1>1 DEF Request
<1>2. ASSUME NEW w \in Writers, Reject(w) PROVE SwapInv'
  BY <1>2 DEF Reject
<1>3. ASSUME NEW w \in Writers, Persist(w) PROVE SwapInv'
  BY <1>3 DEF Persist
<1>4. ASSUME NEW w \in Writers, SetStored(w) PROVE SwapInv'
  BY <1>4 DEF SetStored
<1>5. ASSUME NEW w \in Writers, Purge(w) PROVE SwapInv'
  BY <1>5 DEF Purge
<1>6. ASSUME NEW w \in Writers, WriteOverlay(w) PROVE SwapInv'
  BY <1>6 DEF WriteOverlay
<1>7. ASSUME NEW w \in Writers, OverlaysDone(w) PROVE SwapInv'
  BY <1>7 DEF OverlaysDone
<1>8. ASSUME NEW p \in Appliers, Lock(p) PROVE SwapInv'
  BY <1>8 DEF Lock
<1>9. ASSUME NEW p \in Appliers, ApplyFails(p) PROVE SwapInv'
  BY <1>9 DEF ApplyFails
<1>10. ASSUME NEW p \in Appliers, ApplyOpens(p) PROVE SwapInv'
  BY <1>10 DEF ApplyOpens
<1>11. ASSUME NEW p \in Appliers, Swap(p) PROVE SwapInv'
  BY <1>11 DEF Swap
<1>12. ASSUME NEW p \in Appliers, CloseOld(p) PROVE SwapInv'
  BY <1>12 DEF CloseOld
<1>13. ASSUME NEW p \in Appliers, Unlock(p) PROVE SwapInv'
  BY <1>13 DEF Unlock
<1>14. ASSUME NEW p \in SyncProcs, SyncNothing(p) PROVE SwapInv'
  BY <1>14 DEF SyncNothing, FinishSync
<1>15. ASSUME NEW p \in SyncProcs, SyncBegins(p) PROVE SwapInv'
  BY <1>15 DEF SyncBegins
<1>16. ASSUME NEW p \in SyncProcs, SyncMapFails(p) PROVE SwapInv'
  BY <1>16 DEF SyncMapFails
<1>17. ASSUME NEW p \in SyncProcs, BeginTx(p) PROVE SwapInv'
  BY <1>17 DEF BeginTx
<1>18. ASSUME NEW p \in SyncProcs, EndTx(p) PROVE SwapInv'
  BY <1>18 DEF EndTx
<1>19. ASSUME NEW p \in SyncProcs, SyncEnds(p) PROVE SwapInv'
  BY <1>19 DEF SyncEnds, FinishSync
<1>20. ASSUME NEW s \in Syncers, SyncRequest(s) PROVE SwapInv'
  BY <1>20 DEF SyncRequest
<1>21. CASE Tick
  BY <1>21 DEF Tick
<1>22. CASE Rest
  BY <1>22 DEF Rest
<1>23. CASE TimerFires
  BY <1>23 DEF TimerFires
<1>24. CASE WakeReceived
  BY <1>24 DEF WakeReceived
<1>25. CASE Restart
  BY <1>25 DEF Restart, BootPc
<1>26. CASE UNCHANGED vars
  BY <1>26 DEF vars
<1>27. ASSUME NEW p \in Appliers, OpenFails(p) PROVE SwapInv'
  BY <1>27 DEF OpenFails
<1> QED
  BY <1>1, <1>2, <1>3, <1>4, <1>5, <1>6, <1>7, <1>8, <1>9, <1>10, <1>11,
     <1>12, <1>13, <1>14, <1>15, <1>16, <1>17, <1>18, <1>19, <1>20, <1>21,
     <1>22, <1>23, <1>24, <1>25, <1>26, <1>27 DEF Next, WriterStep, ApplyStep,
     SyncStep, SchedStep

\* No map in SQLite is without its API, at any point of any interleaving.
LEMMA ValidNext ==
    TypeInv /\ MirrorInv /\ ApisInUseStay /\ [Next]_vars => ApisInUseStay'
<1> SUFFICES ASSUME TypeInv, MirrorInv, ApisInUseStay, [Next]_vars
             PROVE  ApisInUseStay'
  OBVIOUS
<1>1. CASE \E w \in Writers : Persist(w)
  <2> PICK w \in Writers : Persist(w)
    BY <1>1
  <2>1. op[w] \in Requests /\ disk \in Config
    BY DEF Persist, TypeInv, TypeOK, OpInv
  <2>2. work[w] = disk
    BY DEF Persist, MirrorInv
  <2>3. disk' = Edit(disk, op[w]) /\ Accepts(disk, op[w])
    BY <2>2 DEF Persist, Written
  <2> QED
    BY <2>1, <2>3, EditKeepsValid DEF ApisInUseStay
<1>2. CASE ~\E w \in Writers : Persist(w)
  <2>1. disk' = disk
    BY <1>2 DEF Next, WriterStep, ApplyStep, SyncStep, SchedStep, Request, Reject,
       SetStored, Purge, WriteOverlay, OverlaysDone, Lock, ApplyFails, ApplyOpens, OpenFails,
       Swap, CloseOld, Unlock, SyncRequest, SyncNothing, SyncBegins, SyncMapFails,
       BeginTx, EndTx, SyncEnds, Tick, Rest, TimerFires, WakeReceived, Restart,
       vars, configVars
  <2> QED
    BY <2>1 DEF ApisInUseStay
<1> QED
  BY <1>1, <1>2

-----------------------------------------------------------------------------
(* Deleted maps. Everything a sync can reach, in the active config or in a   *)
(* pass that has already read it, is live. PurgeIsFinal alone is not         *)
(* inductive: a purge is final because it waits for syncMu, so that no pass  *)
(* is left that read the map, and takes the map out of the active config.    *)

LiveInv ==
    /\ \A m \in MapsOf(active.cfg) : Live(m)
    /\ \A m \in results : Live(m)
    /\ \A p \in SyncProcs : /\ \A m \in pass[p].todo : Live(m)
                            /\ pass[p].tx # NoTx => Live(pass[p].tx.map)

\* Only a purge and a restart take the liveness of a map away.
LEMMA LiveKept ==
    ASSUME TypeInv, LockInv, MirrorInv, [Next]_vars,
           ~ \E w \in Writers : Purge(w), ~Restart,
           NEW m \in MapId, Live(m)
    PROVE  Live(m)'
<1> USE DistinctProcs DEF TypeInv, TypeOK, configVars, writerVars, Live, MapsOf
<1>1. CASE \E w \in Writers : SetStored(w)
  <2> PICK w \in Writers : SetStored(w)
    BY <1>1
  <2>1. op[w] \in Requests /\ stored' = Edit(stored, op[w])
    BY DEF SetStored, OpInv, MirrorInv
  <2>2. CASE m \in MapsOf(stored) /\ op[w].kind = "DeleteMap" /\ op[w].id = m
    BY <2>2 DEF SetStored
  <2>3. CASE m \in MapsOf(stored) /\ ~(op[w].kind = "DeleteMap" /\ op[w].id = m)
    <3>1. m \in MapsOf(Edit(stored, op[w]))
      BY <2>1, <2>3, EditKeepsMaps
    <3> QED
      BY <2>1, <3>1
  <2>4. CASE m \notin MapsOf(stored)
    BY <2>4 DEF SetStored
  <2> QED
    BY <2>2, <2>3, <2>4
<1>2. CASE ~\E w \in Writers : SetStored(w)
  <2>1. stored' = stored
    BY <1>2 DEF Next, WriterStep, ApplyStep, SyncStep, SchedStep, Request, Reject,
       Persist, Purge, WriteOverlay, OverlaysDone, Lock, ApplyFails, ApplyOpens, OpenFails,
       Swap, CloseOld, Unlock, SyncRequest, SyncNothing, SyncBegins, SyncMapFails,
       BeginTx, EndTx, SyncEnds, Tick, Rest, TimerFires, WakeReceived, vars
  <2>2. ASSUME NEW w \in Writers, pc[w] = "purge"
        PROVE  pc'[w] = "purge" /\ op'[w] = op[w]
    <3>1. ASSUME NEW v \in Writers, WriterStep(v) PROVE pc'[w] = "purge" /\ op'[w] = op[w]
      <4>1. CASE Request(v)
        BY <2>2, <4>1 DEF Request
      <4>2. CASE Reject(v) \/ Persist(v)
        BY <2>2, <4>2 DEF Reject, Persist
      <4>3. CASE WriteOverlay(v) \/ OverlaysDone(v)
        BY <2>2, <4>3 DEF WriteOverlay, OverlaysDone
      <4> QED
        BY <3>1, <1>2, <4>1, <4>2, <4>3 DEF WriterStep
    <3>2. ASSUME NEW q \in Appliers, ApplyStep(q) PROVE pc'[w] = "purge" /\ op'[w] = op[w]
      <4>1. CASE Lock(q) \/ ApplyFails(q) \/ OpenFails(q)
        BY <2>2, <4>1 DEF Lock, ApplyFails, OpenFails
      <4>2. CASE ApplyOpens(q) \/ Swap(q)
        BY <2>2, <4>2 DEF ApplyOpens, Swap
      <4>3. CASE CloseOld(q) \/ Unlock(q)
        BY <2>2, <4>3 DEF CloseOld, Unlock
      <4> QED
        BY <3>2, <4>1, <4>2, <4>3 DEF ApplyStep
    <3>3. ASSUME NEW q \in SyncProcs, SyncStep(q) PROVE pc'[w] = "purge" /\ op'[w] = op[w]
      <4>1. CASE SyncNothing(q) \/ SyncBegins(q) \/ SyncEnds(q)
        BY <2>2, <4>1 DEF SyncNothing, SyncBegins, SyncEnds, FinishSync
      <4>2. CASE SyncMapFails(q) \/ BeginTx(q) \/ EndTx(q)
        BY <2>2, <4>2 DEF SyncMapFails, BeginTx, EndTx
      <4> QED
        BY <3>3, <4>1, <4>2 DEF SyncStep
    <3>4. CASE (\E s \in Syncers : SyncRequest(s)) \/ SchedStep
      BY <2>2, <3>4 DEF SyncRequest, SchedStep, Tick, Rest, TimerFires, WakeReceived
    <3>5. CASE UNCHANGED vars
      BY <2>2, <3>5 DEF vars
    <3> QED
      BY <3>1, <3>2, <3>3, <3>4, <3>5 DEF Next
  <2> QED
    BY <2>1, <2>2
<1> QED
  BY <1>1, <1>2

\* No step makes the active config, a pass, a result or a transaction refer to
\* a map that is not live.
LEMMA LiveNext ==
    TypeInv /\ LockInv /\ SyncInv /\ MirrorInv /\ SwapInv /\ LiveInv /\ [Next]_vars
        => LiveInv'
<1> SUFFICES ASSUME TypeInv /\ LockInv /\ SyncInv /\ MirrorInv /\ SwapInv /\ LiveInv, [Next]_vars
             PROVE  LiveInv'
  OBVIOUS
<1>0. /\ MapsOf(active.cfg) \subseteq MapId /\ results \subseteq MapId
      /\ pass \in [SyncProcs -> Pass]
  BY DEF TypeInv, TypeOK, MapsOf
<1>1. CASE \E w \in Writers : Purge(w)
  <2> PICK w \in Writers : Purge(w)
    BY <1>1
  <2>1. op[w] \in Requests /\ op[w].kind = "DeleteMap" /\ op[w].id \in MapId
    BY DEF Purge, TypeInv, OpInv, Requests, PutMap, DropMap, PutAPI, DropAPI, PutDB
  <2>2. \A v \in Writers : v # w => pc[v] # "purge"
    BY DEF Purge, LockInv
  <2>3. ASSUME NEW m \in MapId, m # op[w].id, Live(m) PROVE Live(m)'
    <3>1. m \in MapsOf(stored)
      BY <2>2, <2>3 DEF Live
    <3> QED
      BY <3>1 DEF Live, Purge, configVars, MapsOf
  <2>4. MapsOf(active'.cfg) = MapsOf(active.cfg) \ {op[w].id}
    BY <2>1 DEF Purge, RemoveActiveMap, MapsOf, TypeInv, TypeOK, Active, Config
  <2>5. results' = results \ {op[w].id}
    BY DEF Purge
  <2>6. \A p \in SyncProcs : pass'[p] = NoPass
    BY DistinctProcs DEF Purge, SyncInv, syncVars
  <2> QED
    BY <1>0, <2>3, <2>4, <2>5, <2>6 DEF LiveInv, NoPass
<1>2. CASE Restart
  BY <1>2 DEF Restart, LiveInv, NotConfigured, EmptyConfig, MapsOf, NoPass
<1> SUFFICES ASSUME ~ \E w \in Writers : Purge(w), ~Restart PROVE LiveInv'
  BY <1>1, <1>2
<1>3. \A m \in MapId : Live(m) => Live(m)'
  BY LiveKept
<1>4. CASE \E p \in Appliers : Swap(p)
  <2> PICK p \in Appliers : Swap(p)
    BY <1>4
  <2>1. \A m \in MapsOf(active'.cfg) : Live(m)'
    BY DEF Swap, SwapInv, Live, MapsOf, configVars
  <2> QED
    BY <1>0, <1>3, <2>1 DEF Swap, LiveInv, syncVars, TypeInv, TypeOK, Pass, Tx
<1>5. CASE \E p \in SyncProcs : SyncBegins(p)
  <2> PICK p \in SyncProcs : SyncBegins(p)
    BY <1>5
  <2>1. pass'[p].todo \subseteq MapsOf(active.cfg) /\ pass'[p].tx = NoTx
    BY <1>0 DEF SyncBegins, Due
  <2>2. \A q \in SyncProcs : q # p => pass'[q] = pass[q]
    BY <1>0 DEF SyncBegins
  <2> QED
    BY <1>0, <1>3, <2>1, <2>2 DEF SyncBegins, LiveInv, Pass, Tx
<1>6. CASE \E p \in SyncProcs : SyncMapFails(p) \/ BeginTx(p) \/ EndTx(p)
  <2> PICK p \in SyncProcs : SyncMapFails(p) \/ BeginTx(p) \/ EndTx(p)
    BY <1>6
  <2>0. active' = active /\ \A q \in SyncProcs : q # p => pass'[q] = pass[q]
    BY <1>0 DEF SyncMapFails, BeginTx, EndTx
  <2>1. CASE SyncMapFails(p)
    <3>1. pass'[p].todo \subseteq pass[p].todo /\ pass'[p].tx = pass[p].tx
      BY <1>0, <2>1 DEF SyncMapFails, Pass
    <3>2. results' \subseteq results \cup pass[p].todo
      BY <2>1 DEF SyncMapFails
    <3> QED
      BY <1>0, <1>3, <2>0, <3>1, <3>2 DEF LiveInv, Pass, Tx
  <2>2. CASE BeginTx(p)
    <3>1. pass'[p].todo \subseteq pass[p].todo /\ pass'[p].tx.map \in pass[p].todo
      BY <1>0, <2>2 DEF BeginTx, Pass
    <3>2. results' = results
      BY <2>2 DEF BeginTx
    <3> QED
      BY <1>0, <1>3, <2>0, <3>1, <3>2 DEF LiveInv, Pass, Tx
  <2>3. CASE EndTx(p)
    <3>1. pass'[p].todo = pass[p].todo /\ pass'[p].tx = NoTx
      BY <1>0, <2>3 DEF EndTx, Pass
    <3>2. results' = results \cup {pass[p].tx.map} /\ pass[p].tx # NoTx
      BY <2>3 DEF EndTx
    <3>3. pass[p].tx.map \in MapId
      BY <1>0, <3>2 DEF Pass, Tx
    <3> QED
      BY <1>0, <1>3, <2>0, <3>1, <3>2, <3>3 DEF LiveInv, Pass, Tx
  <2> QED
    BY <2>1, <2>2, <2>3
<1>7. CASE \E p \in SyncProcs : SyncEnds(p)
  <2> PICK p \in SyncProcs : SyncEnds(p)
    BY <1>7
  <2>1. pass'[p] = NoPass /\ \A q \in SyncProcs : q # p => pass'[q] = pass[q]
    BY <1>0 DEF SyncEnds
  <2>2. active' = active /\ results' = results
    BY DEF SyncEnds
  <2> QED
    BY <1>0, <1>3, <2>1, <2>2 DEF LiveInv, Pass, Tx, NoPass
<1>8. CASE UNCHANGED <<active, results, pass>>
  BY <1>0, <1>3, <1>8 DEF LiveInv, Pass, Tx
<1> QED
  <2>1. \/ \E p \in Appliers : Swap(p)
        \/ \E p \in SyncProcs : \/ SyncBegins(p) \/ SyncMapFails(p) \/ BeginTx(p)
                                \/ EndTx(p) \/ SyncEnds(p)
        \/ UNCHANGED <<active, results, pass>>
    BY DEF Next, WriterStep, ApplyStep, SyncStep, SchedStep, Request, Reject,
       Persist, SetStored, WriteOverlay, OverlaysDone, Lock, ApplyFails, ApplyOpens, OpenFails,
       CloseOld, Unlock, SyncRequest, SyncNothing, Tick, Rest, TimerFires,
       WakeReceived, vars, syncVars
  <2> QED
    BY <2>1, <1>4, <1>5, <1>6, <1>7, <1>8

-----------------------------------------------------------------------------
(* Connections: an applier refers to one only between opening it and closing *)
(* the one it replaces, every other open one is the active one, and a pass   *)
(* only has maps whose API has a client.                                     *)

HandleInv ==
    \A p \in Appliers :
        /\ pc[p] \notin {"opened", "close"} => handle[p] = NoHandle
        /\ pc[p] = "opened" => /\ handle[p] \in Handles
                               /\ conn[handle[p]] = work[p].db
                               /\ Valid(work[p])
        /\ handle[p] # NoHandle => handle[p] # active.db

ActiveInv ==
    active.db # NoHandle => /\ conn[active.db] = active.cfg.db
                            /\ Valid(active.cfg)
                            /\ active.clients = active.cfg.apis

ConnInv == HandleInv /\ ActiveInv /\ NoLeakedConnection

\* An apply's steps on the connections, and the purge of a deleted map from
\* the active configuration, leave one connection, open on the right database.
LEMMA ConnNext == TypeInv /\ LockInv /\ ConnInv /\ [Next]_vars => ConnInv'
<1> SUFFICES ASSUME TypeInv, LockInv, ConnInv, [Next]_vars PROVE ConnInv'
  OBVIOUS
<1>0. /\ conn \in [Handles -> DBs \cup {NoDB}] /\ active \in Active
      /\ handle \in [Appliers -> Handles \cup {NoHandle}]
      /\ pc \in [Procs -> Label] /\ work \in [Appliers -> Config]
      /\ stored \in Config
      /\ \A w \in Writers : pc[w] = "purge" => op[w] \in DropMap
  <2>1. \A w \in Writers : pc[w] = "purge" => op[w] \in Requests /\ op[w].kind = "DeleteMap"
    BY DEF TypeInv, OpInv
  <2>2. \A r \in Requests : r.kind = "DeleteMap" => r \in DropMap
    BY DEF Requests, PutMap, DropMap, PutAPI, DropAPI, PutDB
  <2> QED
    BY <2>1, <2>2 DEF TypeInv, TypeOK
<1>1. ASSUME NEW p \in Appliers, ApplyOpens(p) PROVE ConnInv'
  <2>1. NewHandle \in FreeHandles
    BY <1>1 DEF ApplyOpens, NewHandle
  <2>2. /\ NewHandle \in Handles /\ conn[NewHandle] = NoDB /\ active.db # NewHandle
    BY <2>1 DEF FreeHandles
  <2>3. /\ \A h \in Handles : h # NewHandle => conn'[h] = conn[h]
        /\ conn'[NewHandle] = stored.db /\ active' = active
        /\ handle'[p] = NewHandle /\ work'[p] = stored /\ pc'[p] = "opened" /\ Valid(stored)
        /\ \A q \in Appliers : q # p => handle'[q] = handle[q] /\ work'[q] = work[q]
                                        /\ pc'[q] = pc[q]
    BY <1>0, <1>1, <2>2 DEF ApplyOpens
  <2>4. pc[p] = "apply" /\ handle[p] = NoHandle
        /\ \A q \in Appliers : q # p => pc[q] \notin WriteHeld /\ handle[q] = NoHandle
    BY <1>1 DEF ApplyOpens, LockInv, ConnInv, HandleInv
  <2>5. HandleInv'
    BY <2>2, <2>3, <2>4, DistinctNone DEF HandleInv
  <2>6. ActiveInv'
    BY <1>0, <2>2, <2>3 DEF ConnInv, ActiveInv, Active
  <2>7. NoLeakedConnection'
    BY <2>2, <2>3, <2>4, DistinctNone DEF ConnInv, NoLeakedConnection
  <2> QED
    BY <2>5, <2>6, <2>7 DEF ConnInv
<1>2. ASSUME NEW p \in Appliers, Swap(p) PROVE ConnInv'
  <2>1. /\ conn' = conn /\ work' = work
        /\ active'.cfg = work[p] /\ active'.clients = work[p].apis /\ active'.db = handle[p]
        /\ handle'[p] = active.db /\ pc'[p] = "close"
        /\ \A q \in Appliers : q # p => handle'[q] = handle[q] /\ pc'[q] = pc[q]
    BY <1>0, <1>2 DEF Swap, dbVars
  <2>2. /\ pc[p] = "opened" /\ handle[p] \in Handles /\ conn[handle[p]] = work[p].db
        /\ Valid(work[p]) /\ handle[p] # active.db
        /\ \A q \in Appliers : q # p => pc[q] \notin WriteHeld /\ handle[q] = NoHandle
    BY <1>2, DistinctNone DEF Swap, LockInv, ConnInv, HandleInv
  <2>3. HandleInv'
    BY <2>1, <2>2 DEF HandleInv
  <2>4. ActiveInv'
    BY <2>1, <2>2 DEF ActiveInv
  <2>5. NoLeakedConnection'
    BY <2>1, <2>2, DistinctNone DEF ConnInv, NoLeakedConnection
  <2> QED
    BY <2>3, <2>4, <2>5 DEF ConnInv
<1>3. ASSUME NEW p \in Appliers, CloseOld(p) PROVE ConnInv'
  <2>1. /\ \A h \in Handles : conn'[h] = IF h = handle[p] THEN NoDB ELSE conn[h]
        /\ active' = active /\ work' = work /\ handle'[p] = NoHandle /\ pc'[p] = "unlock"
        /\ \A q \in Appliers : q # p => handle'[q] = handle[q] /\ pc'[q] = pc[q]
    BY <1>0, <1>3 DEF CloseOld
  <2>2. /\ pc[p] = "close" /\ (handle[p] # NoHandle => handle[p] # active.db)
        /\ \A q \in Appliers : q # p => pc[q] \notin WriteHeld /\ handle[q] = NoHandle
    BY <1>3 DEF CloseOld, LockInv, ConnInv, HandleInv
  <2>3. HandleInv'
    BY <2>1, <2>2 DEF HandleInv
  <2>4. ActiveInv'
    BY <1>0, <2>1, <2>2 DEF ConnInv, ActiveInv, Active
  <2>5. NoLeakedConnection'
    BY <2>1, <2>2, DistinctNone DEF ConnInv, NoLeakedConnection
  <2> QED
    BY <2>3, <2>4, <2>5 DEF ConnInv
<1>4. ASSUME NEW w \in Writers, Purge(w) PROVE ConnInv'
  <2>1. /\ conn' = conn /\ work' = work /\ handle' = handle /\ active'.db = active.db
        /\ active'.clients = active.clients /\ active'.cfg.apis = active.cfg.apis
        /\ active'.cfg.db = active.cfg.db
    BY <1>0, <1>4 DEF Purge, RemoveActiveMap, Active, Config, writerVars
  <2>2. \A m \in MapId : active'.cfg.maps[m] \in {NoMap, active.cfg.maps[m]}
    BY <1>0, <1>4 DEF Purge, RemoveActiveMap, Active, Config
  <2>3. \A p \in Appliers : pc'[p] = pc[p] \/ (pc[p] = "purge" /\ pc'[p] = "overlay")
    <3>1. pc[w] = "purge" /\ pc' = [pc EXCEPT ![w] = "overlay"]
      BY <1>4 DEF Purge
    <3> QED
      BY <1>0, <3>1
  <2>4. HandleInv'
    BY <2>1, <2>3 DEF ConnInv, HandleInv
  <2>5. Valid(active.cfg) => Valid(active'.cfg)
    BY <2>1, <2>2 DEF Valid, ValidMaps, MapsOf
  <2>6. ActiveInv'
    BY <2>1, <2>5 DEF ConnInv, ActiveInv
  <2>7. NoLeakedConnection'
    BY <2>1 DEF ConnInv, NoLeakedConnection
  <2> QED
    BY <2>4, <2>6, <2>7 DEF ConnInv
<1>5. CASE Restart
  <2>1. /\ active'.db = NoHandle /\ \A h \in Handles : conn'[h] = NoDB
        /\ \A p \in Appliers : handle'[p] = NoHandle /\ pc'[p] \notin {"opened", "close"}
    BY <1>5 DEF Restart, NotConfigured, AllClosed, BootPc
  <2> QED
    BY <2>1 DEF ConnInv, HandleInv, ActiveInv, NoLeakedConnection
<1>6. ASSUME UNCHANGED <<conn, active, handle>>,
             \A p \in Appliers :
                \/ pc'[p] = pc[p] /\ work'[p] = work[p]
                \/ pc[p] \notin {"opened", "close"} /\ pc'[p] \notin {"opened", "close"}
      PROVE  ConnInv'
  BY <1>6 DEF ConnInv, HandleInv, ActiveInv, NoLeakedConnection
<1>7. ASSUME NEW w \in Writers,
             \/ Request(w) \/ Reject(w) \/ Persist(w) \/ SetStored(w) \/ WriteOverlay(w)
             \/ OverlaysDone(w)
      PROVE  ConnInv'
  <2>1. UNCHANGED <<conn, active, handle>>
    BY <1>7 DEF Request, Reject, Persist, SetStored, WriteOverlay, OverlaysDone, dbVars, writerVars
  <2>2. \A p \in Appliers :
           \/ pc'[p] = pc[p] /\ work'[p] = work[p]
           \/ pc[p] \notin {"opened", "close"} /\ pc'[p] \notin {"opened", "close"}
    BY <1>0, <1>7 DEF Request, Reject, Persist, SetStored, WriteOverlay, OverlaysDone, writerVars
  <2> QED
    BY <2>1, <2>2, <1>6
<1>8. ASSUME NEW q \in Appliers, Lock(q) \/ ApplyFails(q) \/ Unlock(q) PROVE ConnInv'
  <2>1. UNCHANGED <<conn, active, handle>>
    BY <1>8 DEF Lock, ApplyFails, Unlock, dbVars, writerVars
  <2>2. \A p \in Appliers :
           \/ pc'[p] = pc[p] /\ work'[p] = work[p]
           \/ pc[p] \notin {"opened", "close"} /\ pc'[p] \notin {"opened", "close"}
    BY <1>0, <1>8 DEF Lock, ApplyFails, Unlock, writerVars
  <2> QED
    BY <2>1, <2>2, <1>6
<1>9. ASSUME NEW s \in SyncProcs,
             \/ SyncNothing(s) \/ SyncBegins(s) \/ SyncMapFails(s) \/ BeginTx(s) \/ EndTx(s)
             \/ SyncEnds(s) \/ (s \in Syncers /\ SyncRequest(s))
      PROVE  ConnInv'
  <2>1. UNCHANGED <<conn, active, handle, work>>
    BY <1>9 DEF SyncNothing, SyncBegins, SyncMapFails, BeginTx, EndTx, SyncEnds, SyncRequest,
       dbVars, writerVars
  <2>2. \A p \in Appliers :
           \/ pc'[p] = pc[p]
           \/ pc[p] \notin {"opened", "close"} /\ pc'[p] \notin {"opened", "close"}
    BY <1>0, <1>9 DEF SyncNothing, SyncBegins, SyncMapFails, BeginTx, EndTx, SyncEnds,
       SyncRequest, FinishSync
  <2> QED
    BY <2>1, <2>2, <1>6
<1>10. CASE SchedStep
  <2>1. UNCHANGED <<conn, active, handle, work>>
    BY <1>10 DEF SchedStep, Tick, Rest, TimerFires, WakeReceived, dbVars, writerVars
  <2>2. \A p \in Appliers :
           \/ pc'[p] = pc[p]
           \/ pc[p] \notin {"opened", "close"} /\ pc'[p] \notin {"opened", "close"}
    BY <1>0, <1>10 DEF SchedStep, Tick, Rest, TimerFires, WakeReceived
  <2> QED
    BY <2>1, <2>2, <1>6
<1>11. CASE UNCHANGED vars
  BY <1>6, <1>11 DEF vars, dbVars, writerVars
<1>12. ASSUME NEW p \in Appliers, OpenFails(p) PROVE ConnInv'
  <2>1. /\ pc[p] = "opened" /\ handle[p] \in Handles /\ handle[p] # active.db
        /\ \A q \in Appliers : q # p => pc[q] \notin WriteHeld /\ handle[q] = NoHandle
    BY <1>12, DistinctNone DEF OpenFails, LockInv, ConnInv, HandleInv
  <2>2. /\ conn'[handle[p]] = NoDB
        /\ \A h \in Handles : h # handle[p] => conn'[h] = conn[h]
        /\ active' = active /\ work' = work /\ handle'[p] = NoHandle /\ pc'[p] = "unlock"
        /\ \A q \in Appliers : q # p => handle'[q] = handle[q] /\ pc'[q] = pc[q]
    BY <1>0, <1>12, <2>1 DEF OpenFails
  <2>3. HandleInv'
    BY <2>1, <2>2 DEF HandleInv
  <2>4. ActiveInv'
    BY <1>0, <2>1, <2>2 DEF ConnInv, ActiveInv, Active
  <2>5. NoLeakedConnection'
    BY <2>1, <2>2, DistinctNone DEF ConnInv, NoLeakedConnection
  <2> QED
    BY <2>3, <2>4, <2>5 DEF ConnInv
<1> QED
  BY <1>1, <1>2, <1>3, <1>4, <1>5, <1>7, <1>8, <1>9, <1>10, <1>11, <1>12
     DEF Next, WriterStep, ApplyStep, SyncStep

\* A pass takes its maps, their APIs and the clients of these from one apply.
LEMMA PassNext == TypeInv /\ ConnInv /\ PassHasClients /\ [Next]_vars => PassHasClients'
<1> SUFFICES ASSUME TypeInv, ConnInv, PassHasClients, [Next]_vars PROVE PassHasClients'
  OBVIOUS
<1>0. pass \in [SyncProcs -> Pass] /\ active \in Active
  BY DEF TypeInv, TypeOK
<1>1. ASSUME NEW p \in SyncProcs, SyncBegins(p) PROVE PassHasClients'
  <2>1. /\ pass'[p].snap = active /\ pass'[p].todo \subseteq MapsOf(active.cfg)
        /\ \A q \in SyncProcs : q # p => pass'[q] = pass[q]
    BY <1>0, <1>1 DEF SyncBegins, Due
  <2>2. \A m \in MapsOf(active.cfg) : AsksItsServer(active, m)
    BY <1>1 DEF SyncBegins, ConnInv, ActiveInv, Valid, ValidMaps, AsksItsServer
  <2> QED
    BY <2>1, <2>2 DEF PassHasClients
<1>2. ASSUME NEW p \in SyncProcs,
             SyncMapFails(p) \/ BeginTx(p) \/ EndTx(p) \/ SyncEnds(p)
      PROVE  PassHasClients'
  <2>1. ASSUME SyncMapFails(p)
        PROVE  pass'[p].snap = pass[p].snap /\ pass'[p].todo \subseteq pass[p].todo
    BY <1>0, <2>1 DEF SyncMapFails, Pass
  <2>2. ASSUME BeginTx(p)
        PROVE  pass'[p].snap = pass[p].snap /\ pass'[p].todo \subseteq pass[p].todo
    BY <1>0, <2>2 DEF BeginTx, Pass
  <2>3. ASSUME EndTx(p)
        PROVE  pass'[p].snap = pass[p].snap /\ pass'[p].todo \subseteq pass[p].todo
    BY <1>0, <2>3 DEF EndTx, Pass
  <2>4. ASSUME SyncEnds(p) PROVE pass'[p].todo = {}
    BY <1>0, <2>4 DEF SyncEnds, NoPass
  <2>5. \A q \in SyncProcs : q # p => pass'[q] = pass[q]
    BY <1>0, <1>2 DEF SyncMapFails, BeginTx, EndTx, SyncEnds
  <2>6. ASSUME NEW q \in SyncProcs, NEW m \in pass'[q].todo
        PROVE  pass'[q].snap = pass[q].snap /\ m \in pass[q].todo
    BY <1>2, <2>1, <2>2, <2>3, <2>4, <2>5, <2>6
  <2> QED
    BY <2>6 DEF PassHasClients
<1>3. CASE Restart
  BY <1>3 DEF Restart, NoPass, PassHasClients
<1>4. CASE UNCHANGED pass
  BY <1>4 DEF PassHasClients
<1> QED
  BY <1>1, <1>2, <1>3, <1>4
     DEF Next, WriterStep, ApplyStep, SyncStep, SchedStep, Request, Reject, Persist,
     SetStored, Purge, WriteOverlay, OverlaysDone, Lock, ApplyFails, ApplyOpens, OpenFails, Swap,
     CloseOld, Unlock, SyncRequest, SyncNothing, Tick, Rest, TimerFires, WakeReceived,
     vars, syncVars

-----------------------------------------------------------------------------
(* The inductive invariant and what follows from it.                         *)

IInv == /\ TypeInv /\ LockInv /\ SyncInv /\ MirrorInv /\ SwapInv /\ LiveInv
        /\ ApisInUseStay /\ ConnInv /\ PassHasClients

\* The inductive invariant holds once New has returned.
LEMMA IInvInit == Init => IInv
<1> SUFFICES ASSUME Init PROVE IInv
  OBVIOUS
<1>1. LockInv /\ SyncInv
  BY DistinctProcs DEF Init, LockInv, SyncInv, BootPc
<1>2. MirrorInv /\ SwapInv
  BY DistinctProcs DEF Init, MirrorInv, SwapInv, BootPc
<1>3. LiveInv
  BY DEF Init, LiveInv, NotConfigured, EmptyConfig, MapsOf, NoPass
<1>4. ApisInUseStay
  BY FirstConfigsSaved DEF Init, ApisInUseStay
<1>5. ConnInv
  BY DistinctNone DEF Init, ConnInv, HandleInv, ActiveInv, NoLeakedConnection, NotConfigured,
     AllClosed, BootPc
<1>6. PassHasClients
  BY DEF Init, PassHasClients, NoPass
<1> QED
  BY <1>1, <1>2, <1>3, <1>4, <1>5, <1>6, TypeInit DEF IInv

\* Every step keeps the inductive invariant.
LEMMA IInvNext == IInv /\ [Next]_vars => IInv'
BY TypeNext, LockNext, SyncNext, MirrorNext, SwapNext, LiveNext, ValidNext, ConnNext,
   PassNext DEF IInv, TypeInv

\* The inductive invariant the safety theorems below are read off.
THEOREM Invariance == Spec => []IInv
BY IInvInit, IInvNext, PTL DEF Spec

\* Whenever writeMu is free, Runner.stored is what SQLite holds.
THEOREM StoredIsSaved == Spec => []StoredMirrorsDisk
<1>1. IInv => StoredMirrorsDisk
  BY DistinctProcs DEF IInv, LockInv, MirrorInv, StoredMirrorsDisk, TypeInv, TypeOK
<1> QED
  BY <1>1, Invariance, PTL

\* SQLite never holds a map whose API is not configured.
THEOREM ApisStay == Spec => []ApisInUseStay
<1>1. IInv => ApisInUseStay
  BY DEF IInv
<1> QED
  BY <1>1, Invariance, PTL

\* A map whose deletion has purged is out of reach of every sync, whatever
\* became of the apply that follows the deletion.
THEOREM DeletedIsInactive == Spec => []DeletedMapInactive
<1>1. IInv => DeletedMapInactive
  BY DEF IInv, LiveInv, DeletedMapInactive
<1> QED
  BY <1>1, Invariance, PTL

\* The status page shows no result of a map whose deletion has purged.
THEOREM StatusIsLive == Spec => []StatusOnlyLive
<1>1. IInv => StatusOnlyLive
  BY DEF IInv, LiveInv, StatusOnlyLive
<1> QED
  BY <1>1, Invariance, PTL

\* No apply leaves a connection open that nobody will close: not one whose Ping
\* or EnsureSchema failed after it opened its own, nor one that replaces another.
THEOREM NoneLeaks == Spec => []NoLeakedConnection
<1>1. IInv => NoLeakedConnection
  BY DEF IInv, ConnInv
<1> QED
  BY <1>1, Invariance, PTL

\* Once something is active, its connection is open, on the database of a
\* valid configuration, whatever is being applied or deleted meanwhile.
THEOREM ActiveConnected == Spec => []ActiveIsConnected
<1>1. IInv => ActiveIsConnected
  BY DEF IInv, ConnInv, ActiveInv, ActiveIsConnected
<1> QED
  BY <1>1, Invariance, PTL

\* Every map left in a pass is fetched through a client for the server that the
\* pass's own configuration names, whatever was edited or applied meanwhile.
THEOREM PassesHaveClients == Spec => []PassHasClients
<1>1. IInv => PassHasClients
  BY DEF IInv
<1> QED
  BY <1>1, Invariance, PTL

\* Every change of SQLite is the one edit some handler was asked for.
THEOREM OnlyTheEdit == Spec => SavesOnlyTheEdit
<1>1. IInv /\ [Next]_vars
        => [ disk' # disk =>
               \E w \in Writers : pc[w] = "locked" /\ disk' = Edit(disk, op[w]) ]_vars
  <2> SUFFICES ASSUME IInv, [Next]_vars, disk' # disk
               PROVE  \E w \in Writers : pc[w] = "locked" /\ disk' = Edit(disk, op[w])
    OBVIOUS
  <2>1. \E w \in Writers : Persist(w)
    BY DEF Next, WriterStep, ApplyStep, SyncStep, SchedStep, Request, Reject,
       SetStored, Purge, WriteOverlay, OverlaysDone, Lock, ApplyFails, ApplyOpens, OpenFails,
       Swap, CloseOld, Unlock, SyncRequest, SyncNothing, SyncBegins, SyncMapFails,
       BeginTx, EndTx, SyncEnds, Tick, Rest, TimerFires, WakeReceived, Restart,
       vars, configVars
  <2> PICK w \in Writers : Persist(w)
    BY <2>1
  <2> QED
    BY DEF Persist, Written, IInv, MirrorInv
<1> QED
  BY <1>1, Invariance, PTL DEF Spec, SavesOnlyTheEdit

\* No sync brings back rows of a map whose deletion has purged.
THEOREM PurgedStaysPurged == Spec => PurgeIsFinal
<1>1. IInv /\ [Next]_vars
        => [ \A d \in DBs : \A m \in rows'[d] \ rows[d] : Live(m) ]_vars
  <2> SUFFICES ASSUME IInv, [Next]_vars, NEW d \in DBs, NEW m \in rows'[d] \ rows[d]
               PROVE  Live(m)
    OBVIOUS
  <2>0. rows \in [DBs -> SUBSET MapId]
    BY DEF IInv, TypeInv, TypeOK
  <2>1. \E p \in SyncProcs : EndTx(p)
    <3>1. CASE \E w \in Writers : Purge(w)
      BY <2>0, <3>1 DEF Purge
    <3>2. CASE UNCHANGED rows
      BY <3>2
    <3> QED
      BY <3>1, <3>2
         DEF Next, WriterStep, ApplyStep, SyncStep, SchedStep, Request, Reject,
         Persist, SetStored, WriteOverlay, OverlaysDone, Lock, ApplyFails, ApplyOpens, OpenFails,
         Swap, CloseOld, Unlock, SyncRequest, SyncNothing, SyncBegins, SyncMapFails,
         BeginTx, SyncEnds, Tick, Rest, TimerFires, WakeReceived, Restart,
         vars, dbVars
  <2> PICK p \in SyncProcs : EndTx(p)
    BY <2>1
  <2>2. m = pass[p].tx.map /\ pass[p].tx # NoTx
    BY <2>0 DEF EndTx
  <2> QED
    BY <2>2 DEF IInv, LiveInv
<1> QED
  BY <1>1, Invariance, PTL DEF Spec, PurgeIsFinal

\* Every apply that succeeds puts the configuration just saved in place, and
\* no queued apply brings back an older one.
THEOREM AppliesStored == Spec => AppliesWhatIsStored
<1>1. IInv /\ [Next]_vars
        => [ active'.db # active.db /\ active'.db # NoHandle
               => active'.cfg = stored /\ stored = disk ]_vars
  <2> SUFFICES ASSUME IInv, [Next]_vars, active'.db # active.db,
                      active'.db # NoHandle
               PROVE  active'.cfg = stored /\ stored = disk
    OBVIOUS
  <2>0. active \in Active
    BY DEF IInv, TypeInv, TypeOK
  <2>1. \E p \in Appliers : Swap(p)
    <3>1. ASSUME NEW w \in Writers, Purge(w) PROVE active'.db = active.db
      BY <2>0, <3>1 DEF Purge, RemoveActiveMap, Active
    <3>2. ASSUME Restart PROVE active'.db = NoHandle
      BY <3>2 DEF Restart, NotConfigured
    <3> QED
      BY <3>1, <3>2
         DEF Next, WriterStep, ApplyStep, SyncStep, SchedStep, Request, Reject,
         Persist, SetStored, WriteOverlay, OverlaysDone, Lock, ApplyFails,
         ApplyOpens, OpenFails, CloseOld, Unlock, SyncRequest, SyncNothing, SyncBegins,
         SyncMapFails, BeginTx, EndTx, SyncEnds, Tick, Rest, TimerFires,
         WakeReceived, vars
  <2> PICK p \in Appliers : Swap(p)
    BY <2>1
  <2>2. active'.cfg = work[p] /\ pc[p] = "opened"
    BY DEF Swap
  <2>3. \A w \in Writers : pc[w] # "persisted"
    BY <2>2 DEF IInv, LockInv
  <2> QED
    BY <2>2, <2>3 DEF IInv, SwapInv, MirrorInv
<1> QED
  BY <1>1, Invariance, PTL DEF Spec, AppliesWhatIsStored
=============================================================================
