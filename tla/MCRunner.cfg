CONSTANTS
    m1 = m1
    a1 = a1
    u1 = u1
    d1 = d1
    MapId = {m1}
    APIs = {a1}
    URLs = {u1, u2}
    Modes = {"off", "once", "repeat"}
    DBs = {d1, d2}
    Handles = {h1, h2, h3}
    Writers = {w1, w2}
    Syncers = {s1}
    Sched = sched
    NoMap = NoMap
    NoAPI = NoAPI
    NoDB = NoDB
    NoHandle = NoHandle
    NoReq = NoReq
    NoTx = NoTx
    Nobody = Nobody
    FirstConfigs <- MCFirstConfigs
    MaxRequests = 3
    MaxCrashes = 1
SPECIFICATION Spec
SYMMETRY Symmetry
INVARIANTS
    StoredMirrorsDisk
    DeletedMapInactive
    StatusOnlyLive
    NoLeakedConnection
    ActiveIsConnected
    PassHasClients
PROPERTIES
    SavesOnlyTheEdit
    PurgeIsFinal
    AppliesWhatIsStored
