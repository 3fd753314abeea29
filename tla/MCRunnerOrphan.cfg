CONSTANTS
    m1 = m1
    a1 = a1
    u1 = u1
    d1 = d1
    MapId = {m1}
    APIs = {a1}
    URLs = {u1}
    Modes = {"off", "once", "repeat"}
    DBs = {d1}
    Handles = {h1, h2, h3}
    Writers = {w1}
    Syncers = {}
    Sched = sched
    NoMap = NoMap
    NoAPI = NoAPI
    NoDB = NoDB
    NoHandle = NoHandle
    NoReq = NoReq
    NoTx = NoTx
    Nobody = Nobody
    FirstConfigs <- MCSetUpOrWaiting
    MaxRequests = 2
    MaxCrashes = 1
SPECIFICATION Spec
INVARIANT NothingToCleanUp
