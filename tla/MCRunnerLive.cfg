CONSTANTS
    m1 = m1
    a1 = a1
    u1 = u1
    d1 = d1
    MapId = {m1}
    APIs = {a1, a2}
    URLs = {u1}
    Modes = {"once"}
    DBs = {d1}
    Handles = {h1, h2, h3}
    Writers = {w1, w2}
    Syncers = {s1}
    Sched = sched
    NoMap = NoMap
    NoAPI = NoAPI
    NoDB = NoDB
    NoHandle = NoHandle
    NoReq = NoReq
    NoTx = NoTx
    Nobody = Nobody
    FirstConfigs <- MCSetUpOrWaiting
    MaxRequests = 2
    MaxCrashes = 0
SPECIFICATION FairSpec
INVARIANTS
    ApisInUseStay
PROPERTIES
    RequestsAnswered
    NewMapsGetSynced
