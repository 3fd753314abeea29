CONSTANTS
    m1 = m1
    m2 = m2
    v1 = v1
    v2 = v2
    o1 = o1
    o2 = o2
    o3 = o3
    o4 = o4
    c1 = c1
    MapId = {m1, m2}
    Version = {v1, v2}
    ObjectsOf <- MCObjectsOf
    NoRow = NoRow
    Columns = {c1}
    Configs <- MCConfigs
    FirstCols = {NoTable}
    BatchRows = 2
    NoTable = NoTable
    NoTx = NoTx
    NoMap = NoMap
    NoVersion = NoVersion
    MaxApplies = 2
SPECIFICATION Spec
INVARIANT StaticColumnsCreated
