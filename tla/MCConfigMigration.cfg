CONSTANTS
    m1 = m1
    m2 = m2
    v1 = v1
    c1 = c1
    a0 = a0
    a1 = a1
    u1 = u1
    u2 = u2
    s1 = s1
    MapId = {m1, m2}
    Version = {v1}
    Column = {c1}
    ApiId = {a0, a1}
    URLs = {u1, u2}
    Default = a0
    Settings = {s1, s2}
    Obsolete = {users, sessions}
    NoMap = NoMap
    Unassigned = Unassigned
    NoURL = NoURL
    NoSettings = NoSettings
    Unreadable = Unreadable
    NoTx = NoTx
    FirstDisks <- MCFirstDisks
SPECIFICATION MigrationSpec
INVARIANTS
    OpenIsMigrated
    RowsHaveMaps
PROPERTY StartsKeepConfig
