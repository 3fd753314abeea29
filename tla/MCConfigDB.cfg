CONSTANTS
    MapId = {m1, m2}
    ApiId = {a1}
    Details = {x}
    URLs = {u1, u2}
    VersionLists <- MCVersionLists
    Columns = {c1}
    Settings = {s1}
    NoSettings = NoSettings
    NoTx = NoTx
    NoOp = NoOp
    MaxOps = 4
    MaxCrashes = 1
SPECIFICATION Spec
INVARIANTS
    TypeOK
    StoredIsLoaded
    NoOrphanRows
PROPERTIES
    EditsAreAtomic
CHECK_DEADLOCK FALSE
