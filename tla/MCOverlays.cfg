CONSTANTS
    u1 = u1
    u1s = u1s
    u2 = u2
    h1 = h1
    h2 = h2
    MapId = {m1, m2}
    Version = {v1, v2}
    ApiId = {a1, a2}
    URL = {u1, u1s, u2}
    Host <- MCHost
    Name = {n1}
    NoName = NoName
    NoMap = NoMap
    NoRow = NoRow
    FirstAPIs <- MCFirstAPIs
    MaxEdits = 3
SYMMETRY Symmetry
SPECIFICATION Spec
INVARIANTS
    RowsAreCurrent
PROPERTY RowsStay
CHECK_DEADLOCK FALSE
