CONSTANTS
    MapId = {m1, m2}
    Intervals = {2, 3}
    Poll = 2
    MaxSync = 3
    Cap = 7
    MaxApplies = 2
    Skipped = Skipped
    Never = Never
SPECIFICATION FairSpec
INVARIANTS
    NoneWaitsUnseen
    LateByTheSyncAtMost
    SyncedStayOnTime
PROPERTIES
    NoSpin
    KeepsSyncing
