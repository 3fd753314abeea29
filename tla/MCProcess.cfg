CONSTANTS
    Handlers = {h1, h2}
    Loop = loop
    Nobody = nobody
    Grace = 1
    DiscoveryTimeout = 2
    StopTimeout = 6

SPECIFICATION FairSpec

INVARIANTS
    DatabasesOutliveHandlers
    StopWaitsForHandlersOnly
    VerifyWaitIsBounded
PROPERTIES
    StopCompletes
