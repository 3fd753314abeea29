CONSTANTS
    Requests = {r1, r2}
    Account = account
    MaxSessions = 3

SPECIFICATION Spec
SYMMETRY Symmetric

INVARIANTS
    RefreshTokenOnce
    LogoutHolds
    ShownHasSession

PROPERTIES
    RetryIsFresh
