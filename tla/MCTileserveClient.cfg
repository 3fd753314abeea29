CONSTANTS
    Clients = {c1, c2, c3}
    Syncers = {s1, s2}
    Probers = {q1}
    NoClient = NoClient
    NoToken = NoToken
    Nobody = Nobody
    MaxTokens = 3

SPECIFICATION Spec
SYMMETRY Symmetric

INVARIANTS
    OneLiveToken
    BoundedTrips

PROPERTIES
    ExpiryIsInvisible
