\* Two workers deliver to one endpoint that may die for good; one fault anywhere.
CONSTANTS
    Workers = {w1, w2}
    CIRCUIT_BREAKER_THRESHOLD = 2
    MaxMishaps = 1
    NoMirror = NoMirror
SPECIFICATION FairSpec
INVARIANTS
    TrippedAtThreshold
    OvershootBounded
PROPERTIES
    EarlyTripIsOutrun
    DeadEndpointIsLeftAlone
