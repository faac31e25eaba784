\* Two jobs on one document, and one change of a flag that two instances of the hook show.
CONSTANTS
    Streams = {s1, s2}
    Events = {"erp.doc_updated", "flag.updated"}
    Jobs = {j1, j2}
    ATTEMPTS = 2
    Changes = {a1}
    Hooks = {h1, h2}
    MaxVersion = 1
    MaxFaults = 2
    None = None
SPECIFICATION Spec
CONSTRAINT OneAtATime
CHECK_DEADLOCK FALSE
INVARIANTS
    TypeOK
    AnnouncedUnlessInterrupted
    SubscriptionsReleased
    OpenStreamsAreHeld
PROPERTY
    ChangeIsAnnounced
