\* A flag changes while a page shows it over an open stream.
CONSTANTS
    Streams = {s1}
    Events = {"erp.doc_updated", "flag.updated"}
    Jobs = {}
    ATTEMPTS = 1
    Changes = {a1}
    Hooks = {h1}
    MaxVersion = 1
    MaxFaults = 0
    None = None
SPECIFICATION Spec
CHECK_DEADLOCK FALSE
PROPERTY
    FlagsPropagate
