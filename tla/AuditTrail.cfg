\* Three entries, one export in batches of one, and the retention jobs, with one fault.
CONSTANTS
    Writers = {w1, w2, w3}
    Actions = {login}
    Exports = {x1}
    HEAD_TTL = 2
    Retentions = {0}
    BATCH_SIZE = 1
    MaxTime = 2
    MaxFaults = 1
    Null = Null
SPECIFICATION Spec
SYMMETRY Symmetry
CONSTRAINT ExportsRun
CHECK_DEADLOCK FALSE
INVARIANTS
    TypeOK
    ChainIsRooted
    ForksNeedOverlap
    RestartsNeedQuiet
    ExportIsFaithful
