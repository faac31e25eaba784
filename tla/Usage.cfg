\* Three chats, one of which may create a document, or a post that does, over the end of a month.
CONSTANTS
    Chats = {c1, c2, c3}
    Posts = {p1}
    Creates = {d1}
    MAX_ATTEMPTS = 2
    MAX_ROUNDS = 3
    QUERY_LIMIT = 2
    TOKEN_LIMIT = 3
    HISTORY = 2
    MONTH = 1
    USAGE_TTL = 2
    MaxTime = 1
    MaxFaults = 1
    Null = Null
SPECIFICATION Spec
SYMMETRY Symmetry
CONSTRAINT Bounded
CHECK_DEADLOCK FALSE
INVARIANTS
    TypeOK
    DocumentsAreAccounted
    QuotaHoldsInSequence
    CountersAreExact
    ConversationIsWhole
