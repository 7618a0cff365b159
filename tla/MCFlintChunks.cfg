\* Two keys given tags of 0, 51, 53 and 103 bytes (L = 51, a 256-byte block),
\* deleted, committed and cancelled, with add_kt/delete_kt failing.
CONSTANTS
    MaxItemSize = 59
    KeyBytes <- MCKeyBytes
    SizeBits = 16
    Keys <- MCKeys
    Tags <- MCTags
    TotalFrees <- MCTotalFrees
    Faults = TRUE
    Misuse = {}
    NoTag = NoTag
    NotFound = NotFound
    Corrupt = Corrupt
SPECIFICATION Spec
INVARIANT TypeOK
INVARIANT ComponentsConsistent
INVARIANT GetReturnsLastAdd
INVARIANT PlanFits
INVARIANT KeyOrderAgrees
