\* A caller that goes on after add() threw between two add_kt steps, as
\* if nothing had happened, and reads the key back with get_exact_entry.
CONSTANTS
    MaxItemSize = 11
    KeyBytes <- MCKeyBytes
    SizeBits = 16
    Keys <- MCKeys
    Tags <- MCTags
    TotalFrees <- MCTotalFrees
    Faults = TRUE
    Misuse = {"ignore_failure"}
    NoTag = NoTag
    NotFound = NotFound
    Corrupt = Corrupt
SPECIFICATION Spec
INVARIANT ReadTagWhole
