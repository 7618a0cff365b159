\* The first-chunk heuristic of add() against its comment: for a new key,
\* shrinking the first chunk to the leaf's free space adds no item.
CONSTANTS
    MaxItemSize = 59
    KeyBytes <- MCKeyBytes
    SizeBits = 16
    Keys = {1}
    Tags = {}
    TotalFrees = {}
    Faults = FALSE
    Misuse = {}
    NoTag = NoTag
    NotFound = NotFound
    Corrupt = Corrupt
INIT PlanInit
NEXT PlanNext
INVARIANT PlanNoExtraItem
