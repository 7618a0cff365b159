\* One reader opening and looking up keys while the writer modifies and
\* commits and reuses blocks.
CONSTANTS
    v1 = v1
    v2 = v2
    r1 = r1
    Hole = Hole
    NoBase = NoBase
    NoBuf = NoBuf
    NoVal = NoVal
    Closed = Closed
    Keys <- MCKeys2
    Values <- MCValues
    Readers <- MCReaders
    NBlocks = 5
    Cap = 2
    MaxLevel = 2
    MaxRev = 2
    SEQ_START_POINT <- MCSeqStart
    Calls = {"del", "open_newest", "cancel"}
    Faults = {}
    Misuse = {}
SPECIFICATION Spec
INVARIANT ReaderSeesSnapshot
