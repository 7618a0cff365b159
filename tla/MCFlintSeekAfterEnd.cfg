\* A reader cursor find()s again after next() ran off the end of a table
\* written sequentially (next_for_sequential scanned past the last leaf).
CONSTANTS
    v1 = v1
    v2 = v2
    r1 = r1
    Hole = Hole
    NoBase = NoBase
    NoBuf = NoBuf
    NoVal = NoVal
    Closed = Closed
    Keys <- MCKeys2
    Values <- MCValues
    Readers <- MCReaders
    NBlocks = 4
    Cap = 2
    MaxLevel = 2
    MaxRev = 1
    SEQ_START_POINT <- MCSeqStart
    Calls = {"set_full_compaction", "del", "cursor_next", "cursor_prev"}
    Faults = {}
    Misuse = {"seek_after_end"}
SPECIFICATION Spec
INVARIANT ReaderSeesSnapshot
