\* set_full_compaction(true) puts add() into sequential mode (splits at the
\* insertion point); a reader opens, find()s and steps its cursor with next()
\* through what the writer has committed, while the writer goes on.
CONSTANTS
    v1 = v1
    v2 = v2
    r1 = r1
    Hole = Hole
    NoBase = NoBase
    NoBuf = NoBuf
    NoVal = NoVal
    Closed = Closed
    Keys <- MCKeys2
    Values <- MCValues
    Readers <- MCReaders
    NBlocks = 4
    Cap = 2
    MaxLevel = 2
    MaxRev = 1
    SEQ_START_POINT <- MCSeqStart
    Calls = {"set_full_compaction", "del", "cursor_next", "cursor_prev"}
    Faults = {}
    Misuse = {}
SPECIFICATION Spec
INVARIANT WriterViewConsistent
INVARIANT ReaderSeesSnapshot
PROPERTY ScanVisitsInOrder
