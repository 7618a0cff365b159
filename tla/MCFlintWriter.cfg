\* The writer alone, every API call enabled, against its own base files,
\* seen also through the refinement mapping to FlintKV.
CONSTANTS
    v1 = v1
    v2 = v2
    r1 = r1
    Hole = Hole
    NoBase = NoBase
    NoBuf = NoBuf
    NoVal = NoVal
    Closed = Closed
    Keys <- MCKeys2
    Values <- MCValues
    Readers <- MCNoReaders
    NBlocks = 5
    Cap = 2
    MaxLevel = 2
    MaxRev = 2
    SEQ_START_POINT <- MCSeqStart
    Calls = {"open", "open_newest", "del", "flush_db", "cancel", "commit_closed", "close", "close_permanently"}
    Faults = {}
    Misuse = {}
SPECIFICATION Spec
VIEW WriterOnlyView
INVARIANT TypeOK
INVARIANT BasesConsistent
INVARIANT WriterViewConsistent
PROPERTY NoBaseBlockOverwritten
PROPERTY ImplementsKV
