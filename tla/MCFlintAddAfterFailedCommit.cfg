\* add() on the handle a failed commit closed.
CONSTANTS
    v1 = v1
    v2 = v2
    r1 = r1
    Hole = Hole
    NoBase = NoBase
    NoBuf = NoBuf
    NoVal = NoVal
    Closed = Closed
    Keys <- MCKeys2
    Values <- MCValues
    Readers <- MCNoReaders
    NBlocks = 5
    Cap = 2
    MaxLevel = 2
    MaxRev = 2
    SEQ_START_POINT <- MCSeqStart
    Calls = {}
    Faults = {"fsync_fail"}
    Misuse = {"add_when_closed"}
SPECIFICATION Spec
PROPERTY ImplementsKV
