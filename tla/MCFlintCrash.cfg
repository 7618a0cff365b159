\* Machine crashes at any point, inside create_and_open and erase() too,
\* and commits whose fsync or rename fails, with a writer that adds,
\* cancels, reopens the newest revision, overwrites and erases the table.
\* States that differ only in blocks nothing reaches are one (WriterOnlyView).
CONSTANTS
    v1 = v1
    v2 = v2
    r1 = r1
    Hole = Hole
    NoBase = NoBase
    NoBuf = NoBuf
    NoVal = NoVal
    Closed = Closed
    Keys <- MCKeys
    Values <- MCValues
    Readers <- MCNoReaders
    NBlocks = 5
    Cap = 2
    MaxLevel = 2
    MaxRev = 3
    SEQ_START_POINT <- MCSeqStart
    Calls = {"open_newest", "cancel", "overwrite", "erase"}
    Faults = {"crash", "fsync_fail", "rename_fail"}
    Misuse = {}
SPECIFICATION Spec
VIEW WriterOnlyView
INVARIANT BasesConsistent
PROPERTY ImplementsKV
