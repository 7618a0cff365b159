\* One leaf block of 64 bytes (max_item_size 11) under adds of 8- and
\* 11-byte items, replacements, deletions and set_full_compaction.
CONSTANTS
    BlockSize = 64
    Keys = {1, 2, 3, 4}
    ItemSizes = {8, 11}
    SEQ_START_POINT <- MCSeqStart
SPECIFICATION Spec
INVARIANT TypeOK
INVARIANT LayoutConsistent
INVARIANT FindInBlockCorrect
