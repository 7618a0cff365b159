----------------------------- MODULE FlintBlock -----------------------------
(***************************************************************************)
(* The byte layout of one leaf block of a flint table while one writer    *)
(* transaction modifies it (flint_table.cc: find_in_block, compact,        *)
(* mid_point, add_item_to_block, add_item, delete_item, add_kt,            *)
(* delete_kt).                                                             *)
(*                                                                         *)
(* A block is BlockSize bytes: an 11-byte header, then the directory of    *)
(* 2-byte slots from DIR_START to DIR_END, then free space and items.      *)
(* Slot c (a byte offset) names the item at offset o of length l.  The    *)
(* header keeps MAX_FREE, the gap between the directory and the lowest     *)
(* item, and TOTAL_FREE, every byte not in the header, the directory or   *)
(* an item.  Item bytes are abstracted to the item's key and its size l.  *)
(* When a block splits, the model goes on with one of the two halves.     *)
(***************************************************************************)
EXTENDS Integers, Sequences, SequencesExt

CONSTANTS
    BlockSize,        \* block_size
    Keys,             \* keys that may be added, all > 0
    ItemSizes,        \* sizes of items add() may form, each <= MaxItemSize
    SEQ_START_POINT   \* -10 in flint_table.cc

\* The header layout and the directory slot width (flint_table.h).
DIR_START == 11
D2 == 2
BLOCK_CAPACITY == 4

\* set_max_item_size: BLOCK_CAPACITY items of this size fit an empty block.
MaxItemSize == (BlockSize - DIR_START - BLOCK_CAPACITY * D2) \div BLOCK_CAPACITY

\* The item of the null key: I2 + K1 + C2 + C2 bytes with an empty tag.
NullItemSize == 7

VARIABLES
    p,          \* the block: [dir |-> <<[k, o, l], ...>>, max_free, total_free]
    seq_count,  \* FlintTable::seq_count
    changed_c   \* FlintTable::changed_c, or -1 when changed_n is another block

vars == <<p, seq_count, changed_c>>

DIR_END(b) == DIR_START + D2 * Len(b.dir)

\* The directory index of slot c.
Idx(c) == (c - DIR_START) \div D2 + 1

KeyAt(b, c) == b.dir[Idx(c)].k

SizeOf(s) == FoldSeq(LAMBDA it, acc : it.l + acc, 0, s)

(***************************************************************************)
(* find_in_block(p, key, leaf, c): binary chop between i and j, after     *)
(* narrowing round the hint c.  Returns the slot of the last key <= key;  *)
(* in an index block the first key is never compared.                     *)
(***************************************************************************)
RECURSIVE Chop(_, _, _, _)
Chop(b, key, i, j) ==
    IF j - i > D2
    THEN LET k == i + ((j - i) \div (D2 * 2)) * D2
         IN  IF key < KeyAt(b, k) THEN Chop(b, key, i, k) ELSE Chop(b, key, k, j)
    ELSE i

\* Mutant: the hint narrows j also when the key equals the key after c.
FindInBlockHintLe(b, key, leaf, c) ==
    LET i0 == IF leaf THEN DIR_START - D2 ELSE DIR_START
        j0 == DIR_END(b)
        i1 == IF c # -1 /\ c < j0 /\ i0 < c /\ KeyAt(b, c) <= key THEN c ELSE i0
        j1 == IF c # -1 /\ c + D2 < j0 /\ i1 < c + D2 /\ key <= KeyAt(b, c + D2)
              THEN c + D2 ELSE j0
    IN  Chop(b, key, i1, j1)

FindInBlock(b, key, leaf, c) ==
    LET i0 == IF leaf THEN DIR_START - D2 ELSE DIR_START
        j0 == DIR_END(b)
        i1 == IF c # -1 /\ c < j0 /\ i0 < c /\ KeyAt(b, c) <= key THEN c ELSE i0
        j1 == IF c # -1 /\ c + D2 < j0 /\ i1 < c + D2 /\ key < KeyAt(b, c + D2)
              THEN c + D2 ELSE j0
    IN  Chop(b, key, i1, j1)

\* compact(p): items rewritten from the block's end in slot order.
Compact(b) ==
    LET d == b.dir
        e(i) == BlockSize - SizeOf(SubSeq(d, 1, i))
        free == e(Len(d)) - DIR_END(b)
    IN  [dir |-> [i \in 1..Len(d) |-> [d[i] EXCEPT !.o = e(i)]],
         max_free |-> free, total_free |-> free]

\* mid_point(p): the slot where twice the running size passes the total.
RECURSIVE MidLoop(_, _, _, _)
MidLoop(b, size, c, n) ==
    IF c >= DIR_END(b) THEN 0
    ELSE LET l == b.dir[Idx(c)].l
         IN  IF n + 2 * l >= size
             THEN IF l < n + 2 * l - size THEN c ELSE c + D2
             ELSE MidLoop(b, size, c + D2, n + 2 * l)

MidPoint(b) == MidLoop(b, BlockSize - b.total_free - DIR_END(b), DIR_START, 0)

\* Mutant: add_item_to_block without the compaction.
AddItemToBlockNoCompact(b, it, c) ==
    LET new_max == b.max_free - (it.l + D2)
    IN  [dir |-> InsertAt(b.dir, Idx(c),
                          [k |-> it.k, l |-> it.l, o |-> DIR_END(b) + D2 + new_max]),
         max_free |-> new_max, total_free |-> b.total_free - (it.l + D2)]

\* add_item_to_block(p, kt, c): compact first if the gap is too small.
AddItemToBlock(b, it, c) ==
    LET needed == it.l + D2
        q == IF b.max_free - needed < 0 THEN Compact(b) ELSE b
        new_max == q.max_free - needed
    IN  [dir |-> InsertAt(q.dir, Idx(c),
                          [k |-> it.k, l |-> it.l, o |-> DIR_END(q) + D2 + new_max]),
         max_free |-> new_max, total_free |-> b.total_free - needed]

\* add_item(kt, 0) on a full block: the two compacted halves, the half the
\* item went to, and the slot it took there.
Split(b, it, c, seq) ==
    LET m == IF seq < 0 THEN MidPoint(b) ELSE c
        lower == Compact([b EXCEPT !.dir = SubSeq(b.dir, 1, Idx(m) - 1)])
        upper == Compact([b EXCEPT !.dir = SubSeq(b.dir, Idx(m), Len(b.dir))])
        toUpper == IF seq < 0 THEN c >= m ELSE lower.total_free < it.l + D2
        cu == c - (m - DIR_START)
    IN  IF toUpper
        THEN [lo |-> lower, up |-> AddItemToBlock(upper, it, cu), toUpper |-> TRUE, c |-> cu]
        ELSE [lo |-> AddItemToBlock(lower, it, c), up |-> upper, toUpper |-> FALSE, c |-> c]

\* add_item(kt, 0): p', and changed_c for the block the model keeps.
AddItem(b, it, c, seq) ==
    IF b.total_free < it.l + D2
    THEN LET s == Split(b, it, c, seq)
         IN  \E keepUpper \in BOOLEAN :
               /\ p' = IF keepUpper THEN s.up ELSE s.lo
               /\ changed_c' = IF keepUpper = s.toUpper THEN s.c ELSE -1
    ELSE /\ p' = AddItemToBlock(b, it, c)
         /\ changed_c' = c

\* delete_item(0, _): the slot goes, its item's bytes become free.
DeleteItem(b, c) ==
    [dir |-> RemoveAt(b.dir, Idx(c)),
     max_free |-> b.max_free + D2,
     total_free |-> b.total_free + b.dir[Idx(c)].l + D2]

(***************************************************************************)
(* The writer's steps on the block.                                        *)
(***************************************************************************)

\* read_root with faked_root_block: the null key's item at the block's end.
Init ==
    /\ p = [dir |-> << [k |-> 0, l |-> NullItemSize, o |-> BlockSize - NullItemSize] >>,
            max_free |-> BlockSize - NullItemSize - DIR_START - D2,
            total_free |-> BlockSize - NullItemSize - DIR_START - D2]
    /\ seq_count = SEQ_START_POINT
    /\ changed_c = -1

\* Mutant: seq_count counts on past 0.
AddNewSeqPast(k, l, c0) ==
    LET seq == IF changed_c = c0 THEN seq_count + 1 ELSE SEQ_START_POINT
    IN  /\ seq_count' = seq
        /\ AddItem(p, [k |-> k, l |-> l], c0 + D2, seq)

\* add_kt(false): a new key after slot c0, the slot find() left in C[0].c.
AddNew(k, l, c0) ==
    LET seq == IF changed_c = c0
               THEN IF seq_count < 0 THEN seq_count + 1 ELSE seq_count
               ELSE SEQ_START_POINT
    IN  /\ seq_count' = seq
        /\ AddItem(p, [k |-> k, l |-> l], c0 + D2, seq)

\* add_kt(true): replace the item at slot c in place, in the gap, or the
\* long way by delete_item(0, false) and add_item.
Replace(k, l, c) ==
    LET old == p.dir[Idx(c)]
        needed == l - old.l
        new_max == p.max_free - l
    IN  /\ seq_count' = SEQ_START_POINT
        /\ \/ /\ needed <= 0
              /\ p' = [p EXCEPT !.dir[Idx(c)].l = l, !.total_free = @ - needed]
              /\ UNCHANGED changed_c
           \/ /\ needed > 0 /\ new_max >= 0
              /\ p' = [p EXCEPT !.dir[Idx(c)] = [k |-> k, l |-> l, o |-> DIR_END(p) + new_max],
                                !.max_free = new_max, !.total_free = @ - needed]
              /\ UNCHANGED changed_c
           \/ /\ needed > 0 /\ new_max < 0
              /\ AddItem(DeleteItem(p, c), [k |-> k, l |-> l], c, SEQ_START_POINT)

\* add(key, tag) with a tag that makes an item of l bytes: find, then add_kt.
Add(k, l) ==
    LET c0 == FindInBlock(p, k, TRUE, -1)
    IN  IF c0 >= DIR_START /\ KeyAt(p, c0) = k
        THEN Replace(k, l, c0)
        ELSE AddNew(k, l, c0)

\* del(key) through delete_kt().  Emptying the block frees it (see
\* FlintTable's DeleteItem), so the last item is not deleted here.
Del(k) ==
    LET c == FindInBlock(p, k, TRUE, -1)
    IN  /\ c >= DIR_START /\ KeyAt(p, c) = k
        /\ Len(p.dir) > 1
        /\ p' = DeleteItem(p, c)
        /\ seq_count' = SEQ_START_POINT
        /\ UNCHANGED changed_c

\* set_full_compaction(true).
SetFullCompaction ==
    /\ seq_count' = 0
    /\ UNCHANGED <<p, changed_c>>

Next ==
    \/ \E k \in Keys, l \in ItemSizes : Add(k, l)
    \/ \E k \in Keys : Del(k)
    \/ SetFullCompaction

Spec == Init /\ [][Next]_vars

(***************************************************************************)
(* Properties.                                                             *)
(***************************************************************************)

Item == [k : {0} \cup Keys, l : 1..BlockSize, o : Int]

TypeOK ==
    /\ p \in [dir : Seq(Item), max_free : Int, total_free : Int]
    /\ seq_count \in SEQ_START_POINT..0
    /\ changed_c \in {-1} \cup (DIR_START..BlockSize)

\* The lowest offset of an item, BlockSize in an empty block.
LowestItem(b) ==
    IF b.dir = << >> THEN BlockSize ELSE Min({b.dir[i].o : i \in 1..Len(b.dir)})

\* The header counters describe the block and no two items share a byte:
\* every item lies between DIR_END and the block's end, items are disjoint,
\* TOTAL_FREE is exactly the bytes outside header, directory and items,
\* MAX_FREE is a gap that really is free, keys are in slot order, and the
\* block is not empty.  add_item_to_block, add_kt and the split rely on
\* these counters without checking them (only by Assert, compiled out).
LayoutConsistent ==
    LET d == p.dir IN
    /\ Len(d) >= 1
    /\ \A i \in 1..Len(d) : DIR_END(p) <= d[i].o /\ d[i].o + d[i].l <= BlockSize
    /\ \A i, j \in 1..Len(d) : i < j =>
          (d[i].k < d[j].k /\ (d[i].o + d[i].l <= d[j].o \/ d[j].o + d[j].l <= d[i].o))
    /\ p.total_free = BlockSize - DIR_END(p) - SizeOf(d)
    /\ 0 <= p.max_free /\ DIR_END(p) + p.max_free <= LowestItem(p)

\* find_in_block, from any hint slot find() may hold, returns the last slot
\* whose key is <= the key (DIR_START - D2 in a leaf when there is none),
\* the first key of an index block counting as lower than every key.
FindRef(b, key, leaf) ==
    LET S == {c \in {DIR_START + D2 * (i - 1) : i \in 1..Len(b.dir)} :
                 (~leaf /\ c = DIR_START) \/ KeyAt(b, c) <= key}
    IN  IF S = {} THEN DIR_START - D2
        ELSE CHOOSE c \in S : \A c2 \in S : c2 <= c

FindInBlockCorrect ==
    \A key \in {0} \cup Keys \cup {k + 1 : k \in Keys}, leaf \in BOOLEAN :
      \A c \in {-1} \cup {DIR_START - D2 + D2 * i : i \in 0..Len(p.dir) + 1} :
        FindInBlock(p, key, leaf, c) = FindRef(p, key, leaf)
=============================================================================
