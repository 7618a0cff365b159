----------------------------- MODULE FlintTable -----------------------------
(***************************************************************************)
(* The revisioned copy-on-write B-tree of backends/flint/flint_table.cc.  *)
(*                                                                         *)
(* One writer process owns a FlintTable handle: its built-in cursor C     *)
(* holds one block buffer per level, modified blocks are written back     *)
(* only when evicted from the cursor (block_to_cursor) or by flush_db,     *)
(* and a commit makes them durable (fsync) before it renames a new base   *)
(* file over the older of the two bases A and B.  Reader processes open   *)
(* the newest base and descend the tree one block read at a time,         *)
(* comparing revisions to notice blocks a later writer has overwritten.   *)
(*                                                                         *)
(* Each writer API call (add, del, flush_db, commit, cancel, open,        *)
(* create_and_open, set_full_compaction) is one atomic step: the handle   *)
(* is single threaded (spec.md section 5).  Its body is computed on a     *)
(* record w holding every writer and file variable, so that the nested    *)
(* calls (find, alter, add_item, enter_key, split_root, delete_item,     *)
(* write_block) keep the order and the early returns of the code.         *)
(*                                                                         *)
(* Data abstraction: keys are positive integers ordered by <, the null    *)
(* key is 0, a tag is one model value (one chunk, no compression), every  *)
(* item has the same size, and a block holds Cap items (Cap >= 2 plays    *)
(* the role of BLOCK_CAPACITY).  Byte layout, free-space accounting and   *)
(* key encoding are modelled apart.                                        *)
(***************************************************************************)
EXTENDS Integers, Sequences, FiniteSets, SequencesExt, FiniteSetsExt

CONSTANTS
    Keys,            \* the keys: a finite set of positive integers
    Values,          \* the tags
    Readers,         \* reader processes
    NBlocks,         \* bound: the DB file has blocks 0 .. NBlocks-1
    Cap,             \* items a block holds before add_item splits it
    MaxLevel,        \* bound: the cursor has levels 0 .. MaxLevel-1
    MaxRev,          \* bound: largest revision a commit may name
    SEQ_START_POINT, \* flint_table.cc: -10
    Hole,            \* a block never written: reading it hits end of file
    NoBase,          \* no such base file
    NoBuf,           \* a cursor level without a buffer
    NoVal,           \* absent key; also the empty tag of the null item
    Closed,          \* FlintKV's writer without a usable handle
    Calls,           \* the writer calls a run makes besides create, add
                     \* and commit ("overwrite": create_and_open over an
                     \* existing table), and "cursor_next", "cursor_prev":
                     \* readers moving a cursor with next() or prev()
                     \* besides opening and find()
    Faults,          \* the failures that may happen: "crash" (of the
                     \* machine), "fsync_fail", "rename_fail" (in commit)
    Misuse           \* the calls outside the database layer's usual
                     \* pattern that callers are allowed to make:
                     \*  "add_when_closed": add() on a closed handle whose
                     \*     table exists (e.g. after a failed commit);
                     \*  "modify_old_revision": add/del/commit on a handle
                     \*     opened at a revision older than the newest one;
                     \*  "retry_after_modified": a reader repeating a lookup
                     \*     after DatabaseModifiedError without reopening;
                     \*  "seek_after_end": a reader cursor positioned again by
                     \*     find() after next() ran off the end of the table.

ASSUME /\ Keys \subseteq Nat \ {0}
       /\ Cap >= 2 /\ NBlocks >= 2 /\ MaxLevel >= 1
       /\ SEQ_START_POINT \in Int /\ SEQ_START_POINT < 0
       /\ Calls \subseteq {"open", "open_newest", "del", "set_full_compaction",
                           "flush_db", "commit_closed", "cancel", "close",
                           "close_permanently", "cursor_next", "cursor_prev",
                           "overwrite", "erase"}
       /\ Faults \subseteq {"crash", "fsync_fail", "rename_fail"}
       /\ Misuse \subseteq {"add_when_closed", "modify_old_revision",
                          "retry_after_modified", "seek_after_end"}

VARIABLES
    disk,            \* what pread returns: block number -> block or Hole
    durable,         \* what survives a machine crash
    bases,           \* the base files: "A"/"B" -> base record or NoBase
    handle,          \* "open", "closed" (-1) or "perm" (-2, closed for good)
    werr,            \* the exception the last writer call raised, or "none"
    C,               \* the built-in cursor: level -> [n, c, rewrite, p]
    level,           \* level of the root
    bm0, bm,         \* base.bit_map0 / base.bit_map as sets of used blocks
    revision_number, latest_revision_number, both_bases, base_letter,
    item_count, faked_root_block, sequential, seq_count,
    changed_n, changed_c, Btree_modified,
    rd               \* reader process -> its table handle and cursor

wvars == <<disk, durable, bases, handle, werr, C, level, bm0, bm,
           revision_number, latest_revision_number, both_bases, base_letter,
           item_count, faked_root_block, sequential, seq_count,
           changed_n, changed_c, Btree_modified>>
vars == <<wvars, rd>>

-----------------------------------------------------------------------------
NullKey == 0
BLK_UNUSED == -1
Blocks == 0 .. NBlocks - 1
Levels == 0 .. MaxLevel - 1
Letters == {"A", "B"}
Other(l) == IF l = "A" THEN "B" ELSE "A"

Item == [k : {NullKey} \cup Keys, t : Values \cup {NoVal} \cup Blocks]
Block == [rev : 0 .. MaxRev + 1, level : Levels, items : Seq(Item)]
BaseRec == [rev : 0 .. MaxRev, root : Blocks \cup {BLK_UNUSED},
            level : Levels, item_count : Nat, fakeroot : BOOLEAN,
            sequential : BOOLEAN, bitmap : SUBSET Blocks]
Map == [Keys -> Values \cup {NoVal}]
EmptyMap == [k \in Keys |-> NoVal]
NoPos == [n |-> BLK_UNUSED, c |-> -1, rewrite |-> FALSE, p |-> NoBuf]

\* The leaf read_root synthesises for a table whose base has no root yet:
\* one item with the null key and an empty tag (fake_root_item).
FakeRoot(rev) == [rev |-> rev, level |-> 0,
                  items |-> << [k |-> NullKey, t |-> NoVal] >>]

-----------------------------------------------------------------------------
(* Trees: what a root reaches through a view V of the blocks.              *)
RECURSIVE LeafItems(_, _, _)
LeafItems(V, n, j) ==
    IF n \notin Blocks \/ V[n] \in {Hole, NoBuf} THEN {}
    ELSE IF j = 0 THEN Range(V[n].items)
    ELSE UNION {LeafItems(V, it.t, j - 1) : it \in Range(V[n].items)}

TreeMap(V, n, j) ==
    LET its == LeafItems(V, n, j)
    IN [k \in Keys |-> IF \E it \in its : it.k = k
                       THEN (CHOOSE it \in its : it.k = k).t ELSE NoVal]

BaseMap(V, b) == IF b.fakeroot THEN EmptyMap ELSE TreeMap(V, b.root, b.level)

\* A well-formed subtree of level j whose keys lie in [lo, hi): levels
\* count down to the leaves, items are in key order, no child carries a
\* revision above its parent's (else block_to_cursor reports it as
\* overwritten), no block holds more than Cap items, and an internal root
\* holds at least two (delete_item collapses it otherwise).
RECURSIVE WellFormed(_, _, _, _, _, _, _)
WellFormed(V, n, j, lo, hi, maxrev, isroot) ==
    /\ n \in Blocks
    /\ V[n] \notin {Hole, NoBuf}
    /\ LET b == V[n]
           N == Len(b.items)
       IN /\ b.level = j
          /\ b.rev <= maxrev
          /\ N >= 1 /\ N <= Cap
          /\ \A i \in 1 .. N - 1 : b.items[i].k < b.items[i + 1].k
          /\ j = 0 => \A i \in 1 .. N : lo <= b.items[i].k /\ b.items[i].k < hi
          /\ j > 0 => /\ isroot => N >= 2
                      /\ \A i \in 1 .. N :
                           WellFormed(V, b.items[i].t, j - 1,
                                      IF i = 1 THEN lo ELSE b.items[i].k,
                                      IF i = N THEN hi ELSE b.items[i + 1].k,
                                      b.rev, FALSE)

Infinity == 1 + Max(Keys \cup {0})

\* The blocks a root reaches through V.
RECURSIVE TreeBlocks(_, _, _)
TreeBlocks(V, n, j) ==
    IF n \notin Blocks \/ V[n] \in {Hole, NoBuf} THEN {}
    ELSE {n} \cup IF j = 0 THEN {}
                  ELSE UNION {TreeBlocks(V, it.t, j - 1) : it \in Range(V[n].items)}

KeysIn(m) == {k \in Keys : m[k] # NoVal}

-----------------------------------------------------------------------------
(* Allocator (flint_btreebase.cc is not part of the sources): a block is   *)
(* free at the start of the transaction iff it is not in bit_map0, and     *)
(* next_free_block returns the lowest block free in both bitmaps, so a     *)
(* block freed in this transaction is not reused before the next one.     *)
\* Variants of the code's definitions, each the way a plausible slip in
\* the code would change it; every property has one that it rejects.

\* alter() without its block_free_at_start test: every block is
\* rewritten in place.
BlockAlwaysFree(w, n) == n \in Blocks
BlockFreeAtStart(w, n) == n \notin w.bm0
NextFree(w) == LET free == Blocks \ (w.bm0 \cup w.bm)
               IN IF free = {} THEN BLK_UNUSED ELSE Min(free)
\* next_free_block: marks the block in use; past NBlocks is the model bound.
Allocate(w) == IF NextFree(w) = BLK_UNUSED THEN [w EXCEPT !.err = "bound"]
               ELSE [w EXCEPT !.bm = @ \cup {NextFree(w)}]
FreeBlock(w, n) == [w EXCEPT !.bm = @ \ {n}]

-----------------------------------------------------------------------------
(* The writer's handler bodies, on a record w of all writer variables.    *)
W == [disk |-> disk, durable |-> durable, bases |-> bases, handle |-> handle,
      err |-> "none", C |-> C, level |-> level, bm0 |-> bm0, bm |-> bm,
      revision_number |-> revision_number,
      latest |-> latest_revision_number, both_bases |-> both_bases,
      base_letter |-> base_letter, item_count |-> item_count,
      faked_root_block |-> faked_root_block, sequential |-> sequential,
      seq_count |-> seq_count, changed_n |-> changed_n,
      changed_c |-> changed_c, Btree_modified |-> Btree_modified]

SetW(w) ==
    /\ disk' = w.disk /\ durable' = w.durable /\ bases' = w.bases
    /\ handle' = w.handle /\ werr' = w.err /\ C' = w.C /\ level' = w.level
    /\ bm0' = w.bm0 /\ bm' = w.bm /\ revision_number' = w.revision_number
    /\ latest_revision_number' = w.latest /\ both_bases' = w.both_bases
    /\ base_letter' = w.base_letter /\ item_count' = w.item_count
    /\ faked_root_block' = w.faked_root_block /\ sequential' = w.sequential
    /\ seq_count' = w.seq_count /\ changed_n' = w.changed_n
    /\ changed_c' = w.changed_c /\ Btree_modified' = w.Btree_modified

\* The blocks as the writer sees them: cursor buffers over the file.
WView(w) == [n \in Blocks |->
               IF \E j \in 0 .. w.level : w.C[j].n = n
               THEN w.C[CHOOSE j \in 0 .. w.level : w.C[j].n = n].p
               ELSE w.disk[n]]

\* write_block: the first write of a transaction unlinks the other base,
\* whose blocks this transaction may now overwrite.
\* write_block without the unlink of the other base.
WriteBlockKeepOther(w, n, p) ==
    [w EXCEPT !.disk = IF n \in Blocks THEN [@ EXCEPT ![n] = p] ELSE @,
              !.both_bases = FALSE]

\* A write to BLK_UNUSED (a cursor level still flagged for rewriting
\* after open) lands far past the blocks the model holds.
WriteBlock(w, n, p) ==
    [w EXCEPT !.disk = IF n \in Blocks THEN [@ EXCEPT ![n] = p] ELSE @,
              !.bases = IF w.both_bases
                        THEN [@ EXCEPT ![Other(w.base_letter)] = NoBase] ELSE @,
              !.latest = IF w.both_bases THEN w.revision_number ELSE @,
              !.both_bases = FALSE]

\* block_to_cursor for the built-in cursor.
BlockToCursor(w, j, n) ==
    IF w.err # "none" \/ n = w.C[j].n THEN w
    ELSE LET w1 == IF w.C[j].rewrite
                   THEN [WriteBlock(w, w.C[j].n, w.C[j].p) EXCEPT !.C[j].rewrite = FALSE]
                   ELSE w
         IN \* end of file, or pread into a buffer delete_item has freed
            IF n \notin Blocks \/ w1.disk[n] = Hole \/ w1.C[j].p = NoBuf
            THEN [w1 EXCEPT !.err = "io"]
            ELSE LET w2 == [w1 EXCEPT !.C[j].n = n, !.C[j].p = w1.disk[n]]
                 IN IF j < w.level /\ w2.C[j].p.rev > w2.C[j + 1].p.rev
                    THEN [w2 EXCEPT !.err = "corrupt"]   \* set_overwritten
                    ELSE w2

\* find_in_block: the last slot whose key is <= key; slot 0 is before the
\* first item of a leaf, and the first key of an index block is not
\* compared.  (The hint only narrows the chop; FlintBlock checks that.)
FindInBlock(p, key, leaf) ==
    LET S == {i \in 1 .. Len(p.items) : (~leaf /\ i = 1) \/ p.items[i].k <= key}
    IN IF S = {} THEN 0 ELSE Max(S)

RECURSIVE Descend(_, _, _)
Descend(w, key, j) ==
    IF j = 0 \/ w.err # "none" THEN w
    ELSE LET c == FindInBlock(w.C[j].p, key, FALSE)
             w1 == [w EXCEPT !.C[j].c = c]
         IN Descend(BlockToCursor(w1, j - 1, w1.C[j].p.items[c].t), key, j - 1)

\* find(C): leaves C[0].c at the last leaf slot <= key.
Find(w, key) ==
    LET w1 == Descend(w, key, w.level)
    IN IF w1.err # "none" THEN w1
       ELSE [w1 EXCEPT !.C[0].c = FindInBlock(w1.C[0].p, key, TRUE)]
Found(w, key) == w.C[0].c >= 1 /\ w.C[0].p.items[w.C[0].c].k = key

\* alter(): mark the cursor path for rewriting, moving every block that
\* was in use at the start of the transaction to a fresh block number.
RECURSIVE AlterAt(_, _)
AlterAt(w, j) ==
    IF w.C[j].rewrite THEN w
    ELSE LET n == w.C[j].n
             w1 == [w EXCEPT !.C[j].rewrite = TRUE]
         IN IF BlockFreeAtStart(w, n) THEN w1
            ELSE LET w2 == FreeBlock(w1, n)
                     nn == NextFree(w2)
                     w3 == [Allocate(w2) EXCEPT !.C[j].n = nn,
                                                !.C[j].p.rev = w.latest + 1]
                 IN IF j = w.level THEN w3
                    ELSE AlterAt([w3 EXCEPT !.C[j + 1].p.items[w3.C[j + 1].c].t = nn],
                                 j + 1)
Alter(w) == AlterAt(w, 0)

\* mid_point(p): the slot the upper half starts at, from the byte-weighted
\* middle of the items (all items weigh ItemSize here).
ItemSize == 1
MidPoint(p) ==
    LET N == Len(p.items)
        size == N * ItemSize
        n(i) == 2 * i * ItemSize
        i == CHOOSE i \in 1 .. N : n(i) >= size /\ \A h \in 1 .. i - 1 : n(h) < size
    IN IF ItemSize < n(i) - size THEN i ELSE i + 1

AddItemToBlock(p, it, c) == [p EXCEPT !.items = InsertAt(@, c, it)]

\* enter_key truncates a level-1 separator to the shortest key above
\* prevkey; with integer keys that is prevkey + 1 (the byte-string
\* truncation is not modelled).
\* enter_key keeping prevkey itself as the separator (one byte short).
TruncateShort(prevkey, newkey) == prevkey
Truncate(prevkey, newkey) == prevkey + 1

\* add_item's choice of the half that takes the new item: by position
\* after a mid-point split, else the lower half while it has room.
\* (A variant: the room test off by one.)
AddToUpperHalfLoose(w, lower, c, m) ==
    IF w.seq_count < 0 THEN c >= m ELSE Len(lower.items) > Cap
AddToUpperHalf(w, lower, c, m) ==
    IF w.seq_count < 0 THEN c >= m ELSE Len(lower.items) >= Cap

RECURSIVE AddItem(_, _, _), EnterKey(_, _, _, _), SplitRoot(_, _)

\* add_item(kt, j): insert at C[j].c, splitting a full block into the
\* lower half split_p (written at once, under the old number) and the
\* upper half (kept in the cursor under a new number).
AddItem(w, it, j) ==
    IF w.err # "none" THEN w
    ELSE LET p == w.C[j].p
             c == w.C[j].c
         IN IF Len(p.items) < Cap
            THEN LET w1 == [w EXCEPT !.C[j].p = AddItemToBlock(p, it, c)]
                 IN IF j = 0 THEN [w1 EXCEPT !.changed_n = w.C[0].n, !.changed_c = c]
                    ELSE w1
            ELSE LET m == IF w.seq_count < 0 THEN MidPoint(p) ELSE c
                     split_n == w.C[j].n
                     lower == [p EXCEPT !.items = SubSeq(p.items, 1, m - 1)]
                     upper == [p EXCEPT !.items = SubSeq(p.items, m, Len(p.items))]
                     toUpper == AddToUpperHalf(w, lower, c, m)
                     cc == IF toUpper THEN c - (m - 1) ELSE c
                     lower2 == IF toUpper THEN lower ELSE AddItemToBlock(lower, it, c)
                     upper2 == IF toUpper THEN AddItemToBlock(upper, it, cc) ELSE upper
                     w1 == [Allocate(w) EXCEPT !.C[j].n = NextFree(w), !.C[j].p = upper2]
                     w2 == WriteBlock(w1, split_n, lower2)
                     w3 == IF j = w.level THEN SplitRoot(w2, split_n) ELSE w2
                     w4 == EnterKey(w3, j + 1, Last(lower2.items).k, upper2.items[1].k)
                 IN IF j = 0
                    THEN [w4 EXCEPT !.changed_n = IF toUpper THEN w1.C[0].n ELSE split_n,
                                    !.changed_c = cc]
                    ELSE w4

\* split_root: a new root holding one null-key item for the lower half.
SplitRoot(w, split_n) ==
    LET lv == w.level + 1
    IN IF w.err # "none" \/ lv = MaxLevel THEN [w EXCEPT !.err = "bound"]
       ELSE LET q == [rev |-> w.latest + 1, level |-> lv, items |-> <<>>]
                w1 == [Allocate(w) EXCEPT
                         !.level = lv,
                         !.C[lv] = [n |-> NextFree(w), c |-> 1, rewrite |-> TRUE, p |-> q]]
            IN AddItem(w1, [k |-> NullKey, t |-> split_n], lv)

\* enter_key(j, prevkey, newkey): the separator for the block at C[j-1];
\* above level 1 the upper block's first key moves up and becomes null.
EnterKey(w, j, prevkey, newkey) ==
    IF w.err # "none" THEN w
    ELSE LET key == IF j = 1 THEN Truncate(prevkey, newkey) ELSE newkey
             it == [k |-> key, t |-> w.C[j - 1].n]
             w1 == IF j > 1 THEN [w EXCEPT !.C[j - 1].p.items[1].k = NullKey] ELSE w
         IN AddItem([w1 EXCEPT !.C[j].c = FindInBlock(w1.C[j].p, key, FALSE) + 1,
                               !.C[j].rewrite = TRUE], it, j)

RECURSIVE DeleteItem(_, _, _), CollapseRoot(_)

\* delete_item(j, repeatedly): remove slot C[j].c; an emptied non-root
\* block is freed and its entry removed one level up.
DeleteItem(w, j, repeatedly) ==
    IF w.err # "none" THEN w
    ELSE LET w1 == [w EXCEPT !.C[j].p.items = RemoveAt(@, w.C[j].c)]
         IN IF ~repeatedly THEN w1
            ELSE IF j < w.level
                 THEN IF w1.C[j].p.items = <<>>
                      THEN DeleteItem([FreeBlock(w1, w.C[j].n) EXCEPT
                                         !.C[j].rewrite = FALSE, !.C[j].n = BLK_UNUSED,
                                         !.C[j + 1].rewrite = TRUE], j + 1, TRUE)
                      ELSE w1
                 ELSE CollapseRoot(w1)

\* A root with a single item is replaced by its child, repeatedly.
CollapseRoot(w) ==
    IF w.err # "none" \/ w.level = 0 \/ Len(w.C[w.level].p.items) # 1 THEN w
    ELSE LET lv == w.level
             new_root == w.C[lv].p.items[1].t
             w1 == [FreeBlock(w, w.C[lv].n) EXCEPT !.C[lv] = NoPos, !.level = lv - 1]
         IN CollapseRoot(BlockToCursor(w1, lv - 1, new_root))

\* add_kt(found): replace in place (all items weigh the same), or insert
\* after C[0].c, counting adjacent insertions towards sequential mode.
AddKt(w, found, it) ==
    LET w1 == Alter(w)
    IN IF found
       THEN [w1 EXCEPT !.seq_count = SEQ_START_POINT, !.sequential = FALSE,
                       !.C[0].p.items[w1.C[0].c] = it]
       ELSE LET adjacent == w1.changed_n = w1.C[0].n /\ w1.changed_c = w1.C[0].c
                w2 == IF adjacent
                      THEN [w1 EXCEPT !.seq_count = IF @ < 0 THEN @ + 1 ELSE @]
                      ELSE [w1 EXCEPT !.seq_count = SEQ_START_POINT, !.sequential = FALSE]
            IN AddItem([w2 EXCEPT !.C[0].c = @ + 1], it, 0)

\* delete_kt(): find the key; if present alter the path and delete it.
DeleteKt(w, key) ==
    LET w1 == Find(w, key)
        w2 == [w1 EXCEPT !.seq_count = SEQ_START_POINT, !.sequential = FALSE]
    IN IF w1.err # "none" THEN w1
       ELSE IF Found(w1, key) THEN DeleteItem(Alter(w2), 0, TRUE) ELSE w2

-----------------------------------------------------------------------------
(* Opening, committing and cancelling.                                     *)

\* basic_open: the newest valid base (B on a tie), or the one of a given
\* revision (A first).
NewestBase(bs) == IF bs["B"] # NoBase /\ (bs["A"] = NoBase \/ bs["B"].rev >= bs["A"].rev)
                  THEN "B" ELSE "A"
BaseOfRev(bs, r) == IF bs["A"] # NoBase /\ bs["A"].rev = r THEN "A" ELSE "B"

\* basic_open taking latest_revision_number as one past the opened
\* revision instead of the other base's revision.
BasicOpenNextLatest(w, l) ==
    LET b == w.bases[l]
        o == w.bases[Other(l)]
    IN [w EXCEPT !.revision_number = b.rev, !.level = b.level,
                 !.item_count = b.item_count, !.faked_root_block = b.fakeroot,
                 !.sequential = b.sequential, !.bm0 = b.bitmap, !.bm = b.bitmap,
                 !.both_bases = (o # NoBase), !.latest = b.rev + 1, !.base_letter = l]

BasicOpen(w, l) ==
    LET b == w.bases[l]
        o == w.bases[Other(l)]
    IN [w EXCEPT !.revision_number = b.rev, !.level = b.level,
                 !.item_count = b.item_count, !.faked_root_block = b.fakeroot,
                 !.sequential = b.sequential, !.bm0 = b.bitmap, !.bm = b.bitmap,
                 !.both_bases = (o # NoBase),
                 !.latest = IF o # NoBase /\ o.rev > b.rev THEN o.rev ELSE b.rev,
                 !.base_letter = l]

\* read_root for the writer: a faked root is built in C[0] under a fresh
\* block number; a stored root must not be newer than the revision.
ReadRoot(w, root) ==
    IF w.faked_root_block
    THEN [Allocate(w) EXCEPT !.C[0].p = FakeRoot(w.latest + 1), !.C[0].n = NextFree(w)]
    ELSE LET w1 == BlockToCursor(w, w.level, root)
         IN IF w1.err = "none" /\ w1.C[w.level].p.rev > w.revision_number
            THEN [w1 EXCEPT !.err = "corrupt"] ELSE w1

\* close(): the handle and every buffer up to the root level are released.
CloseW(w) == [w EXCEPT !.handle = "closed",
                       !.C = [j \in Levels |-> IF j <= w.level THEN [@[j] EXCEPT !.p = NoBuf]
                                               ELSE @[j]]]

\* A buffer new[] has allocated and nothing has been read into yet.
Uninit == [rev |-> 0, level |-> 0, items |-> <<>>]

\* The state the FlintTable constructor leaves a handle in.
Constructed(dk, du, bs) ==
    [disk |-> dk, durable |-> du, bases |-> bs, handle |-> "closed", err |-> "none",
     C |-> [j \in Levels |-> NoPos], level |-> 0, bm0 |-> {}, bm |-> {},
     revision_number |-> 0, latest |-> 0, both_bases |-> FALSE, base_letter |-> "A",
     item_count |-> 0, faked_root_block |-> TRUE, sequential |-> TRUE,
     seq_count |-> 0, changed_n |-> 0, changed_c |-> 0, Btree_modified |-> FALSE]

\* do_open_to_write on the base with letter l (open() closes first).
OpenToWrite(w, l) ==
    LET w1 == BasicOpen(CloseW(w), l)
        \* new buffers and BLK_UNUSED up to the root; rewrite and c are kept
        w2 == [w1 EXCEPT !.handle = "open",
                  !.C = [j \in Levels |-> IF j <= w1.level
                                          THEN [w1.C[j] EXCEPT !.n = BLK_UNUSED, !.p = Uninit]
                                          ELSE w1.C[j]]]
        w3 == ReadRoot(w2, w.bases[l].root)
    IN IF w3.err # "none" THEN w3
       ELSE [w3 EXCEPT !.changed_n = 0, !.changed_c = 1, !.seq_count = SEQ_START_POINT]

NoBlocks == [n \in Blocks |-> Hole]

\* The base create_and_open writes: an empty table with a faked root at
\* the handle's revision_number.
NewBase(w) == [rev |-> w.revision_number, root |-> 0, level |-> 0, item_count |-> 0,
               fakeroot |-> TRUE, sequential |-> TRUE, bitmap |-> {}]

\* The DB file truncated before base B is unlinked.
CreateStepsTruncateFirst(w) ==
    LET s2 == [CloseW(w) EXCEPT !.bases["A"] = NewBase(w)]
        s3 == [s2 EXCEPT !.disk = NoBlocks, !.durable = NoBlocks]
    IN <<[CloseW(w) EXCEPT !.bases["A"] = NoBase], s2, s3,
         [s3 EXCEPT !.bases["B"] = NoBase]>>

\* The files after each step of create_and_open, in the order it takes
\* them: base A rewritten in place under its own name (while it is being
\* written its trailing checksum does not match, so it is no valid base),
\* base A complete, base B unlinked, the DB file created or truncated
\* (O_TRUNC).
CreateSteps(w) ==
    LET s1 == [CloseW(w) EXCEPT !.bases["A"] = NoBase]
        s2 == [s1 EXCEPT !.bases["A"] = NewBase(w)]
        s3 == [s2 EXCEPT !.bases["B"] = NoBase]
    IN <<s1, s2, s3, [s3 EXCEPT !.disk = NoBlocks, !.durable = NoBlocks]>>

\* create_and_open: close(), the file steps, then do_open_to_write on A.
CreateAndOpen(w) == OpenToWrite(CreateSteps(w)[4], "A")

\* erase(): close(), then unlink base A, base B and the DB file.
EraseSteps(w) ==
    LET s1 == [CloseW(w) EXCEPT !.bases["A"] = NoBase]
        s2 == [s1 EXCEPT !.bases["B"] = NoBase]
    IN <<s1, s2, [s2 EXCEPT !.disk = NoBlocks, !.durable = NoBlocks]>>

\* flush_db: write every rewritten cursor block, root level first.
RECURSIVE FlushFrom(_, _)
FlushFrom(w, j) ==
    IF j < 0 THEN w
    ELSE FlushFrom(IF w.C[j].rewrite THEN WriteBlock(w, w.C[j].n, w.C[j].p) ELSE w,
                   j - 1)
FlushDb(w) == [FlushFrom(w, w.level) EXCEPT
                 !.faked_root_block = IF w.Btree_modified THEN FALSE ELSE @]

\* commit(revision) on an open handle, with the outcome of fsync and of
\* the rename of the new base file over base<other letter>.
\* commit() as it would be with a missing io_sync, or saving bit_map0
\* (the start of the transaction) instead of bit_map.
CommitOpenBody(w, rev, outcome, sync, bitmap) ==
    LET rec == [rev |-> rev, root |-> w.C[w.level].n, level |-> w.level,
                item_count |-> w.item_count, fakeroot |-> w.faked_root_block,
                sequential |-> w.sequential, bitmap |-> bitmap]
        l == Other(w.base_letter)
        w1 == [w EXCEPT !.bm = bitmap, !.base_letter = l, !.both_bases = TRUE,
                        !.latest = rev, !.revision_number = rev, !.Btree_modified = FALSE,
                        !.C = [j \in Levels |-> [@[j] EXCEPT !.n = BLK_UNUSED, !.c = -1,
                                                            !.rewrite = FALSE]]]
        synced == [w1 EXCEPT !.durable = IF sync THEN w1.disk ELSE @]
        w3 == ReadRoot([synced EXCEPT !.bases[l] = rec, !.bm0 = bitmap], rec.root)
    IN CASE outcome = "fsync_fail"  -> [CloseW(w1) EXCEPT !.err = "io"]
         [] outcome = "rename_fail" -> [CloseW(synced) EXCEPT !.err = "io"]
         [] w3.err # "none"         -> CloseW(w3)
         [] OTHER -> [w3 EXCEPT !.changed_n = 0, !.changed_c = 1,
                                !.seq_count = SEQ_START_POINT]
CommitOpenNoSync(w, rev, outcome) ==
    CommitOpenBody(w, rev, outcome, FALSE, IF w.faked_root_block THEN {} ELSE w.bm)
CommitOpenStaleBitmap(w, rev, outcome) ==
    CommitOpenBody(w, rev, outcome, "crash" \in Faults,
                   IF w.faked_root_block THEN {} ELSE w.bm0)

CommitOpen(w, rev, outcome) ==
    LET bitmap == IF w.faked_root_block THEN {} ELSE w.bm
        rec == [rev |-> rev, root |-> w.C[w.level].n, level |-> w.level,
                item_count |-> w.item_count, fakeroot |-> w.faked_root_block,
                sequential |-> w.sequential, bitmap |-> bitmap]
        l == Other(w.base_letter)
        w1 == [w EXCEPT !.bm = bitmap, !.base_letter = l, !.both_bases = TRUE,
                        !.latest = rev, !.revision_number = rev,
                        !.Btree_modified = FALSE,
                        !.C = [j \in Levels |-> [@[j] EXCEPT !.n = BLK_UNUSED, !.c = -1,
                                                            !.rewrite = FALSE]]]
        \* io_sync; durable is only read by Crash, so it is left alone
        \* in runs without crashes
        synced == [w1 EXCEPT !.durable = IF "crash" \in Faults THEN w1.disk ELSE @]
        w2 == [synced EXCEPT !.bases[l] = rec, !.bm0 = bitmap]
        w3 == ReadRoot(w2, rec.root)
    IN CASE outcome = "fsync_fail"  -> [CloseW(w1) EXCEPT !.err = "io"]
         [] outcome = "rename_fail" -> [CloseW(synced) EXCEPT !.err = "io"]
         [] w3.err # "none"         -> CloseW(w3)
         [] OTHER -> [w3 EXCEPT !.changed_n = 0, !.changed_c = 1,
                                !.seq_count = SEQ_START_POINT]

\* cancel(): reread base<base_letter> and rebuild the cursor from it.
\* cancel() without the loop that forgets the cursor's blocks.
CancelOpenKeepCursor(w) ==
    LET b == w.bases[w.base_letter]
        w1 == [w EXCEPT !.revision_number = b.rev, !.level = b.level,
                        !.item_count = b.item_count, !.faked_root_block = b.fakeroot,
                        !.sequential = b.sequential, !.bm0 = b.bitmap, !.bm = b.bitmap,
                        !.latest = b.rev, !.Btree_modified = FALSE]
    IN [ReadRoot(w1, b.root) EXCEPT !.changed_n = 0, !.changed_c = 1,
                                    !.seq_count = SEQ_START_POINT]

CancelOpen(w) ==
    LET b == w.bases[w.base_letter]
        w1 == [w EXCEPT !.revision_number = b.rev, !.level = b.level,
                        !.item_count = b.item_count, !.faked_root_block = b.fakeroot,
                        !.sequential = b.sequential, !.bm0 = b.bitmap, !.bm = b.bitmap,
                        !.latest = b.rev, !.Btree_modified = FALSE,
                        !.C = [j \in Levels |-> IF j <= b.level
                                                THEN [@[j] EXCEPT !.n = BLK_UNUSED,
                                                                  !.rewrite = FALSE]
                                                ELSE @[j]]]
    IN [ReadRoot(w1, b.root) EXCEPT !.changed_n = 0, !.changed_c = 1,
                                    !.seq_count = SEQ_START_POINT]

-----------------------------------------------------------------------------
(* The writer's actions, one per API call.                                 *)

\* Calls that dereference the cursor need a buffer at every level.
Usable == \A j \in 0 .. level : C[j].p # NoBuf
TableExists == \E l \in Letters : bases[l] # NoBase
\* The database layer changes a table only at its newest revision, and
\* commits it under a revision above every one the table has.
AtNewest ==
    \/ "modify_old_revision" \in Misuse
    \/ \A l \in Letters : bases[l] # NoBase => bases[l].rev <= revision_number
CommitRevOK(rev) ==
    \/ "modify_old_revision" \in Misuse
    \/ \A l \in Letters : bases[l] # NoBase => bases[l].rev < rev

\* A database is created through a newly constructed table object
\* (create_and_open); the single-writer lock means no other writer handle
\* is open then.  With "overwrite" it replaces an existing table
\* (DB_CREATE_OR_OVERWRITE).
Create ==
    /\ handle # "open" /\ ("overwrite" \in Calls \/ ~TableExists)
    /\ SetW(CreateAndOpen(Constructed(disk, durable, bases))) /\ UNCHANGED rd

\* erase() on the writer's handle; close() leaves a handle closed for
\* good as it is.
Erase ==
    /\ LET w == EraseSteps(W)[3]
       IN SetW(IF handle = "perm" THEN [w EXCEPT !.handle = "perm"] ELSE w)
    /\ UNCHANGED rd

\* open(revision) for writing: false, and the handle closed, when no
\* base has that revision.
Open(r) ==
    /\ handle # "perm" /\ ~Btree_modified
    /\ SetW(IF \E l \in Letters : bases[l] # NoBase /\ bases[l].rev = r
            THEN OpenToWrite(W, BaseOfRev(bases, r))
            ELSE CloseW(W))
    /\ UNCHANGED rd

\* open(): the newest base; DatabaseOpeningError when there is none.
OpenNewest ==
    /\ handle # "perm" /\ ~Btree_modified
    /\ SetW(IF TableExists THEN OpenToWrite(W, NewestBase(bases))
            ELSE [CloseW(W) EXCEPT !.err = "opening"])
    /\ UNCHANGED rd

\* add(key, tag): a closed handle creates the table first.
Add(k, v) ==
    /\ handle # "perm"
    /\ handle = "closed" => ("add_when_closed" \in Misuse \/ ~TableExists)
    /\ handle = "open" => Usable /\ AtNewest
    /\ LET w0 == IF handle = "closed" THEN CreateAndOpen(W) ELSE W
           w1 == Find(w0, k)
           found == Found(w1, k)
           w2 == AddKt(w1, found, [k |-> k, t |-> v])
           w3 == [w2 EXCEPT !.item_count = IF found THEN @ ELSE @ + 1,
                            !.Btree_modified = TRUE]
       IN /\ w3.err # "bound"
          /\ SetW(IF w1.err # "none" THEN w1 ELSE w3)
    /\ UNCHANGED rd

\* del(key) on an open handle (a closed one just returns false).
Del(k) ==
    /\ handle = "open" /\ Usable /\ AtNewest
    /\ LET w1 == DeleteKt(W, k)
           found == w1.err = "none" /\ Found(Find(W, k), k)
           w2 == IF found THEN [w1 EXCEPT !.item_count = @ - 1, !.Btree_modified = TRUE]
                 ELSE w1
       IN /\ w2.err # "bound"
          /\ SetW(w2)
    /\ UNCHANGED rd

\* set_full_compaction(true).  The full_compaction flag itself only
\* decides how add() cuts a tag into chunks, which the model leaves out,
\* so set_full_compaction(false) changes nothing the model holds.
SetFullCompaction ==
    /\ seq_count' = 0 /\ werr' = "none"
    /\ UNCHANGED <<disk, durable, bases, handle, C, level, bm0, bm, revision_number,
                   latest_revision_number, both_bases, base_letter, item_count,
                   faked_root_block, sequential, changed_n, changed_c,
                   Btree_modified, rd>>

Flush ==
    /\ handle = "open" /\ Usable
    /\ SetW(FlushDb(W)) /\ UNCHANGED rd

\* The database calls flush_db() and then commit(revision).
Commit(rev, outcome) ==
    /\ handle = "open" /\ Usable
    /\ rev > revision_number /\ CommitRevOK(rev)
    /\ LET w == CommitOpen(FlushDb(W), rev, outcome)
       IN w.err # "bound" /\ SetW(w)
    /\ UNCHANGED rd

\* commit() on a closed handle only records the revision.
CommitClosed(rev) ==
    /\ handle = "closed"
    /\ rev > revision_number
    /\ revision_number' = rev /\ latest_revision_number' = rev
    /\ werr' = "none"
    /\ UNCHANGED <<disk, durable, bases, handle, C, level, bm0, bm, both_bases,
                   base_letter, item_count, faked_root_block, sequential, seq_count,
                   changed_n, changed_c, Btree_modified, rd>>

Cancel ==
    /\ handle \in {"open", "closed"}
    /\ IF handle = "closed"
       THEN /\ latest_revision_number' = revision_number /\ werr' = "none"
            /\ UNCHANGED <<disk, durable, bases, handle, C, level, bm0, bm,
                           revision_number, both_bases, base_letter, item_count,
                           faked_root_block, sequential, seq_count, changed_n,
                           changed_c, Btree_modified>>
       ELSE LET w == CancelOpen(W) IN w.err # "bound" /\ SetW(w)
    /\ UNCHANGED rd

\* close(): the handle is released; close(true) marks it closed for good
\* and keeps the buffers.
Close ==
    /\ handle # "perm"
    /\ SetW(CloseW(W)) /\ UNCHANGED rd
ClosePermanently ==
    /\ handle' = "perm" /\ werr' = "none"
    /\ UNCHANGED <<disk, durable, bases, C, level, bm0, bm, revision_number,
                   latest_revision_number, both_bases, base_letter, item_count,
                   faked_root_block, sequential, seq_count, changed_n, changed_c,
                   Btree_modified, rd>>

ReaderClosed == [st |-> "closed", base |-> NoBase, snap |-> EmptyMap, key |-> NullKey,
                 j |-> 0, buf |-> [j \in Levels |-> [n |-> BLK_UNUSED, p |-> NoBuf]],
                 pos |-> [j \in Levels |-> 0], sn |-> BLK_UNUSED, at |-> NullKey,
                 res |-> NoVal]

\* The machine stops: every block the DB file holds is the durable one
\* or the last one written; the base files (written whole and renamed)
\* stay as they are; the processes start again from the constructor.
CrashFrom(w) ==
    /\ \E lost \in SUBSET {n \in Blocks : w.disk[n] # w.durable[n]} :
         SetW(Constructed([n \in Blocks |-> IF n \in lost THEN w.durable[n] ELSE w.disk[n]],
                          w.durable, w.bases))
    /\ rd' = [r \in Readers |-> ReaderClosed]

Crash == "crash" \in Faults /\ CrashFrom(W)

\* The machine stops inside create_and_open (run by a new handle, as
\* Create) or inside erase(), after some of their file steps.
CrashInCreate ==
    /\ "crash" \in Faults /\ "overwrite" \in Calls /\ handle # "open"
    /\ \E i \in 1 .. 3 : CrashFrom(CreateSteps(Constructed(disk, durable, bases))[i])
CrashInErase ==
    /\ "crash" \in Faults /\ "erase" \in Calls
    /\ \E i \in 1 .. 2 : CrashFrom(EraseSteps(W)[i])

-----------------------------------------------------------------------------
(* Readers: another FlintTable opened read-only on the same files.  Each  *)
(* block read is a step of its own, so the writer may commit and reuse   *)
(* blocks between two reads.  snap is a history variable: the contents   *)
(* of the opened revision when the base was read.                         *)

\* do_open_to_read: basic_open of the newest base (the block reads of
\* read_root follow in ReaderRoot).
ReaderOpen(r) ==
    /\ \E l \in Letters : bases[l] # NoBase
    /\ LET b == bases[NewestBase(bases)]
       IN rd' = [rd EXCEPT ![r] = [ReaderClosed EXCEPT
                   !.st = "root", !.base = b, !.snap = BaseMap(disk, b), !.j = b.level]]
    /\ UNCHANGED wvars

\* The reader's block_to_cursor: the cached block when its number is
\* C[j].n, else a read of the file and the revision check against the
\* parent.  The result is the new reader state, possibly with an error.
\* The reader's block_to_cursor without the revision check.
ReaderFetchUnchecked(s, j, n) ==
    IF n = s.buf[j].n THEN s
    ELSE IF n \notin Blocks \/ disk[n] = Hole
    THEN [s EXCEPT !.st = "idle", !.res = "io"]
    ELSE [s EXCEPT !.buf[j] = [n |-> n, p |-> disk[n]]]

ReaderFetch(s, j, n) ==
    IF n = s.buf[j].n THEN s
    ELSE IF n \notin Blocks \/ disk[n] = Hole
    THEN [s EXCEPT !.st = "idle", !.res = "io"]
    ELSE LET s1 == [s EXCEPT !.buf[j] = [n |-> n, p |-> disk[n]]]
         IN IF j < s.base.level /\ disk[n].rev > s.buf[j + 1].p.rev
            THEN [s1 EXCEPT !.st = "idle", !.res = "modified"]
            ELSE s1

\* read_root for a reader: a faked root has revision 0; a stored root
\* newer than the opened revision means it was overwritten.
ReaderRoot(r) ==
    /\ rd[r].st = "root"
    /\ LET s == rd[r]
           s1 == IF s.base.fakeroot
                 THEN [s EXCEPT !.buf[0] = [n |-> 0, p |-> FakeRoot(0)], !.st = "idle"]
                 ELSE [ReaderFetch(s, s.base.level, s.base.root) EXCEPT !.st = "idle"]
           s2 == IF s1.res = NoVal /\ s1.buf[s.base.level].p.rev > s.base.rev
                 THEN [s1 EXCEPT !.res = "modified"] ELSE s1
       IN \* a failed read_root fails the open: the reader has no table
          rd' = [rd EXCEPT ![r] = IF s2.res = NoVal THEN s2
                                  ELSE [ReaderClosed EXCEPT !.res = s2.res]]
    /\ UNCHANGED wvars

\* get_exact_entry(key): find() from the cached root down.
ReaderLookup(r, k) ==
    /\ rd[r].st \in {"idle", "pos", "end"}
    /\ rd[r].res = "modified" => "retry_after_modified" \in Misuse
    /\ rd[r].st = "end" => "seek_after_end" \in Misuse
    /\ rd' = [rd EXCEPT ![r].st = "busy", ![r].key = k, ![r].j = rd[r].base.level,
                        ![r].res = NoVal, ![r].at = k]
    /\ UNCHANGED wvars

\* One level of find(): the chop in C[j] and the read of the child, or at
\* the leaf the answer.  A block of the wrong level or shape is read as
\* whatever its bytes say: the code only asserts the level in debug builds.
ReaderStep(r) ==
    /\ rd[r].st = "busy"
    /\ LET s == rd[r]
           p == s.buf[s.j].p
           c == FindInBlock(p, s.key, s.j = 0)
       IN rd' = [rd EXCEPT ![r] =
                  CASE p.level # s.j \/ p.items = <<>> ->
                         [s EXCEPT !.st = "idle", !.res = "garbage"]
                    [] s.j = 0 ->
                         [s EXCEPT !.st = "pos", !.pos[0] = c,
                                   !.at = IF c >= 1 THEN p.items[c].k ELSE s.key,
                                   !.res = IF c >= 1 /\ p.items[c].k = s.key
                                           THEN p.items[c].t ELSE NoVal]
                    [] OTHER ->
                         LET s1 == ReaderFetch([s EXCEPT !.pos[s.j] = c], s.j - 1, p.items[c].t)
                         IN IF s1.st = "busy" THEN [s1 EXCEPT !.j = s.j - 1] ELSE s1]
    /\ UNCHANGED wvars

\* Cursor traversal, next(C_, 0): next_default when the opened base was
\* not written sequentially, else next_for_sequential.  pos[j] is
\* C_[j].c as an item index (1 is DIR_START; 0 is DIR_START - D2, before
\* the first item, where find() may leave a leaf); at is the key of the
\* item the cursor is at (Item_(C_[0].p, C_[0].c).key, or the key sought
\* when find() stopped before the first item), kept while a move reads
\* blocks.
\* A key the cursor moves to.
Moved(s, p, c) == [s EXCEPT !.buf[0].p = p, !.pos[0] = c, !.st = "pos",
                            !.at = p.items[c].k]

\* next_default(C_, 0): advance at the lowest level that has an item
\* left; the levels below it are re-read from the new child down (one
\* block_to_cursor per step, NextDefaultDescend), each at DIR_START.
NextDefault(s) ==
    LET up == {j \in 0 .. s.base.level : s.pos[j] + 1 <= Len(s.buf[j].p.items)}
        jj == Min(up)
    IN IF up = {} THEN [s EXCEPT !.st = "end"]
       ELSE IF jj = 0 THEN Moved(s, s.buf[0].p, s.pos[0] + 1)
       ELSE [s EXCEPT !.pos[jj] = @ + 1, !.j = jj, !.st = "next"]

\* Mutant: the level below keeping its old C_[j].c instead of DIR_START.
NextDefaultDescendKeepPos(s) ==
    LET s1 == ReaderFetch(s, s.j - 1, s.buf[s.j].p.items[s.pos[s.j]].t)
        s2 == [s1 EXCEPT !.j = s.j - 1]
    IN CASE s1.st # "next"                 -> s1
         [] s.j > 1                        -> s2
         [] s2.pos[0] > Len(s2.buf[0].p.items) -> [s2 EXCEPT !.st = "idle", !.res = "garbage"]
         [] OTHER                          -> Moved(s2, s2.buf[0].p, s2.pos[0])

\* The block_to_cursor of next_default(C_, j) for level j - 1.
NextDefaultDescend(s) ==
    LET s1 == ReaderFetch(s, s.j - 1, s.buf[s.j].p.items[s.pos[s.j]].t)
        s2 == [s1 EXCEPT !.pos[s.j - 1] = 1, !.j = s.j - 1]
    IN CASE s1.st # "next"                 -> s1
         [] s.j > 1                        -> s2
         [] s2.buf[0].p.items = << >>      -> [s2 EXCEPT !.st = "idle", !.res = "garbage"]
         [] OTHER                          -> Moved(s2, s2.buf[0].p, 1)

\* base.get_last_block(): the highest block of the bitmap (FlintTable_base).
LastBlock(b) == IF b.bitmap = {} THEN BLK_UNUSED ELSE Max(b.bitmap)

\* next_for_sequential(C_, 0): the next item of the leaf, or a scan of the
\* following block numbers for the next leaf (NextForSequentialStep).
NextForSequential(s) ==
    IF s.pos[0] + 1 <= Len(s.buf[0].p.items)
    THEN Moved(s, s.buf[0].p, s.pos[0] + 1)
    ELSE [s EXCEPT !.sn = s.buf[0].n, !.st = "seqnext"]

\* One turn of its loop, for a read-only table: n++, read_block(n, p)
\* into the level-0 buffer, stop at a leaf.  C_[0].n is only set when a
\* leaf is found; a loop that ends otherwise leaves in C_[0].p the last
\* block it read.
\* The loop taking the first block it reads, of any level, as the leaf.
NextForSequentialStepAnyLevel(s) ==
    LET n == s.sn + 1
    IN CASE n > LastBlock(s.base)            -> [s EXCEPT !.st = "end"]
         [] disk[n] = Hole                   -> [s EXCEPT !.st = "idle", !.res = "io"]
         [] disk[n].rev > s.base.rev         -> [s EXCEPT !.buf[0].p = disk[n],
                                                          !.st = "idle", !.res = "modified"]
         [] OTHER -> Moved([s EXCEPT !.buf[0].n = n], disk[n], 1)

NextForSequentialStep(s) ==
    LET n == s.sn + 1
    IN CASE n > LastBlock(s.base)            -> [s EXCEPT !.st = "end"]
         [] disk[n] = Hole                   -> [s EXCEPT !.st = "idle", !.res = "io"]
         [] disk[n].rev > s.base.rev         -> [s EXCEPT !.buf[0].p = disk[n],
                                                          !.st = "idle", !.res = "modified"]
         [] disk[n].level = 0                -> Moved([s EXCEPT !.buf[0].n = n], disk[n], 1)
         [] OTHER                            -> [s EXCEPT !.buf[0].p = disk[n], !.sn = n]

\* prev_default(C_, 0): step back at the lowest level not at DIR_START;
\* the levels below it are re-read from the new child down, each at its
\* last item (DIR_END - D2), one block_to_cursor per step.
PrevDefault(s) ==
    LET down == {j \in 0 .. s.base.level : s.pos[j] > 1}
        jj == Min(down)
    IN IF down = {} THEN [s EXCEPT !.st = "end"]
       ELSE IF jj = 0 THEN Moved(s, s.buf[0].p, s.pos[0] - 1)
       ELSE [s EXCEPT !.pos[jj] = @ - 1, !.j = jj, !.st = "prev"]

\* The block_to_cursor of prev_default(C_, j) for level j - 1.
PrevDefaultDescend(s) ==
    LET s1 == ReaderFetch(s, s.j - 1, s.buf[s.j].p.items[s.pos[s.j]].t)
        s2 == [s1 EXCEPT !.pos[s.j - 1] = Len(s1.buf[s.j - 1].p.items), !.j = s.j - 1]
    IN CASE s1.st # "prev"                 -> s1
         [] s2.pos[s.j - 1] = 0            -> [s2 EXCEPT !.st = "idle", !.res = "garbage"]
         [] s.j > 1                        -> s2
         [] OTHER                          -> Moved(s2, s2.buf[0].p, s2.pos[0])

\* prev_for_sequential(C_, 0): the previous item of the leaf, or a scan
\* of the block numbers below it for the previous leaf.
PrevForSequential(s) ==
    IF s.pos[0] > 1 THEN Moved(s, s.buf[0].p, s.pos[0] - 1)
    ELSE [s EXCEPT !.sn = s.buf[0].n, !.st = "seqprev"]

\* One turn of its loop, for a read-only table: stop at block 0, else
\* n--, read_block(n, p) into the level-0 buffer, stop at a leaf, at its
\* last item.  As in the forward scan, C_[0].n is only set at a leaf.
PrevForSequentialStep(s) ==
    LET n == s.sn - 1
    IN CASE s.sn = 0                         -> [s EXCEPT !.st = "end"]
         [] disk[n] = Hole                   -> [s EXCEPT !.st = "idle", !.res = "io"]
         [] disk[n].rev > s.base.rev         -> [s EXCEPT !.buf[0].p = disk[n],
                                                          !.st = "idle", !.res = "modified"]
         [] disk[n].level = 0 /\ disk[n].items = << >> ->
                                                [s EXCEPT !.buf[0] = [n |-> n, p |-> disk[n]],
                                                          !.st = "idle", !.res = "garbage"]
         [] disk[n].level = 0                -> Moved([s EXCEPT !.buf[0].n = n], disk[n],
                                                      Len(disk[n].items))
         [] OTHER                            -> [s EXCEPT !.buf[0].p = disk[n], !.sn = n]

\* FlintCursor::next on a positioned cursor: next(C_, 0).
ReaderNextKey(r) ==
    /\ rd[r].st = "pos"
    /\ rd[r].res \notin {"io", "modified", "garbage"}
    /\ rd' = [rd EXCEPT ![r] = IF rd[r].base.sequential THEN NextForSequential(rd[r])
                                ELSE NextDefault(rd[r])]
    /\ UNCHANGED wvars

\* FlintCursor::prev on a positioned cursor: prev(C_, 0).  A find() that
\* stopped before the leaf's first item (C_[0].c = DIR_START - D2) is
\* moved to DIR_START by FlintCursor before it calls prev; prev_default
\* only Asserts c >= DIR_START, so the model does not step back from it.
ReaderPrevKey(r) ==
    /\ rd[r].st = "pos"
    /\ rd[r].pos[0] >= 1
    /\ rd[r].res \notin {"io", "modified", "garbage"}
    /\ rd' = [rd EXCEPT ![r] = IF rd[r].base.sequential THEN PrevForSequential(rd[r])
                                ELSE PrevDefault(rd[r])]
    /\ UNCHANGED wvars

\* One block read of a next() or prev() in progress.
ReaderNextStep(r) ==
    /\ rd[r].st \in {"next", "seqnext", "prev", "seqprev"}
    /\ rd' = [rd EXCEPT ![r] = CASE rd[r].st = "next"    -> NextDefaultDescend(rd[r])
                                 [] rd[r].st = "seqnext" -> NextForSequentialStep(rd[r])
                                 [] rd[r].st = "prev"    -> PrevDefaultDescend(rd[r])
                                 [] OTHER                -> PrevForSequentialStep(rd[r])]
    /\ UNCHANGED wvars

ReaderClose(r) ==
    /\ rd[r].st # "closed"
    /\ rd' = [rd EXCEPT ![r] = ReaderClosed]
    /\ UNCHANGED wvars

-----------------------------------------------------------------------------
(* The system: no table files yet, one writer handle, reader handles.     *)

Init ==
    /\ \E w \in {Constructed([n \in Blocks |-> Hole], [n \in Blocks |-> Hole],
                             [l \in Letters |-> NoBase])} :
         /\ disk = w.disk /\ durable = w.durable /\ bases = w.bases
         /\ handle = w.handle /\ werr = w.err /\ C = w.C /\ level = w.level
         /\ bm0 = w.bm0 /\ bm = w.bm /\ revision_number = w.revision_number
         /\ latest_revision_number = w.latest /\ both_bases = w.both_bases
         /\ base_letter = w.base_letter /\ item_count = w.item_count
         /\ faked_root_block = w.faked_root_block /\ sequential = w.sequential
         /\ seq_count = w.seq_count /\ changed_n = w.changed_n
         /\ changed_c = w.changed_c /\ Btree_modified = w.Btree_modified
    /\ rd = [r \in Readers |-> ReaderClosed]

Revisions == 0 .. MaxRev
Outcomes == {"ok"} \cup (Faults \cap {"fsync_fail", "rename_fail"})

WriterNext ==
    \/ Create
    \/ \E k \in Keys, v \in Values : Add(k, v)
    \/ \E r \in Revisions, o \in Outcomes : Commit(r, o)
    \/ "open" \in Calls /\ \E r \in Revisions : Open(r)
    \/ "open_newest" \in Calls /\ OpenNewest
    \/ "del" \in Calls /\ \E k \in Keys : Del(k)
    \/ "set_full_compaction" \in Calls /\ SetFullCompaction
    \/ "flush_db" \in Calls /\ Flush
    \/ "commit_closed" \in Calls /\ \E r \in Revisions : CommitClosed(r)
    \/ "cancel" \in Calls /\ Cancel
    \/ "close" \in Calls /\ Close
    \/ "close_permanently" \in Calls /\ ClosePermanently
    \/ "erase" \in Calls /\ Erase

ReaderNext ==
    \E r \in Readers :
        \/ ReaderOpen(r) \/ ReaderRoot(r) \/ ReaderStep(r) \/ ReaderClose(r)
        \/ \E k \in Keys : ReaderLookup(r, k)
        \* get_exact_entry Asserts a non-empty key: only a cursor seeks the
        \* null key, to its start
        \/ Calls \cap {"cursor_next", "cursor_prev"} # {} /\ ReaderLookup(r, NullKey)
        \/ "cursor_next" \in Calls /\ ReaderNextKey(r)
        \/ "cursor_prev" \in Calls /\ ReaderPrevKey(r)
        \/ ReaderNextStep(r)

Next == WriterNext \/ ReaderNext \/ Crash \/ CrashInCreate \/ CrashInErase

Spec == Init /\ [][Next]_vars


-----------------------------------------------------------------------------
(* Properties.                                                            *)

TypeOK ==
    /\ disk \in [Blocks -> Block \cup {Hole}]
    /\ durable \in [Blocks -> Block \cup {Hole}]
    /\ bases \in [Letters -> BaseRec \cup {NoBase}]
    /\ handle \in {"open", "closed", "perm"}
    /\ werr \in {"none", "io", "corrupt", "opening", "bound"}
    /\ C \in [Levels -> [n : Blocks \cup {BLK_UNUSED}, c : Int, rewrite : BOOLEAN,
                         p : Block \cup {NoBuf}]]
    /\ level \in Levels /\ bm0 \subseteq Blocks /\ bm \subseteq Blocks
    /\ revision_number \in Revisions /\ latest_revision_number \in Revisions
    /\ base_letter \in Letters /\ item_count \in Int
    /\ {both_bases, faked_root_block, sequential, Btree_modified}
         \subseteq BOOLEAN
    /\ rd \in [Readers -> [st : {"closed", "root", "idle", "busy", "pos", "next",
                                 "seqnext", "prev", "seqprev", "end"},
                           base : BaseRec \cup {NoBase}, snap : Map,
                           key : Keys \cup {NullKey}, j : Levels,
                           buf : [Levels -> [n : Blocks \cup {BLK_UNUSED},
                                             p : Block \cup {NoBuf}]],
                           pos : [Levels -> Int], sn : Blocks \cup {BLK_UNUSED},
                           at : {NullKey} \cup Keys,
                           res : Values \cup {NoVal, "io", "modified", "garbage"}]]

\* Every base file on disk is a consistent revision: its tree is well
\* formed, its item_count is the number of keys in the tree, and its
\* bitmap marks every block of the tree, so that the next transaction
\* (alter, next_free_block) will not reuse one of them.
BasesConsistent ==
    \A l \in Letters :
        LET b == bases[l]
        IN b # NoBase =>
             /\ ~b.fakeroot => /\ WellFormed(disk, b.root, b.level, 0, Infinity, b.rev, TRUE)
                               /\ TreeBlocks(disk, b.root, b.level) \subseteq b.bitmap
             /\ b.item_count = Cardinality(KeysIn(BaseMap(disk, b)))

\* While its base file exists, no block of a committed revision changes:
\* write_block is only ever given blocks that were free at the start of
\* the transaction, and the first write unlinks the base it may reuse.
NoBaseBlockOverwritten ==
    [][\A l \in Letters :
         bases[l] # NoBase /\ bases'[l] = bases[l] /\ ~bases[l].fakeroot =>
           \A n \in TreeBlocks(disk, bases[l].root, bases[l].level) : disk'[n] = disk[n]
      ]_vars

\* The tree the writer's cursor and the DB file show together stays
\* well formed after every call that left the cursor usable, and
\* item_count, maintained by add() and del(), counts its keys.
WriterViewConsistent ==
    handle = "open" /\ Usable =>
        LET V == WView(W)
        IN /\ WellFormed(V, C[level].n, level, 0, Infinity, MaxRev + 1, TRUE)
           /\ item_count = Cardinality(KeysIn(TreeMap(V, C[level].n, level)))

\* The refinement: the committed revisions are the base files' trees,
\* the writer's map is the tree its cursor shows while the handle is
\* open and usable.
KV == INSTANCE FlintKV WITH
        Revisions <- Revisions,
        snaps <- {[rev |-> bases[l].rev, map |-> BaseMap(disk, bases[l])] :
                    l \in {x \in Letters : bases[x] # NoBase}},
        wmap <- IF handle = "open" /\ Usable
                THEN TreeMap(WView(W), C[level].n, level) ELSE Closed,
        wbase <- IF handle = "open" /\ Usable THEN revision_number ELSE 0

\* FlintTable implements FlintKV: committed revisions change only by a
\* commit or by the other base being retired, the writer's changes stay
\* private until commit, cancel and open restore a committed revision,
\* and no crash or failed call alters what was committed.
ImplementsKV == KV!Spec

\* cancel() on an open handle, or right after a call that failed,
\* discards the transaction and leaves the handle open and usable on the
\* revision of a base file (spec.md section 8, scenario 5: after a
\* failed commit, cancel() restores the previous revision exactly).
CancelRestores ==
    [][Cancel /\ (handle = "open" \/ werr # "none") =>
                 /\ handle' = "open" /\ Usable'
                 /\ \E l \in Letters : bases'[l] # NoBase /\ bases'[l].rev = revision_number'
      ]_vars

\* A lookup by a reader that neither failed nor was told the revision was
\* discarded (DatabaseModifiedError) returns what the revision it opened
\* holds for the key: block_to_cursor's revision checks catch every block
\* the writer has reused since.  No lookup or next() ever reads a block of
\* the wrong level or an empty leaf as its answer (res "garbage").
ReaderSeesSnapshot ==
    \A r \in Readers :
        /\ rd[r].res # "garbage"
        /\ rd[r].st = "pos" /\ rd[r].key \in Keys
           /\ rd[r].res \notin {"io", "modified"}
           => rd[r].res = rd[r].snap[rd[r].key]

\* The key that follows k in the snapshot m, NoVal past the last.
SuccKey(m, k) == LET above == {x \in KeysIn(m) : x > k}
                 IN IF above = {} THEN NoVal ELSE Min(above)

\* The key that precedes k in the snapshot m: the null item of the first
\* leaf before the first key, NoVal before the null item.
PredKey(m, k) == LET below == {x \in KeysIn(m) : x < k}
                 IN IF k = NullKey THEN NoVal ELSE IF below = {} THEN NullKey ELSE Max(below)

\* A step of a next() or of a prev() of reader r.
Forward(r)  == ReaderNextKey(r) \/ (rd[r].st \in {"next", "seqnext"} /\ ReaderNextStep(r))
Backward(r) == ReaderPrevKey(r) \/ (rd[r].st \in {"prev", "seqprev"} /\ ReaderNextStep(r))

\* Each next() of a cursor that does not fail moves it to the key of the
\* revision it opened that follows the one it is at (after find(k): the
\* last item at or before k),
\* each prev() to the one before it, and either reports the end only when
\* there is none: so a scan visits every key of the snapshot once, in
\* ascending order, and a reverse scan in descending order (spec.md:
\* traversal under a snapshot), whether the table was written sequentially
\* (next_for_sequential and prev_for_sequential scan block numbers) or not
\* (next_default and prev_default climb the tree), while the writer goes
\* on adding, deleting and committing.
ScanVisitsInOrder ==
    [][\A r \in Readers :
         /\ Forward(r) /\ rd'[r].st \in {"pos", "end"}
            => IF rd'[r].st = "pos" THEN rd'[r].at = SuccKey(rd[r].snap, rd[r].at)
               ELSE SuccKey(rd[r].snap, rd[r].at) = NoVal
         /\ Backward(r) /\ rd'[r].st \in {"pos", "end"}
            => IF rd'[r].st = "pos" THEN rd'[r].at = PredKey(rd[r].snap, rd[r].at)
               ELSE PredKey(rd[r].snap, rd[r].at) = NoVal]_vars
====
