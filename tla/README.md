# TLA+ models of the flint B-tree table

This directory holds TLA+ models of `backends/flint/flint_table.cc`
(xapian-core 1.2.13, as vendored under `src/xapian/`), and TLC
configurations that check them. `backends/chert/chert_check.h` is the
other source in scope. It only declares the chert table checker and has
nothing to model.

## The system

A flint table is a revisioned B-tree kept in two kinds of file:

* **The DB file.** It holds fixed-size blocks. Leaves hold key/tag items.
  Index blocks hold separator keys and child block numbers. Every block
  carries the revision that wrote it.
* **Two base files, `baseA` and `baseB`.** Each names one committed
  revision: its root block, level, item count, and a bitmap of the
  blocks in use.

The table is copy-on-write:

* `alter()` moves every block that was in use at the start of the
  transaction (`block_free_at_start`) to a fresh number from
  `next_free_block`.
* A modified block reaches the file only when it is evicted from the
  writer's cursor (`block_to_cursor` → `write_block`) or by `flush_db`.
* The first `write_block` of a transaction unlinks the *other* base. Its
  blocks may be reused from then on.
* `commit(rev)` runs `flush_db`, sets the revision, `fsync`s the DB file,
  writes the new base to a temporary file and renames it over the older
  base. Its `catch` closes the handle.
* `cancel()` rereads the current base and rebuilds the cursor. On a
  closed handle it only resets `latest_revision_number`.

Readers are other `FlintTable` objects opened read-only on the same
files. They descend from the root one `pread` at a time. They rely on the
revision stamped in each block: a child newer than its parent, or a root
newer than the opened revision, raises `DatabaseModifiedError`.

These are the parts and how they interact:

| part | code | model |
|---|---|---|
| writer B-tree operations | `find`, `find_in_block`, `alter`, `add_item`, `split_root`, `enter_key`, `mid_point`, `delete_item`, `add_kt`, `delete_kt`, `add`, `del` | `FlintTable`: `Find`, `Alter`, `AddItem`, `SplitRoot`, `EnterKey`, `DeleteItem`, `CollapseRoot`, `AddKt`, `DeleteKt`; actions `Add`, `Del` |
| block I/O and built-in cursor | `read_block`, `write_block`, `block_to_cursor` | `WriteBlock`, `BlockToCursor`, `WView` |
| base files and transactions | `basic_open`, `read_root`, `do_open_to_write`, `create_and_open`, `erase`, `flush_db`, `commit`, `cancel`, `open`, `close` | `BasicOpen`, `ReadRoot`, `OpenToWrite`, `CreateSteps`, `CreateAndOpen`, `EraseSteps`, `FlushDb`, `CommitOpen`, `CancelOpen`, `CloseW`; actions `Create`, `Erase`, `Open`, `OpenNewest`, `Flush`, `Commit`, `CommitClosed`, `Cancel`, `Close`, `ClosePermanently` |
| block allocator | `FlintTable_base` (flint_btreebase.cc, not among the sources) | `BlockFreeAtStart`, `NextFree`, `Allocate`, `FreeBlock`, modelled from the spec |
| readers | `do_open_to_read`, `read_root`, `get_exact_entry` → `find`, `block_to_cursor`; cursor `next` → `next_default`, `next_for_sequential`; `prev` → `prev_default`, `prev_for_sequential` | `ReaderOpen`, `ReaderRoot`, `ReaderLookup`, `ReaderStep`, `ReaderFetch`, `ReaderNextKey`, `ReaderPrevKey`, `ReaderNextStep` (`NextDefault`, `NextDefaultDescend`, `NextForSequential`, `NextForSequentialStep` and their `Prev` counterparts), `ReaderClose` |
| machine crash | (environment), also between the file steps of `create_and_open` and `erase` | `Crash`, `CrashInCreate`, `CrashInErase` (all through `CrashFrom`) |
| leaf byte layout | `find_in_block`, `compact`, `mid_point`, `add_item_to_block`, `add_item`, `add_kt`, `delete_item`, `delete_kt`, `set_full_compaction` | `FlintBlock`: one leaf block in bytes |
| tag chunking | `add`, `del`, `read_tag`, `commit`, `cancel` (over items) | `FlintChunks`: a table as a set of chunk items |

## Modules

* **`FlintKV.tla`** is the abstract specification: what a table
  promises. It has a set of committed snapshots `snaps` (revision ↦ map),
  the writer's private map `wmap` (or `Closed`), and the revision it
  started from, `wbase`. Its actions are:
  * `Create`, with an optional first write, since `add()` on a closed
    handle creates the table;
  * `Write`;
  * `Flush`, which may retire the older snapshot;
  * `Commit(r)`, which publishes `wmap` as revision `r`;
  * `Open(r)`, also used for cancel, which restores a committed
    snapshot;
  * `Fail`, where the handle is lost and committed snapshots are kept;
  * `Erase`, which leaves no snapshot, and `Interrupted(r)`: a crash
    part way through `create_and_open` or `erase` leaves some of the
    old snapshots and perhaps the new empty revision `r`, never a map
    that was not committed.
  `Overwrite(r)` replaces whatever snapshots there were by an empty
  revision (create_and_open over an existing table); `Create` and
  `Write` (so `add()`) never drop a snapshot.
* **`FlintTable.tla`** is the implementation model.
  * The variables are the fields of `FlintTable`, plus the DB file
    (`disk`, and `durable` for what survives a crash), the base files
    (`bases`) and the readers (`rd`).
  * Each writer API call is one action. The handle is single-threaded,
    so a call is atomic with respect to other writer calls. Readers are
    separate processes and interleave at every block read.
  * The body of a call is computed on a record `w` of all writer
    variables (`W`, then `SetW`). Nested calls therefore keep the
    code's order, its early returns and its error paths. An error sets
    `w.err`, and later steps are skipped the way the exception skips
    them.
  * `KV == INSTANCE FlintKV WITH ...` is the refinement mapping:
    * `snaps` are the trees reachable from the present base files;
    * `wmap` is the tree the writer's cursor shows over the file while
      the handle is open and usable;
    * `ImplementsKV` checks `KV!Spec`.
* **`MCFlintTable.tla`** instantiates both for TLC. Keys are `{1,2}` or
  `{1,2,3}`, there is one tag `v1`, at most one reader `r1`, and
  `SEQ_START_POINT = -10` as in the code.

* **`FlintBlock.tla`** models one leaf block in bytes, below the level
  of `FlintTable`. The variable `p` is the block: its directory (a
  sequence of `[k, o, l]`: key, offset and item length, in directory
  order) and the header fields `MAX_FREE` and `TOTAL_FREE`. `seq_count`
  and `changed_c` are the table's sequential-mode fields; `changed_c` is
  -1 once the changed block is the other half of a split.
  * `FindInBlock` is the binary chop with its hint narrowing,
    `Compact`, `MidPoint`, `AddItemToBlock` and `AddItem` (with the
    split into two compacted halves, either of which the model keeps)
    are operators over a block.
  * Actions: `Add(k, l)` is `add_kt` with its three replacement paths
    (in place, into the gap, the long way through `delete_item` and
    `add_item`) and its new-key path with the sequential counters;
    `Del(k)` is `delete_kt`; `SetFullCompaction`.
  * `MCFlintBlock` sets `SEQ_START_POINT = -10`.
* **`FlintChunks.tla`** models a table as the set of its items
  `[k, c, n, b]` (key, component, component count, chunk), one level
  above `FlintBlock`. A tag is a record `[v, len]`; a chunk is the
  byte range `[v, from, to]` of it.
  * `Plan` is `add()`'s arithmetic: `cd`, `L`, the `first_L` heuristic
    over the leaf's `TOTAL_FREE`, `m` in `size_t` (`SizeT`, modulo
    `2^SizeBits`) and each chunk's length.
  * `Add(k, t, total_free, fc)` runs the `add_kt` steps and the
    `delete_kt` of surplus components (`AddSteps`). With `Faults` any
    step may throw, leaving the earlier steps done (`RunSteps`);
    `failed` then records that the caller must `cancel()`. `Del(k)`
    walks the components the same way. `Commit` publishes `items` as
    `committed`; `Cancel` restores it.
  * `ReadTag(k)` joins chunk 1 and the items `next()` reaches after
    it, or `Corrupt` when it runs off the end. `next()` walks the items
    in `Key_::operator<` order (`KeyLess`): a key is a byte string
    (`KeyBytes`), the item key is its bytes then the component in two
    big-endian bytes, compared with one `memcmp` when the key lengths
    are equal and by the common part, then length, otherwise
    (`Memcmp`, `KeyOf`).
  * `MCFlintChunkPlan` drives `Plan` alone over every length and
    `TOTAL_FREE` up to a bound (`input`); `MCFlintChunks` checks the
    plan of every tag the table holds at the `TOTAL_FREE` values where
    `first_L`'s cases change (`PlanTotalFrees`).

### Reader cursors

A reader's record `rd[r]` holds its own cursor `C_`: `buf[j]` is
`C_[j].n` and `C_[j].p` (the block number and the bytes last read into
that level's buffer), `pos[j]` is `C_[j].c` as an item index (1 is
`DIR_START`). `find()` (`ReaderLookup`, then one `ReaderStep` per
level) leaves the cursor positioned (`st = "pos"`). With `"cursor_next"`
in `Calls` a positioned cursor moves with `next()` (`ReaderNextKey`):

* not sequential: `next_default` advances at the lowest level with an
  item left (`NextDefault`) and re-reads the levels below it, one
  `block_to_cursor` per step at `DIR_START` (`NextDefaultDescend`);
* `base.sequential`: `next_for_sequential` takes the next item of the
  leaf, or scans block numbers `n + 1 ..` up to `get_last_block()`
  (`LastBlock`), one `read_block` into `C_[0].p` per step
  (`NextForSequentialStep`), stopping at a level-0 block, at a block
  newer than the reader's revision (`DatabaseModifiedError`) or past the
  last block (the end, `st = "end"`). `C_[0].n` is only updated when a
  leaf is found.

With `"cursor_prev"` a positioned cursor moves back with `prev()`
(`ReaderPrevKey`): `prev_default` steps back at the lowest level not
at `DIR_START` and re-reads the levels below at their last item;
`prev_for_sequential` scans block numbers down to 0. A `find()` that
stopped before a leaf's first item (`C_[0].c = DIR_START - D2`) is not
stepped back from: `FlintCursor` moves it to `DIR_START` first, and
`prev_default` only asserts `c >= DIR_START`.

`at` is the key of the item the cursor is at (or the key sought, when
`find()` stopped before a leaf's first item).

### Abstractions

* Keys are positive integers ordered by `<`. The null key is 0.
* In `FlintTable` a tag is one model value and every item has the same
  size. Chunking and bytes are modelled separately in `FlintChunks` and
  `FlintBlock`; compression is not modelled anywhere (the compressed
  flag only passes through).
* In `FlintTable`, A block splits when it holds `Cap = 2`
  items, which plays the role of the byte capacity. `mid_point` and the
  truncation in `enter_key` are kept, on these sizes.
* `FlintBlock` models one leaf; item bodies are not stored, only their
  key, offset and length, which is all `compact` and the counters read.
  Keys are integers, so a leaf item is at least 8 bytes (`I2 + K1 +
  C2 + C2` = 7 plus one key byte).
* `FlintChunks` has one leaf: `TOTAL_FREE` at the time of `add()` is an
  input from a small set, since it depends on the whole tree.
* A buffer freed by `delete_item` or `close` is `NoBuf`. Reading into
  it is an I/O error, because `pread` into NULL fails with EFAULT.
  Calls that would dereference such a buffer are not enabled (`Usable`).
* `new Byte[]` buffers that are not yet read are `Uninit`.
* `close()` and `do_open_to_write` leave `C[j].rewrite` and `C[j].c`
  unchanged, and the model keeps them too. A write to `BLK_UNUSED`
  lands outside the modelled blocks.
* Caller contract (`Misuse`). By default the model makes only the calls
  the database layer makes:
  * no writes at a revision older than the newest (`AtNewest`);
  * commits above every existing revision (`CommitRevOK`);
  * no `open()` of a modified handle;
  * no `add()` on a handle whose table exists but was closed by a
    failure;
  * no reader retrying after `DatabaseModifiedError`;
  * no reader cursor positioned again with `find()` after `next()` ran
    off the end (`seek_after_end`).

  A violation run lifts one of these to show what the code does then
  (`add_when_closed` in add_after_failed_commit, `seek_after_end` in
  seek_after_end). Two more flags,
  `modify_old_revision` and `retry_after_modified`, let the model write
  at an older revision and let a reader retry after
  `DatabaseModifiedError`; no run checks them (see the hazards at 1966
  and 377 in `PROJECT.json`).
  Two calls extend the writer's repertoire: `"overwrite"` lets a new
  handle run `create_and_open` over an existing table
  (`DB_CREATE_OR_OVERWRITE`), and `"erase"` enables `erase()`.
  `CreateSteps` lists the file states `create_and_open` passes through,
  in the code's order (1713-1725): base A rewritten in place under its
  own name (invalid until its trailing checksum is written), base A
  complete, base B unlinked, the DB file truncated by `O_TRUNC` in
  `do_open_to_write`. `EraseSteps` does the same for the three unlinks of
  `erase()`. `CrashInCreate` and `CrashInErase` stop the machine after
  any of these steps.

## Runs

The bounds common to all runs are `Cap = 2`, `MaxLevel = 2` (a root and
one level of leaves, so every split, root split and root collapse
happens) and `MaxRev = 2` (three revisions, so both bases exist and one
is retired). The writer run makes every call except
`set_full_compaction`. That call is the only way, under these bounds, for
`seq_count` to reach 0 and for `add_item` to take its sequential-split
branch, so it gets the run of its own, which is also the run where a
reader steps its cursor through sequentially written tables (and,
after deletions, through ones that are not). `NBlocks = 5` lets two live revisions, a split and a
relocation coexist. With 4 blocks the collapse/cancel bug and block
reuse under a reader are not reachable. The sequential run (and
seek_after_end) use 4 blocks, keys `{1,2}` and `MaxRev = 1`: a
sequentially written table of two keys already has two leaves and an
index block after them, deletions make tables that are not sequential,
and the reader scans a committed revision while the writer goes on
changing the next one; with more, the cursor moves do not fit the time
bound.

| run | cfg | checks | result |
|---|---|---|---|
| writer | `MCFlintWriter.cfg` | `TypeOK`, `BasesConsistent`, `WriterViewConsistent`, `NoBaseBlockOverwritten`, `ImplementsKV` | pass (45k states under `WriterOnlyView`) |
| sequential | `MCFlintSequential.cfg` | `WriterViewConsistent`, `ReaderSeesSnapshot`, `ScanVisitsInOrder` with `set_full_compaction(true)` and a reader's `next()` and `prev()` | pass (63k states) |
| crash | `MCFlintCrash.cfg` | `BasesConsistent`, `ImplementsKV` under crashes (also inside `create_and_open` and `erase`) and failed fsync/rename; keys `{1,2,3}`, 5 blocks, `MaxRev = 3` | pass (12k states under `WriterOnlyView`) |
| readers | `MCFlintReaders.cfg` | `ReaderSeesSnapshot`; the writer adds, deletes, commits, cancels and reopens | pass (163k states) |
| cancel_after_collapse | `MCFlintCancelCollapse.cfg` | `CancelRestores` | violation |
| cancel_after_failed_commit | `MCFlintCancelAfterFailedCommit.cfg` | `CancelRestores` | violation |
| add_after_failed_commit | `MCFlintAddAfterFailedCommit.cfg` | `ImplementsKV` | violation |
| block | `MCFlintBlock.cfg` | `TypeOK`, `LayoutConsistent`, `FindInBlockCorrect` | pass (83k states) |
| chunks | `MCFlintChunks.cfg` | `TypeOK`, `ComponentsConsistent`, `GetReturnsLastAdd`, `PlanFits`, `KeyOrderAgrees` | pass (94k states) |
| chunk_extra_item | `MCFlintChunkExtraItem.cfg` | `PlanNoExtraItem` | violation |
| read_after_failed_add | `MCFlintChunksAfterFailure.cfg` | `ReadTagWhole` | violation |
| seek_after_end | `MCFlintSeekAfterEnd.cfg` | `ReaderSeesSnapshot` | violation |

The writer and crash runs are checked under a `VIEW`, `WriterOnlyView` in `MCFlintTable`:
states that differ only in the contents of blocks that no base file's
tree and no open cursor reaches are taken as one. This is sound for those
runs. They have no readers (a sequential scan is the only code that reads
blocks outside a tree). The writer reads only blocks of its tree. It
writes every block `next_free_block` gives it whole, before reading it.
A crash only reverts blocks, and which blocks the bases reach stays in
the view. Without the view, the mostly unreachable garbage that crashes
leave behind multiplies the states (690k at 4 blocks, 2 keys,
`MaxRev = 2`, 13 minutes). With it, the run affords 3 keys, 5 blocks
and four revisions: overwriting then reuses revision 0 under an old base
of revision up to 3. The writer run, every API call enabled, goes from
281k states to 45k.

The run shows that the order of `create_and_open`'s file steps keeps
every base file on disk a consistent tree whatever step the machine
stops after. It also shows what `FlintKV!Interrupted` has to allow.
Suppose base A held the newest revision and base B an older one. If
`create_and_open` stops after rewriting A but before unlinking B, the
next `open()` finds B, an older revision, and opens it. If `erase()`
stops after its first unlink, it does the same. The FIXME at 1707 says
the same.

Bounds of the lower-level runs:

* **block.** A 64-byte block (max item size 11), keys 1..4 and item
  sizes 8 and 11. Four items fill it, so adds compact, split in
  mid-point mode and, after `set_full_compaction` or in sequential runs
  of new keys, in sequential mode; replacements take all three paths.
* **chunks.** Max item size 59 and keys `<<1>>` and `<<1, 0, 2>>`, so
  `L = 51` and `L = 49`; the first is a prefix of the second and its
  component bytes `<<0, c>>` are the second's next bytes, the case where
  one `memcmp` over key and count would interleave the two keys' items.
  For key 1, tags of
  0, 51, 53 and 103 bytes take 1, 1 or 2, 2 or 3 and 3 items, and
  replacing one by another both grows and shrinks a key. `TOTAL_FREE`
  of 0, 11 and 45 makes the `first_L` heuristic not fire, fire, and
  fire only under full compaction. Two keys make `next()` cross from
  one key into another, in either direction. Max item size 59 is the smallest for which the
  `fc` branch (`n >= keylen + 34`) is reachable. `PlanFits` tries eight
  `TOTAL_FREE` values around each boundary of `first_L`'s cases for
  every tag held.
* **chunk_extra_item.** `MCFlintChunkPlan`: max item size 59, every tag
  length up to `3L + 2` and every `TOTAL_FREE` up to
  `2(max_item_size + 2)`.

What each property says:

* **`BasesConsistent`.** Every present base file is a well-formed tree:
  * levels count down to the leaves;
  * keys are ordered and within their separators;
  * no child is newer than its parent;
  * its bitmap covers its blocks;
  * its `item_count` counts its keys.
* **`NoBaseBlockOverwritten`** (action property). No step changes a
  block of a base file that still exists.
* **`WriterViewConsistent`.** The cursor-over-file tree is well formed,
  and `item_count` counts its keys.
* **`ImplementsKV`.** The refinement described above.
* **`ReaderSeesSnapshot`.** A reader lookup that did not fail answers
  from the revision it opened, and no lookup or `next()` reads a block
  of the wrong level or an empty leaf as its answer.
* **`ScanVisitsInOrder`** (action property). Each `next()` that does
  not fail moves the cursor to the key of its revision that follows the
  one it is at, each `prev()` to the one before it (the null item before
  the first key), and either reports the end only when there is none: a
  scan sees every key of the snapshot once, in order, and a reverse scan
  in reverse order (spec.md, traversal
  under a snapshot), while the writer goes on writing and committing.
* **`LayoutConsistent`.** After any sequence of adds, replacements,
  deletions and splits the block's items lie between the directory's
  end and the block's end, do not overlap, have increasing keys,
  `TOTAL_FREE` is exactly the free bytes, and `MAX_FREE` is the gap
  between the directory and the lowest item.
* **`FindInBlockCorrect`.** `find_in_block` gives the same answer as a
  linear search for every key, leaf flag and hint the table can leave in
  `C[0].c`.
* **`ComponentsConsistent`.** Once every call has completed, every key
  has exactly components `1..n`, all announcing the same `n`, and
  `item_count` counts keys.
* **`GetReturnsLastAdd`.** With no failed call pending, `read_tag`
  returns the whole tag last added (or `NoTag` after a `del`).
* **`PlanFits`.** The chunk plan's items fit `max_item_size` and their
  chunks cover the tag exactly.
* **`KeyOrderAgrees`.** For every two items held, `Key_::operator<`
  orders them as the key byte strings compare (a proper prefix first),
  then by component: all of a key's components are adjacent and in
  order, which `read_tag`'s walk with `next()` relies on.
* **`PlanNoExtraItem`** and **`ReadTagWhole`** are the claims the two
  new violation runs refute (findings 4 and 5).
* **`CancelRestores`** (action property). `cancel()` on an open handle,
  or after a failed call, leaves the handle open and usable at a
  committed revision.

Every property of a passing run has a mutant in `PROJECT.json`: a variant
of one code definition, defined in the same module just before it, that
the property rejects. For example:

* commit saving `bit_map0`;
* commit without `io_sync`;
* `write_block` without the unlink;
* `create_and_open` truncating the DB file before it unlinks base B (a
  crash then leaves base B over an empty file);
* `alter()` without `block_free_at_start`;
* `enter_key` truncating one byte short;
* `Key_::operator<` comparing key and count with one `memcmp` when the
  key lengths differ;
* the sequential split's room test off by one;
* `cancel()` keeping the cursor;
* a reader without the revision check;
* `next_default` leaving the level below at its old `C_[j].c`;
* `next_for_sequential` taking the first block it reads, of any level;
  (`prev_default` re-reading the levels below at `DIR_START` instead of
  their last item is also rejected by `ScanVisitsInOrder`);
* `add_item_to_block` without its `compact`;
* `find_in_block` narrowing with `<=` on the hint;
* the sequential counter stepping past its limit;
* `first_L` without the `cd` term;
* chunk lengths taken from the wrong end;
* the surplus-component deletion one short;
* `del` that does not check the key exists.

## Findings

1. **Cancel after root collapse** (`flint_table.cc:836`, 1969-1974).
   `delete_item` deletes the root's buffer when the tree loses a level.
   `cancel()` restores the base's level and `read_root()` reads into the
   NULL buffer, so cancel throws.
2. **Cancel after a failed commit** (1835, 1889-1892, 1942-1948).
   `commit` records the new revision before `io_sync` and rename, and
   its catch closes the handle. `cancel()` on a closed handle does not
   reload anything. spec.md (§ propagation policy, scenario 5) says
   cancel restores the previous revision.
3. **Add after a failed commit** (1013). `add()` on the closed handle
   runs `create_and_open`, which truncates the DB file and unlinks
   `baseB`. Every committed revision is lost.
4. **An extra item for tags that are a multiple of L** (1076). For a
   new key the first chunk is shrunk to the leaf's free residue `n`
   whenever `n >= last`, `last = len % L`. When `len % L = 0` that test
   always passes, and a tag of exactly `L` bytes is stored as two items.
   The comment at 1066 and spec.md say filling the block causes no
   extra item.
5. **`read_tag` after a failed, uncancelled add** (1220). `read_tag`
   appends whatever `next()` returns without checking its key. After an
   `add()` that threw between two `add_kt` steps, the key's chunks are
   joined with the next key's, instead of the `DatabaseCorruptError`
   spec.md lists for a missing continuation chunk.
6. **`find()` after a sequential scan ran off the end** (2136, 364).
   `next_for_sequential` reads each candidate block into `C_[0].p` and
   updates `C_[0].n` only when it finds a leaf. When the table's last
   blocks are index blocks (a sequentially written table's root is
   allocated after its leaves), the scan returns false with `C_[0].p`
   holding an index block under the last leaf's number. A later
   `find()` on the same cursor descends to that leaf number and
   `block_to_cursor` returns early (`n == C_[j].n`), so the index block
   is searched as the leaf (seek_after_end, a 16-state trace). `FlintCursor`,
   not among the sources, may call `find_entry` on a cursor after
   `next()` returned false; the same happens after `set_overwritten`
   stopped the scan, and after `prev_for_sequential` scanned down to
   block 0 through index blocks.

## Fairness

The writer is driven by its caller, so nothing in the code obliges it to
commit or to make progress, and nothing is assumed of it. A reader's
`find()` is a loop over the levels of a tree of bounded height, one
`pread` per level, with no wait or retry: once begun it ends by its
shape, so no liveness property is stated for it and no fairness is
assumed of it either. A reader is not required to begin a lookup. Every passing
run checks for deadlock and finds none. `set_full_compaction` and `close(true)` have no
guard, and in the runs without them `Add` or `Commit` stays enabled.

## Not modelled

* zlib compression and decompression of tags (`lazy_alloc_deflate_zstream`,
  `lazy_alloc_inflate_zstream` and their use in `add` and `read_tag`):
  byte-level library code.
* Index blocks in bytes: the null first key `enter_key` forms (631-641)
  and the interaction of leaf splits with the tree. `FlintTable`
  models the tree with items of one size; `FlintBlock` one leaf.
* The truncation in `enter_key` over byte strings: `FlintTable` keys
  are integers, and `FlintChunks` models key bytes only for the order of
  items.
* `FlintCursor` itself (not among the sources), including its
  handling of the null key and of `find()` before a leaf's first item;
  the writer's own cursor in `next_for_sequential` and
  `prev_for_sequential` (the `writable` branches).
* `write_changed_blocks`.
* The EINTR and short-write loops of `read_block`/`write_block`.
* `exists()`, a query of the files that changes nothing.
* A crash in the middle of writing base A by `create_and_open` is
  modelled as base A being invalid (its trailing checksum, spec.md
  section 6); `FlintTable_base::write_to_file` itself is not among the
  sources.
* 32-bit revision wrap-around: it takes 2^32 commits, and revisions are
  bounded by `MaxRev`.
