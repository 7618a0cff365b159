----------------------------- MODULE FlintChunks -----------------------------
(***************************************************************************)
(* Tag chunking in flint_table.cc: add() splits a tag into m items with   *)
(* the same key and component numbers 1..m, each carrying m; del()        *)
(* deletes components 1..n; read_tag() joins the leading item and the n-1 *)
(* items that next() finds after it.                                       *)
(*                                                                         *)
(* The B-tree is abstracted to its leaf items, a function from            *)
(* <<key, component>> to the item: components_of m, and the chunk of the   *)
(* tag it holds (offset and length).  A tag is a byte string whose bytes   *)
(* are named <<tag, position>>.  Block splits, revisions and I/O are      *)
(* FlintTable's and FlintBlock's; here a call may fail between two of its  *)
(* add_kt/delete_kt steps, as alter() and find() may throw.               *)
(***************************************************************************)
EXTENDS Integers, Sequences, SequencesExt, FiniteSets

CONSTANTS
    MaxItemSize,   \* max_item_size
    KeyBytes,      \* key -> the bytes of the key (a sequence of 0..255)
    SizeBits,      \* width of size_t
    Keys,          \* keys, ordered as their bytes are by Key_::operator<
    Tags,          \* tags: records [v, len], len the tag's length in bytes
    TotalFrees,    \* values TOTAL_FREE of the leaf found for a new key may have
    Faults,        \* TRUE: an add_kt or delete_kt may throw
    Misuse,        \* {"ignore_failure"}: the caller goes on after a failed call
    NoTag, NotFound, Corrupt

\* Keys are 1 to 252 bytes (add() and find() reject others), distinct.
ASSUME /\ \A k \in Keys : KeyBytes[k] \in Seq(0..255) /\ Len(KeyBytes[k]) \in 1..252
       /\ \A k1, k2 \in Keys : KeyBytes[k1] = KeyBytes[k2] => k1 = k2

\* Item header sizes and the directory slot (flint_table.h).
I2 == 2
K1 == 1
C2 == 2
D2 == 2
BYTE_PAIR_RANGE == 2^16

\* Arithmetic on size_t.
SizeT(x) == x % (2^SizeBits)

(***************************************************************************)
(* add()'s chunk plan for a tag of len bytes under key k: the offset to   *)
(* the tag data cd, the chunk size L, first_L, the number of items m and  *)
(* the length of chunk i (lines 1054-1096).  found: the key is already    *)
(* present; total_free: TOTAL_FREE of the leaf find() reached; fc:        *)
(* full_compaction.                                                       *)
(***************************************************************************)
KeyLen(k) == Len(KeyBytes[k])
CD(k) == KeyLen(k) + K1 + I2 + C2 + C2
L(k) == MaxItemSize - CD(k)

\* Mutant: first_L from the residue without the item overhead cd.
FirstLNoCD(k, len, found, total_free, fc) ==
    LET n0 == SizeT(total_free % (MaxItemSize + D2))
        n  == SizeT(n0 - D2)
    IN  IF ~found /\ n0 > D2 + CD(k)
           /\ (n >= SizeT(len % L(k)) \/ (fc /\ n >= KeyLen(k) + 34))
        THEN n ELSE L(k)

FirstL(k, len, found, total_free, fc) ==
    LET n0 == SizeT(total_free % (MaxItemSize + D2))
        n  == SizeT(n0 - (D2 + CD(k)))
    IN  IF ~found /\ n0 > D2 + CD(k)
           /\ (n >= SizeT(len % L(k)) \/ (fc /\ n >= KeyLen(k) + 34))
        THEN n ELSE L(k)

NumChunks(k, len, firstL) ==
    IF len = 0 THEN 1 ELSE SizeT(len - firstL + L(k) - 1) \div L(k) + 1

\* Bytes of the tag put in items 1..i-1.
Before(k, i, firstL) == IF i = 1 THEN 0 ELSE firstL + (i - 2) * L(k)

\* Mutant: the tests for the first and the last chunk swapped.
ChunkLenSwapped(k, i, m, len, firstL) ==
    IF i = 1 THEN firstL
    ELSE IF i = m THEN SizeT(len - Before(k, i, firstL)) ELSE L(k)

\* l of chunk i: the residue for the last, first_L for the first, else L.
ChunkLen(k, i, m, len, firstL) ==
    IF i = m THEN SizeT(len - Before(k, i, firstL))
    ELSE IF i = 1 THEN firstL ELSE L(k)

Plan(k, len, found, total_free, fc) ==
    LET fl == FirstL(k, len, found, total_free, fc)
        m  == NumChunks(k, len, fl)
    IN  [m |-> m,
         chunks |-> [i \in 1..m |-> [off |-> Before(k, i, fl), l |-> ChunkLen(k, i, m, len, fl)]]]

(***************************************************************************)
(* Key_::operator< (lines 2243-2264) on the key of an item: K1 length     *)
(* byte, the key's bytes, then the component number in two big-endian    *)
(* bytes (C2).  memcmp compares bytes as unsigned char.                   *)
(***************************************************************************)
KeyOf(x) == KeyBytes[x[1]] \o << x[2] \div 256, x[2] % 256 >>

\* memcmp(a, b, n) < 0, = 0 or > 0 as -1, 0, 1.
RECURSIVE Memcmp(_, _, _)
Memcmp(a, b, n) ==
    IF n = 0 THEN 0
    ELSE IF Head(a) # Head(b) THEN (IF Head(a) < Head(b) THEN -1 ELSE 1)
    ELSE Memcmp(Tail(a), Tail(b), n - 1)

\* Mutant: one memcmp over key and count, whatever the key lengths.
KeyLessOneMemcmp(x, y) ==
    LET a == KeyOf(x)
        b == KeyOf(y)
        d == Memcmp(a, b, Min({Len(a), Len(b)}))
    IN  d < 0 \/ (d = 0 /\ Len(a) < Len(b))

KeyLess(x, y) ==
    LET l1 == KeyLen(x[1])
        l2 == KeyLen(y[1])
    IN  IF l1 = l2 THEN Memcmp(KeyOf(x), KeyOf(y), l1 + C2) < 0
        ELSE LET diff == Memcmp(KeyOf(x), KeyOf(y), Min({l1, l2}))
             IN  IF diff # 0 THEN diff < 0 ELSE l1 < l2

VARIABLES
    items,       \* <<key, component>> -> [m, t, off, l]
    item_count,  \* FlintTable::item_count
    kv,          \* the tag each key was last given, or NoTag (history)
    committed,   \* items, item_count and kv of the last commit
    failed       \* a call threw and the caller has not cancelled yet

vars == <<items, item_count, kv, committed, failed>>

\* The items of DOMAIN f in the B-tree's order, which next() follows.
Sorted(f) == SetToSortSeq(DOMAIN f, KeyLess)

\* The bytes of a tag, and of the chunk an item holds.
Content(t) == [q \in 1..t.len |-> <<t, q>>]
ChunkBytes(it) == [q \in 1..it.l |-> <<it.t, it.off + q>>]

\* The items f with items g in place of theirs and those in D removed.
Update(f, g, D) ==
    [x \in (DOMAIN f \cup DOMAIN g) \ D |-> IF x \in DOMAIN g THEN g[x] ELSE f[x]]

(***************************************************************************)
(* A call is a list of add_kt/delete_kt steps.  RunSteps applies the       *)
(* first s of them: an exception in step s+1 leaves the first s done.     *)
(***************************************************************************)
\* Mutant: the surplus loop stops one short of n.
AddStepsShort(k, t, P) ==
    LET n == IF <<k, P.m>> \in DOMAIN items THEN items[<<k, P.m>>].m ELSE 0
        puts == [i \in 1..P.m |-> [m |-> P.m, t |-> t] @@ P.chunks[i]]
    IN  [i \in 1..P.m |-> [put |-> i, item |-> puts[i]]]
        \o [i \in 1..Max({0, n - P.m - 1}) |-> [drop |-> P.m + i]]

\* add(): add_kt for components 1..m, then delete_kt for m+1..n, n being
\* what the last add_kt returned (components_of of the item it replaced).
AddSteps(k, t, P) ==
    LET n == IF <<k, P.m>> \in DOMAIN items THEN items[<<k, P.m>>].m ELSE 0
        puts == [i \in 1..P.m |-> [m |-> P.m, t |-> t] @@ P.chunks[i]]
    IN  [i \in 1..P.m |-> [put |-> i, item |-> puts[i]]]
        \o [i \in 1..Max({0, n - P.m}) |-> [drop |-> P.m + i]]

\* del(): delete_kt for component 1, returning n, then for 2..n.
DelSteps(k) ==
    [i \in 1..items[<<k, 1>>].m |-> [drop |-> i]]

RunSteps(k, steps, s) ==
    LET done == SubSeq(steps, 1, s)
        P == {i \in 1..s : "put" \in DOMAIN done[i]}
        D == {<<k, done[i].drop>> : i \in {i \in 1..s : "drop" \in DOMAIN done[i]}}
    IN  Update(items, [x \in {<<k, done[i].put>> : i \in P} |->
                          done[CHOOSE i \in P : done[i].put = x[2]].item], D)

\* The number of steps a call completes: all, or fewer when one throws.
Completed(steps) == IF Faults THEN 0..Len(steps) ELSE {Len(steps)}

\* Callers make no call between a failed call and cancel().
CallAllowed == ~failed

EndCall(steps, s) ==
    failed' = (s < Len(steps) /\ "ignore_failure" \notin Misuse)

(***************************************************************************)
(* Actions.                                                                *)
(***************************************************************************)
Init ==
    /\ items = << >>
    /\ item_count = 0
    /\ kv = [k \in Keys |-> NoTag]
    /\ committed = [items |-> << >>, item_count |-> 0, kv |-> [k \in Keys |-> NoTag]]
    /\ failed = FALSE

\* add(key, tag): the chunk plan, add_kt per chunk, the surplus deleted,
\* ++item_count unless some add_kt replaced an item.
Add(k, t, total_free, fc) ==
    LET P == Plan(k, t.len, <<k, 1>> \in DOMAIN items, total_free, fc)
        steps == AddSteps(k, t, P)
        replacement == \E i \in 1..P.m : <<k, i>> \in DOMAIN items
    IN  /\ CallAllowed
        /\ P.m < BYTE_PAIR_RANGE
        /\ \E s \in Completed(steps) :
              /\ items' = RunSteps(k, steps, s)
              /\ EndCall(steps, s)
              /\ IF s = Len(steps)
                 THEN /\ item_count' = IF replacement THEN item_count ELSE item_count + 1
                      /\ kv' = [kv EXCEPT ![k] = t]
                 ELSE UNCHANGED <<item_count, kv>>
        /\ UNCHANGED committed

\* Mutant: del() without the n <= 0 return.
DelUnchecked(k) ==
    /\ CallAllowed
    /\ LET steps == IF <<k, 1>> \in DOMAIN items THEN DelSteps(k) ELSE << >>
       IN  \E s \in Completed(steps) :
             /\ items' = RunSteps(k, steps, s)
             /\ EndCall(steps, s)
             /\ IF s = Len(steps)
                THEN /\ item_count' = item_count - 1
                     /\ kv' = [kv EXCEPT ![k] = NoTag]
                ELSE UNCHANGED <<item_count, kv>>
    /\ UNCHANGED committed

\* del(key): nothing when delete_kt finds no leading item.
Del(k) ==
    /\ CallAllowed
    /\ <<k, 1>> \in DOMAIN items
    /\ \E s \in Completed(DelSteps(k)) :
          /\ items' = RunSteps(k, DelSteps(k), s)
          /\ EndCall(DelSteps(k), s)
          /\ IF s = Len(DelSteps(k))
             THEN /\ item_count' = item_count - 1
                  /\ kv' = [kv EXCEPT ![k] = NoTag]
             ELSE UNCHANGED <<item_count, kv>>
    /\ UNCHANGED committed

\* commit(): the writer's items become the committed revision.
Commit ==
    /\ CallAllowed
    /\ committed' = [items |-> items, item_count |-> item_count, kv |-> kv]
    /\ UNCHANGED <<items, item_count, kv, failed>>

\* cancel(): back to the committed revision.
Cancel ==
    /\ items' = committed.items
    /\ item_count' = committed.item_count
    /\ kv' = committed.kv
    /\ failed' = FALSE
    /\ UNCHANGED committed

Next ==
    \/ \E k \in Keys, t \in Tags, tf \in TotalFrees, fc \in BOOLEAN : Add(k, t, tf, fc)
    \/ \E k \in Keys : Del(k)
    \/ Commit
    \/ Cancel

Spec == Init /\ [][Next]_vars

(***************************************************************************)
(* read_tag(C, tag, _) after find() put the cursor on <<k, 1>>: the       *)
(* leading item's chunk, then n-1 times next() and its chunk; next()      *)
(* failing at the end of the table is DatabaseCorruptError.               *)
(***************************************************************************)
ReadTag(k) ==
    IF <<k, 1>> \notin DOMAIN items THEN NotFound
    ELSE LET S == Sorted(items)
             j == SelectInSeq(S, LAMBDA x : x = <<k, 1>>)
             n == items[<<k, 1>>].m
         IN  IF j + n - 1 > Len(S) THEN Corrupt
             ELSE FlattenSeq([i \in 1..n |-> ChunkBytes(items[S[j + i - 1]])])

(***************************************************************************)
(* Properties.                                                             *)
(***************************************************************************)
Item == [m : 1..BYTE_PAIR_RANGE, t : Tags, off : Nat, l : Nat]

TypeOK ==
    /\ DOMAIN items \subseteq Keys \X (1..BYTE_PAIR_RANGE)
    /\ \A x \in DOMAIN items : items[x] \in Item
    /\ item_count \in Nat
    /\ kv \in [Keys -> Tags \cup {NoTag}]
    /\ failed \in BOOLEAN

\* Every chunk of a tag fits in an item (cd + l <= max_item_size), no chunk
\* of a non-empty tag is empty, and the chunks, in component order, are
\* the tag from its first byte to its last (add, lines 1054-1111).
ChunkPlanFits(k, len, found, total_free, fc) ==
    LET P == Plan(k, len, found, total_free, fc)
    IN  /\ 1 <= P.m /\ P.m < BYTE_PAIR_RANGE
        /\ \A i \in 1..P.m : CD(k) + P.chunks[i].l <= MaxItemSize
        /\ len > 0 => \A i \in 1..P.m : P.chunks[i].l > 0
        /\ P.chunks[1].off = 0
        /\ \A i \in 1..P.m - 1 : P.chunks[i + 1].off = P.chunks[i].off + P.chunks[i].l
        /\ P.chunks[P.m].off + P.chunks[P.m].l = len

\* add()'s comment at line 1066: when n >= last, "fully filling this block
\* won't produce an extra item" -- without full_compaction, shrinking the
\* first chunk to the block's free space never makes more items than
\* chunks of L would.
FirstChunkNoExtraItem(k, len, found, total_free, fc) ==
    ~fc => Plan(k, len, found, total_free, fc).m <= NumChunks(k, len, L(k))

\* When no call is outstanding after a failure: every key with a leading
\* item has exactly components 1..m, each carrying m, and no component of
\* a key without a leading item is left (spec: "the m stored items with
\* key body k have counters {1..m} and identical total m").  add() relies
\* on the n the last add_kt returns to delete the surplus of a longer tag.
ComponentsConsistent ==
    ~failed =>
      \A x \in DOMAIN items :
        /\ <<x[1], 1>> \in DOMAIN items
        /\ items[x].m = items[<<x[1], 1>>].m
        /\ x[2] <= items[x].m
        /\ \A i \in 1..items[x].m : <<x[1], i>> \in DOMAIN items

\* When no call is outstanding after a failure, get_exact_entry (find then
\* read_tag) returns for every key the bytes of the tag the last add gave
\* it, or not found after del, and item_count counts those keys: replaced
\* chunks, deleted surplus components and next() over neighbouring keys
\* all have to agree.
GetReturnsLastAdd ==
    ~failed =>
      /\ \A k \in Keys :
            ReadTag(k) = IF kv[k] = NoTag THEN NotFound ELSE Content(kv[k])
      /\ item_count = Cardinality({k \in Keys : kv[k] # NoTag})

\* The reference order of items: keys as byte strings, a proper prefix
\* first, then the component number.
RECURSIVE BytesBefore(_, _)
BytesBefore(a, b) ==
    IF a = << >> \/ b = << >> THEN a = << >> /\ b # << >>
    ELSE IF Head(a) # Head(b) THEN Head(a) < Head(b)
    ELSE BytesBefore(Tail(a), Tail(b))

\* Key_::operator< orders the items the table holds as the reference
\* order does: its memcmp over key and count when the key lengths are
\* equal, and over the common part then the lengths when they differ,
\* keep a key's components together, in component order, whatever bytes
\* (a zero byte, a count byte) the keys contain.
KeyOrderAgrees ==
    \A x, y \in DOMAIN items :
        KeyLess(x, y) = \/ BytesBefore(KeyBytes[x[1]], KeyBytes[y[1]])
                        \/ x[1] = y[1] /\ x[2] < y[2]

\* read_tag returns a whole tag or raises DatabaseCorruptError (spec: the
\* error for a "missing continuation chunk"), never a mixture of chunks.
ReadTagWhole ==
    \A k \in Keys :
      ReadTag(k) \in {NotFound, Corrupt} \cup {Content(t) : t \in Tags}
=============================================================================
