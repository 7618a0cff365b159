---------------------------- MODULE MCFlintTable ----------------------------
(* FlintTable instantiated for TLC: three keys, two-item blocks, a root  *)
(* that may gain one level, and one reader.                               *)
EXTENDS FlintTable, TLC

CONSTANTS v1, v2, r1

MCKeys == {1, 2, 3}
MCKeys2 == {1, 2}
MCValues == {v1}
MCReaders == {r1}
MCNoReaders == {}
MCSeqStart == -10
\* Reader runs do not expand the states after close(true): nothing but a
\* crash leaves them, and they would double the state space.
NotClosedForGood == handle # "perm"
\* Runs without readers see the blocks no base file and no open cursor reaches as
\* one value: the writer reads only blocks of its tree and writes every
\* block it takes from next_free_block whole before any read, and no
\* reader runs, so what such a block holds is never observed.
LiveBlocks ==
    UNION {TreeBlocks(disk, bases[l].root, bases[l].level) :
             l \in {x \in Letters : bases[x] # NoBase /\ ~bases[x].fakeroot}}
    \cup (IF handle = "open" /\ Usable THEN TreeBlocks(WView(W), C[level].n, level) ELSE {})
WriterOnlyView ==
    LET live == LiveBlocks
    IN <<[n \in Blocks |-> IF n \in live THEN disk[n] ELSE Hole],
         [n \in Blocks |-> IF n \in live THEN durable[n] ELSE Hole],
         bases, handle, werr, C, level, bm0, bm, revision_number,
         latest_revision_number, both_bases, base_letter, item_count,
         faked_root_block, sequential, seq_count, changed_n, changed_c,
         Btree_modified>>
====
