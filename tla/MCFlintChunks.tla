---------------------------- MODULE MCFlintChunks ----------------------------
(* Instantiates FlintChunks for TLC: a 256-byte block, max_item_size 59,  *)
(* a 1-byte key, so L = 51 and full_compaction's n >= key length + 34 can *)
(* hold, and a 3-byte key that starts with it and whose next bytes are a  *)
(* count's (L = 49).                                                       *)
EXTENDS FlintChunks, TLC

\* Tags of 0 bytes, of exactly one chunk, and of two or three.
MCKeys == {1, 2}
MCKeyBytes == (1 :> <<1>>) @@ (2 :> <<1, 0, 2>>)

\* Tags of 0 bytes, of exactly one chunk, and of two or three (for key 1;
\* two, two and three for key 2).
MCTags == {[v |-> "a", len |-> 0], [v |-> "b", len |-> L(1)],
           [v |-> "c", len |-> L(1) + 2], [v |-> "d", len |-> 2 * L(1) + 1]}

\* TOTAL_FREE % (max_item_size + D2) <= D2 + cd leaves first_L = L; 11
\* gives n = 1, 45 gives n = 35 (taken only with full_compaction).
MCTotalFrees == {0, 11, 45}

\* TOTAL_FREE values at the edges of first_L's cases: the residue at and
\* just above D2 + cd, n at the residues of the tags (0, 1, 2) and one
\* over, n at full_compaction's KeyLen + 34 and one below, the largest
\* residue, and a whole multiple of max_item_size + D2.
PlanTotalFrees(k) ==
    {D2 + CD(k), D2 + CD(k) + 1, D2 + CD(k) + 2, D2 + CD(k) + 3,
     D2 + CD(k) + KeyLen(k) + 33, D2 + CD(k) + KeyLen(k) + 34,
     MaxItemSize + D2 - 1, MaxItemSize + D2}

\* For every tag a key holds, add()'s chunk plan at each of those leaf
\* free spaces, the key present or not and full_compaction on or off,
\* splits the tag into items that fit.
\* (the plans of every key and tag, computed once: they depend on no
\* variable)
PlanFitsFor ==
    [k \in Keys, t \in Tags |->
        \A tf \in PlanTotalFrees(k), found \in BOOLEAN, fc \in BOOLEAN :
            ChunkPlanFits(k, t.len, found, tf, fc)]

PlanFits ==
    \A k \in Keys : kv[k] # NoTag => PlanFitsFor[k, kv[k]]
=============================================================================
