--------------------------- MODULE MCFlintChunkPlan ---------------------------
(* add()'s chunk plan for every tag length, TOTAL_FREE residue, found and *)
(* full_compaction in range, for a 256-byte block (max_item_size 59).     *)
EXTENDS FlintChunks, TLC

(***************************************************************************)
(* The chunk plan over every input in range: a state per input.           *)
(***************************************************************************)
VARIABLE input

MCKeyBytes == 1 :> <<1>>

PlanLens == 0..(3 * L(1) + 2)
PlanTotalFrees == 0..(2 * (MaxItemSize + D2))

PlanInit ==
    /\ Init
    /\ input \in [len : PlanLens, total_free : PlanTotalFrees,
                  found : {FALSE}, fc : {FALSE}]

\* The same tag and leaf, the key present or not, full_compaction on or off.
PlanNext ==
    /\ \/ input' = [input EXCEPT !.found = ~@]
       \/ input' = [input EXCEPT !.fc = ~@]
    /\ UNCHANGED vars

PlanSpec == PlanInit /\ [][PlanNext]_<<vars, input>>

\* The first-chunk heuristic adds no item.
PlanNoExtraItem ==
    FirstChunkNoExtraItem(1, input.len, input.found, input.total_free, input.fc)
=============================================================================
