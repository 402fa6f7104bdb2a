------------------------- MODULE MCPartitionedList -------------------------
(***************************************************************************)
(* Instances of PartitionedList for TLC.                                   *)
(***************************************************************************)
EXTENDS PartitionedList

\* The system cluster has keys 1, 3 and 5, one cluster 2 and 4, one key 6.
ThreeHomes ==
  [k \in 1 .. MaxKey |-> IF k = 6 THEN 2 ELSE IF k % 2 = 1 THEN 0 ELSE 1]

\* Everything, or all but key 3
TwoSelections == {1 .. MaxKey, (1 .. MaxKey) \ {3}}

=============================================================================
