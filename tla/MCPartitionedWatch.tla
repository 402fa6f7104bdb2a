----------------------- MODULE MCPartitionedWatch -----------------------
(* Instances of PartitionedWatch for TLC.                                *)
EXTENDS PartitionedWatch

\* an open end, and a range that leaves the system tenant outside
SomeIntervals == {<<2, 0>>, <<1, 2>>}

WholeResource == <<0, 0>>

=============================================================================
