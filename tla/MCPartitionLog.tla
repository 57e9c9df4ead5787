--------------------------- MODULE MCPartitionLog ---------------------------
(***************************************************************************)
(* Small instances of PartitionLog for TLC.  A batch has a header of one   *)
(* unit; an empty batch is what is left of one in an old message format.   *)
(***************************************************************************)
EXTENDS PartitionLog, TLC

SmallBatches == {<<>>, <<1>>, <<1, 1>>}
TwoRecordBatches == {<<1, 1>>}

Threads == Permutations(Writer)
=============================================================================
