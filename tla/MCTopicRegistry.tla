--------------------------- MODULE MCTopicRegistry ---------------------------
(***************************************************************************)
(* A small instance of TopicRegistry for TLC.                              *)
(***************************************************************************)
EXTENDS TopicRegistry, TLC

CONSTANTS a, b

\* Both topics have partitions in both shards.
Spread == (<<a, 0>> :> 1) @@ (<<a, 1>> :> 2) @@ (<<b, 0>> :> 2) @@ (<<b, 1>> :> 1)

\* An earlier run had both partitions of a topic, and one of the other.
EarlierRun == {<<a, 0>>, <<a, 1>>, <<b, 1>>}

Threads == Permutations(Worker)
=============================================================================
