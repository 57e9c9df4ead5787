--------------------------- MODULE MCWorkerHandoff ---------------------------
(***************************************************************************)
(* Small instances of WorkerHandoff for TLC.                               *)
(***************************************************************************)
EXTENDS WorkerHandoff

\* accept() returns the lowest number that is free.
Lowest(free) == {fd \in free : \A other \in free : fd <= other}

\* The first ring holds more than is taken at a time; one socket fills the others.
Capacities == [w \in Worker |-> IF w = 0 THEN Limit + 1 ELSE 1]
=============================================================================
