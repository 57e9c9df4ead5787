----------------------------- MODULE MCSPSCRing -----------------------------
(***************************************************************************)
(* A small instance of SPSCRing for TLC: counters that wrap after a few    *)
(* laps, batches smaller and larger than the ring.                         *)
(***************************************************************************)
EXTENDS SPSCRing

MCMaxCounts == {0, 2, 2 * Capacity + 1}
=============================================================================
