CONSTANTS
  Writer = {w1, w2}
  Reader = {r1}
  Batches <- SmallBatches
  MaxBytes = {1, 3}
  BufferSize = 5
  SegmentSize = 6
  IndexInterval = 2
  MaxAppends = 4
  MaxRestarts = 1
  Nobody = Nobody
SPECIFICATION Spec
SYMMETRY Threads
INVARIANTS EveryOffsetStoredOnce ReadIsRun
