CONSTANTS
  Writer = {w1}
  Reader = {r1}
  Batches <- TwoRecordBatches
  MaxBytes = {1}
  BufferSize = 5
  SegmentSize = 100
  IndexInterval = 200
  MaxAppends = 2
  MaxRestarts = 0
  Nobody = Nobody
SPECIFICATION Spec
INVARIANT AckedIsServed
