CONSTANTS
  a = a
  b = b
  Worker = {w1, w2}
  Http = http
  Topic = {a, b}
  Partition = {0, 1}
  NumShards = 2
  ShardOf <- Spread
  Nobody = Nobody
  NoTopic = NoTopic
  Leftover <- EarlierRun
  MaxLogs = 3
SYMMETRY Threads
SPECIFICATION Spec
INVARIANTS OneLogPerPartition KeptUntilDeleted NoGhostTopic NoOrphanFiles ListingComplete
