CONSTANTS
  Radix = 4
  Header = 2
  BufferSize = 32
  DefaultLimit = 2
  MaxLimit = 3
  Bodies <- SomeBodies
  Limits = {0, 1, 3, 4}
  MaxPosts = 2
SPECIFICATION Spec
INVARIANTS ExtractedAsSent PeekShowsPosted
