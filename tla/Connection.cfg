CONSTANTS
  Capacity = 4
  Header = 2
  MaxFrameSize = 3
  Kinds <- FrameKinds
  SocketRoom = 3
  MaxRequests = 3
  MaxOutstanding = 2
SPECIFICATION Spec
INVARIANTS FramesIntact RepliesWhole
PROPERTY EveryRequestAnswered
CHECK_DEADLOCK FALSE
