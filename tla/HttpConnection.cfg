CONSTANTS
  Capacity = 4
  MaxBodySize = 4
  SocketRoom = 2
  Kinds <- SomeKinds
  MaxRequests = 2
  MaxRouted = 2
SPECIFICATION Spec
INVARIANTS RoutedWhole RoutedOnce ResponseWhole
PROPERTY EveryRequestAnswered
CHECK_DEADLOCK FALSE
