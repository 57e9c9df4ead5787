CONSTANTS
  N = 2
  Fd = {1, 2, 3, 4, 5}
  NoFd = 0
  NextFd <- Lowest
  Capacity <- Capacities
  Limit = 2
  MaxClients = 5
SPECIFICATION Spec
INVARIANTS OneHolder FreshConnection
PROPERTIES HandedOver StopCompletes
CHECK_DEADLOCK FALSE
