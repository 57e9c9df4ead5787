CONSTANTS MaxSignals = 2  MaxClients = 2
SPECIFICATION Spec
INVARIANTS TypeOK ThreadsEndFirst
PROPERTY StopEnds
CHECK_DEADLOCK FALSE
