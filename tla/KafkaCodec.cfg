CONSTANT Requests <- MCRequests
SPECIFICATION Spec
INVARIANTS DecodedAsSent RecordsAsSent AnsweredAsAsked
CHECK_DEADLOCK FALSE
