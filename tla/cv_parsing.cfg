SPECIFICATION LiveSpec
CONSTANTS
    Workers = {w1, w2}
    Requests = {a1, a2}
    MaxRetries = 2
    MaxTasks = 2
    Faults <- AllFaults
CHECK_DEADLOCK FALSE
INVARIANTS OneParser PendingIsInFlight
PROPERTIES DoneStands WaitEnds
