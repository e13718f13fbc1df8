SPECIFICATION Spec
CONSTANTS
    Rows = {r1, r2}
    Versions = {v1, v2}
    Contents = {c1, c2}
    Workers = {w1, w2}
    MaxRetries = 1
    MaxTasks = 2
    Faults <- MostFaults
SYMMETRY Symmetry
CHECK_DEADLOCK FALSE
  
PROPERTY JobsAreEditedOnly
