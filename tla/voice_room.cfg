SPECIFICATION LiveSpec
CONSTANTS
    Tasks = {k1, k2}
    MaxQuestions = 3
    MaxFragments = 2
    Preview = TRUE
CHECK_DEADLOCK FALSE
INVARIANTS InFlightIsTheCall TailStaysOut
PROPERTIES ReleasedForCause 
