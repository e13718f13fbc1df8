SPECIFICATION Spec
CONSTANTS
    Callers = {page, plan}
    Cases <- OneOrTwo
    Policies <- BothPolicies
    Semantics <- FullSemantic
CHECK_DEADLOCK FALSE
INVARIANTS
    
    AnswersNeverExclude
    RescoreIsLocal
PROPERTY
    StoredMatchStands
