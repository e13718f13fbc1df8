SPECIFICATION Spec
CONSTANTS
    People = {p1, p2}
    Requests = {q1, q2}
    Contents = {c1, c2}
    MaxVersions = 2
    MaxReviews = 2
SYMMETRY Symmetry
CHECK_DEADLOCK FALSE
INVARIANTS LiveIsApproved ApprovedAsReviewed
PROPERTY RejectedStays
