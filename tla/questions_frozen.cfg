SPECIFICATION Spec
CONSTANTS
    Sessions = {s1, s2}
    Requests = {r1, r2}
    Area <- SharedArea
    Minor = {}
    Coding = {}
    Jobs <- SharedJobs
    Matches <- SharedMatches
    Packages <- SharedPackages
    Policies <- SharedPolicies
    Gate <- Open
    Questions <- SharedQuestions
    Broader <- SharedUp
    RolesOf <- SharedRoles
    Salt <- SharedSalt
    MinPerSkill = 1
    Reviewed <- OneReviewed
SYMMETRY RequestSymmetry
CONSTRAINT FewAsked
INVARIANT FrozenFitsPlan
PROPERTIES LockedStands NoSpareDraft  RotatesQuestions
