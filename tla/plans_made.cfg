SPECIFICATION AgendaSpec
CONSTANTS
    Sessions = {s1}
    Requests = {r1}
    Area <- ManyArea
    Minor = {8}
    Coding = {1, 7}
    Jobs <- ManyJobs
    Matches <- ManyMatches
    Packages <- ManyPackages
    Policies <- ManyPolicies
    Gate <- Strict
    Questions = {}
    Broader <- NoLadder
    RolesOf <- NoLadder
    Salt <- NoSalt
    MinPerSkill = 1
    Reviewed = {}
CHECK_DEADLOCK FALSE
INVARIANTS PlanFits RightCompetencies
