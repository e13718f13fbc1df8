SPECIFICATION Spec
CONSTANTS
    Agenda <- TwoTechnical
    Demo = FALSE
    Mode = "text"
    Zones <- CoarseZones
    Msgs = {m1, m2}
    Requests = {r1, r2}
    NoMsg = NoMsg
SYMMETRY Symmetry
CONSTRAINT InTheRoom
CHECK_DEADLOCK FALSE
INVARIANT AtMostOneAsked
