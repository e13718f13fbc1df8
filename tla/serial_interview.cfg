SPECIFICATION Spec
CONSTANTS
    Agenda <- TwoTechnical
    Demo = FALSE
    Mode = "text"
    Zones <- PacingZones
    Msgs = {m1, m2, m3, m4}
    Requests = {r1}
    NoMsg = NoMsg
SYMMETRY MsgSymmetry
CONSTRAINT InTheRoom
CHECK_DEADLOCK FALSE
INVARIANTS TypeOK AnswersMatchTranscript AlwaysAnswerable
PROPERTY ImplementsConversation
