SPECIFICATION Spec
CONSTANTS
    Agenda <- ShortAgenda
    Demo = FALSE
    Mode = "text"
    Zones <- RaceZones
    Msgs = {m1, m2, m3}
    Requests = {r1, r2}
    NoMsg = NoMsg
SYMMETRY Symmetry
CONSTRAINT InTheRoom
CHECK_DEADLOCK FALSE
INVARIANTS TranscriptInOrder CompletedMeansAsked ProbeBudget
PROPERTY EndIsFinal
