SPECIFICATION LiveSpec
CONSTANTS
    Agenda <- ShortAgenda
    Demo = TRUE
    Mode = "voice"
    Zones <- CoarseZones
    Msgs = {m1, m2, m3}
    Requests = {r1}
    NoMsg = NoMsg
CHECK_DEADLOCK FALSE
INVARIANT DemoFollowsTurns
PROPERTY EventuallyClosed
