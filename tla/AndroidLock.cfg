SPECIFICATION AppSpec
CONSTANTS
    Sessions = {s1}
    NoSession = NoSession
    Pollers = {p1, p2}
    Life = 1
    MaxTime = 1
    MaxDeaths = 1
    MaxIntents = 1
    FaultCases = {{"battery"}, {"permission", "clock"}}
PROPERTIES
    KeptOnDisk
    ImplementsScreenContract
    StoredIsRaised
    ScreenFollows
CHECK_DEADLOCK FALSE
