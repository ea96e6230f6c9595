SPECIFICATION ShellSpec
CONSTANTS
    Sessions = {s1}
    NoSession = NoSession
    Takers = {k1}
    MaxPolls = 2
    MaxMoves = 1
    MaxDeaths = 1
    FaultCases = {{}, {"rival", "clock", "close", "disk", "key"}}
INVARIANTS
    HeldIsOnDisk
PROPERTIES
    ImplementsScreenContract
    EndedScreensOpen
    LockedIsCovered
CHECK_DEADLOCK FALSE
