SPECIFICATION EngageSpec
CONSTANTS
    Sessions = {s1}
    Clients = {c1, c2}
    Problems = {p1, p2}
    Engagers = {e1}
    Reapers = {r1}
    NoSession = NoSession
    NoProblem = NoProblem
    DailySkips = 1
    MaxDay = 0
    MaxRevision = 2
    MayFail = TRUE
PROPERTIES
    SolvedByWhatItShows
    RunningCountdownsFire
    EverySessionEnds
