SPECIFICATION Spec
CONSTANTS
    Sessions = {s1, s2}
    Clients = {c1, c2}
    Problems = {p1, p2}
    Engagers = {}
    Reapers = {r1}
    NoSession = NoSession
    NoProblem = NoProblem
    DailySkips = 1
    MaxDay = 1
    MaxRevision = 1
    MayFail = FALSE
SYMMETRY Symmetry
INVARIANTS
    RecordsAgree
    AttemptsCountServings
PROPERTIES
    AbandonRefusedOnlyWhenResolved
    ImplementsContract
