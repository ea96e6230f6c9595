SPECIFICATION GateSpec
CONSTANTS
    g1 = g1
    g2 = g2
    g3 = g3
    js = js
    cpp = cpp
    Graders = {g1, g2, g3}
    Languages = {js}
    Reference <- MCReference
    Runtimes = {8, 12, 20}
    Elapsed = {9}
    TolerancePercent = 150
    FloorMs = 1
    InitialAverage = 6
SYMMETRY Same
INVARIANTS
    RecordsAreTrue
    StatisticsHold
CHECK_DEADLOCK FALSE
