SPECIFICATION Spec
CONSTANTS
    Last = 3
    Answers = {a1, a2}
    Endings = {"solved", "gaveUp", "dropped"}
    OverlapCases = {{}, {"answers"}, {"sessions"}, {"reasons"}}
SYMMETRY Alike
INVARIANTS
    TotalsAddUp
    StreakIsReal
PROPERTIES
    LevelsAreEarned
CHECK_DEADLOCK FALSE
