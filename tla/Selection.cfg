SPECIFICATION Spec
CONSTANTS
    values = values
    strings = strings
    short = short
    long = long
    distant = distant
    joined = joined
    other = other
    Skills = {values, strings}
    Prerequisites <- MCPrerequisites
    Depth <- MCDepth
    Problems = {short, joined}
    Requires <- MCRequires
    Gates <- MCGates
    Seconds <- MCSeconds
    Budgets = {0, 1}
    CandidatePool = 1
    MaxEdits = 1
    NoProblem = NoProblem
PROPERTIES
    NeverOutOfDepth
    NearestServed
    ServesAsAsked
CHECK_DEADLOCK FALSE
