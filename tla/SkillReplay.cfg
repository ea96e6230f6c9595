SPECIFICATION ReplaySpec
CONSTANTS
    values = values
    strings = strings
    first = first
    second = second
    Skills = {values, strings}
    Prerequisites <- MCPrerequisites
    Depth <- MCDepth
    Problems = {first, second}
    Requires <- MCRequires
    Sessions = {s1}
    NoSession = NoSession
    Unshown = Unshown
    ReplayLimit = 3
    ReviewTime = 1
    Sitting = 1
    MaxTime = 2
    MaxLog = 4
INVARIANTS
    DemonstratedTwice
    StateFollowsCounts
PROPERTIES
    SatisfiedStays
CHECK_DEADLOCK FALSE
