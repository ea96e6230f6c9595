SPECIFICATION FairSpec
CONSTANTS
    Day = 3
    Saves = {s1, s2}
    ScreenPatches <- OnScreen
    OtherPatches <- FromElsewhere
    Shifts = {20}
CONSTRAINT ScreenOrTime
INVARIANTS
    HoursAreHonoured
    
PROPERTIES
    RepeatKeepsGoing
CHECK_DEADLOCK FALSE
