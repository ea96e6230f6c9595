SPECIFICATION FairSpec
CONSTANTS
    Requests = {q1, q2, q3, q4, q5}
    Users = {u1, u2, u3}
    NoUser = NoUser
    MaxConcurrent = 2
    MaxQueued = 2
    JudgeTimeout = 1
    BestOf = 1
    SlotTtl = 2
INVARIANTS
    OneSlotPerUser
    HostProtected
    NoIdleSlot
PROPERTIES
    QueueIsFair
    WaitersAreAnswered
