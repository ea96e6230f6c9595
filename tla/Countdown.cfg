SPECIFICATION Spec
CONSTANTS
    Clients = {c1, c2}
    Length = 2
    Cuts = {1}
    MaxNow = 4
SYMMETRY Symmetry
INVARIANTS
    CountdownKept
PROPERTIES
    DueStaysDue
CHECK_DEADLOCK FALSE
