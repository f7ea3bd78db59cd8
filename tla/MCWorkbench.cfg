\* Two projects, two handlers that overlap, and other users.
SPECIFICATION Spec
CONSTANTS
    p1 = p1
    p2 = p2
    s1 = s1
    s2 = s2
    Project <- Projects
    Slot <- Slots
    NoProject = NoProject
    NoView = NoView
    MaxVersion = 3
SYMMETRY Symmetry
INVARIANTS
    TypeOK
    SettledShowsSelected
    SettledPanesAgree
PROPERTIES
    AcceptedOnSight
