\* Crashes of the machine at every point; with and without kills of the process
\* and failing file operations.
SPECIFICATION Spec
CONSTANTS
    c1 = c1
    c2 = c2
    c3 = c3
    Command <- Commands
    Fragment = Fragment
    NoEvent = NoEvent
    NoProjection = NoProjection
    FaultModes <- AllFaults
    MaxEvents = 5
SYMMETRY Symmetry
\* A process that cannot read its log does not start, and once MaxEvents events
\* are formed a refused log leaves nothing to do.
CHECK_DEADLOCK FALSE
INVARIANTS
    TypeOK
    AcknowledgedSurvive
    
    CrashesAreInnocent
PROPERTIES
    AnchorsStay
    ImplementsLedger
