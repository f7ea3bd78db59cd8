\* A verified log need not be readable at the next start.
SPECIFICATION Spec
CONSTANTS
    c1 = c1
    c2 = c2
    c3 = c3
    Command <- Commands
    Fragment = Fragment
    NoEvent = NoEvent
    NoProjection = NoProjection
    FaultModes <- OnlyCrashes
    MaxEvents = 3
SYMMETRY Symmetry
\* A process that cannot read its log does not start, and once MaxEvents events
\* are formed a refused log leaves nothing to do.
CHECK_DEADLOCK FALSE
INVARIANT VerifiedLogReopens
