\* A failed file operation breaks the chain.
SPECIFICATION Spec
CONSTANTS
    c1 = c1
    c2 = c2
    c3 = c3
    Command <- Commands
    Fragment = Fragment
    NoEvent = NoEvent
    NoProjection = NoProjection
    FaultModes <- OnlyFailures
    MaxEvents = 3
SYMMETRY Symmetry
\* A process that cannot read its log does not start, and once MaxEvents events
\* are formed a refused log leaves nothing to do.
CHECK_DEADLOCK FALSE
INVARIANT VerifyPasses
