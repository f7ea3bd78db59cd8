\* Export and a writer wait for each other.
SPECIFICATION FairSpec
CONSTANTS
    r1 = r1
    r2 = r2
    r3 = r3
    Request = {r1, r2, r3}
    Serves <- Bundle
    None = None
    MaxEvents = 3
\* The deadlock is what the property is about.
CHECK_DEADLOCK FALSE
PROPERTY EveryRequestReturns
