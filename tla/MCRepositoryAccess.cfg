\* Edits of one project, a freeze of another, and the readers beside them.
SPECIFICATION FairSpec
CONSTANTS
    r1 = r1
    r2 = r2
    r3 = r3
    Request = {r1, r2, r3}
    Serves <- Mixed
    None = None
    MaxEvents = 4
INVARIANTS
    TypeOK
    UpdatesAreSerial
    VerifyNeverAccuses
PROPERTIES
    EveryRequestReturns
