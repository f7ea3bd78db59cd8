\* The seven commands of the self-check, one command of others on its project and
\* one more event of theirs.
SPECIFICATION Spec
CONSTANTS
    MaxEvents = 9
    MaxEdits = 1
INVARIANTS
    TypeOK
    StepsAreDoneOnce
    RefusedOnlyIfDisturbed
    SuccessIsReal
PROPERTIES
    EndsOnceServed
