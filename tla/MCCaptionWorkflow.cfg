\* The workflow of one project: every operation up to twice, twelve commands.
SPECIFICATION Spec
CONSTANTS
    t1 = t1
    t2 = t2
    f1 = f1
    f2 = f2
    p1 = p1
    p2 = p2
    Content = {"blank", "brief"}
    Rule = {"lenient", "strict"}
    TermID = {t1, t2}
    SourceOf <- MCSourceOf
    Person = {p1, p2}
    Key = {1, 2}
    FindingID = {f1, f2}
    Findings <- MCFindings
    NoManifest = NoManifest
    MaxVersion = 12
SYMMETRY People
CONSTRAINT KeysInOrder
INVARIANTS
    TypeOK
    CommandsAreCounted
    ValidRunIsLastOfHistory
    ReviewedRunIsValid
    ApprovedCanFreeze
    FrozenVerifies
    FindingsHoldRevision
PROPERTIES
    FrozenIsFinal
    PreviewIsFrozen
    StrandedForever
    EvidenceOnlyGrows
    FindingsOnlyClose
    ImplementsContract
\* The project may be frozen, and the bounds stop the others.
CHECK_DEADLOCK FALSE
