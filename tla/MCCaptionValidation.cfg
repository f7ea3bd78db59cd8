\* Three cues anywhere in time, two with up to two terms, pairs of revisions.
SPECIFICATION Spec
CONSTANTS
    Text <- MCText
    Blank <- MCBlank
    Lower <- MCLower
    EqualFold <- MCEqualFold
    Within <- MCWithin
    MinInt <- MCMin
    MaxInt = 3
    NoCue = NoCue
    CueList <- MCLists
    Limits <- TwoRanges
    RangeInput <- MCRanges
    TermInput <- MCTerms
    MaxRevisions = 2
    MaxTerms = 2
INVARIANTS
    TypeOK
    PassedIsPlayable
    FindingsAreAddressable
    TermsCanBeHonoured
    DiffRebuilds
    DiffExplainsComparison
\* The bounds stop it.
CHECK_DEADLOCK FALSE
