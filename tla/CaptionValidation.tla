-------------------------- MODULE CaptionValidation --------------------------
(***************************************************************************)
(* What the validation engine says of a caption revision, and what the     *)
(* service shows of two of them: internal/validation, the glossary terms   *)
(* of internal/domain, DiffCues and CompareValidationRuns.  These are pure *)
(* functions; the state is the input they get: revisions submitted one     *)
(* after the other, each with the glossary of its time, terms that are     *)
(* added before and between them, and display ranges that change.          *)
(*                                                                         *)
(* Abstractions.  A text is a member of Text, known by the texts that      *)
(* occur in it; leading and trailing space never matters to a substring    *)
(* test, so texts are taken as trimmed.  Times are the integers of a       *)
(* machine word, MinInt..MaxInt, and a difference wraps around.  A finding *)
(* is known by where it was raised and by the input of the digest that is  *)
(* its identifier; the engine sorts its list by rule, cue and identifier,  *)
(* so that the set of them per rule is the list.  When the service takes a *)
(* command is module CaptionWorkflow: here they come in any order, and a   *)
(* glossary that is imported is added term by term.                        *)
(***************************************************************************)
EXTENDS Integers, Sequences

CONSTANTS
    Text,           \* source texts, translations and glossary phrases
    Blank,          \* the text of spaces only
    Lower(_),       \* strings.ToLower
    EqualFold(_, _),    \* strings.EqualFold, which is not equality of lower cases
    Within(_, _),   \* Within(a, b): b contains a
    CueList(_, _, _),   \* the cue lists clients submit under a range and a
                        \* glossary, after these revisions
    Limits,         \* the display ranges a project may have
    RangeInput(_),  \* those clients change it to when these revisions exist
    TermInput(_),   \* the terms clients add when these revisions exist
    MinInt, MaxInt, \* the range of int64
    NoCue,          \* the cue that is not there
    MaxRevisions,   \* bound on the revisions
    MaxTerms        \* bound on the glossary

\* Texts are ordered by containment, and lower case respects it.
ASSUME TextAssumption ==
    /\ Blank \in Text
    /\ \A a \in Text : Lower(a) \in Text /\ Within(a, a) /\ EqualFold(a, a)
    /\ \A a, b \in Text : Within(a, b) => Within(Lower(a), Lower(b))
    /\ \A a, b, c \in Text : Within(a, b) /\ Within(b, c) => Within(a, c)
\* NewProject and UpdateRules refuse any other range (project.go).
ASSUME LimitsAssumption ==
    \A r \in Limits : r.max \in 1..MaxInt /\ r.min \in 1..r.max
ASSUME BoundAssumption == MaxRevisions \in Nat /\ MaxTerms \in Nat
ASSUME WordAssumption == MinInt \in Int /\ MaxInt = -MinInt - 1 /\ MaxInt > 0

VARIABLES
    limits,         \* CaptionProject.MinDisplayMillis, MaxDisplayMillis
    terms,          \* the current glossary
    revisions       \* Snapshot.Revisions

vars == <<limits, terms, revisions>>

-----------------------------------------------------------------------------
(* Types *)

Int64 == MinInt..MaxInt

Cue == [sequence : Int64, in : Int64, out : Int64,
        source : Text, translated : Text, speaker : Text]

Term == [source : Text, required : Text, forbidden : SUBSET Text,
         caseSensitive : BOOLEAN]

ASSUME NoCueAssumption == NoCue \notin Cue

\* A revision keeps the version of the glossary it was submitted under.
Revision == [cues : Seq(Cue), glossary : Nat]

\* The required translation of a term is neither blank nor forbidden, and a later
\* revision has no earlier glossary.
TypeOK ==
    /\ limits \in Limits
    /\ terms \in Seq(Term) /\ Len(terms) <= MaxTerms
    /\ revisions \in Seq(Revision) /\ Len(revisions) <= MaxRevisions
    /\ \A q \in DOMAIN revisions :
          /\ revisions[q].glossary <= Len(terms)
          /\ \A p \in 1..q : revisions[p].glossary <= revisions[q].glossary
    /\ \A k \in DOMAIN terms :
          /\ Blank \notin terms[k].forbidden
          /\ terms[k].required \notin terms[k].forbidden \cup {Blank}

-----------------------------------------------------------------------------
(* The glossary *)

Folded(text, term) == IF term.caseSensitive THEN text ELSE Lower(text)

\* Whether two phrases are the same under the term's case policy.
EqualTerm(a, b, term) == IF term.caseSensitive THEN a = b ELSE EqualFold(a, b)

BugBlankKept(input) == input

\* Blank and repeated forbidden phrases are dropped.
Cleaned(input) == [input EXCEPT !.forbidden = @ \ {Blank}]

\* What NewTerm refuses, besides a blank phrase: the required translation
\* listed as forbidden.
NewTermAccepts(input) ==
    /\ input.source # Blank /\ input.required # Blank
    /\ \A f \in Cleaned(input).forbidden : ~EqualTerm(f, input.required, input)

\* Each term is added under the next version of the glossary, together with copies
\* of those before it: version v has the first v terms.
TermsAt(version) == SubSeq(terms, 1, version)

-----------------------------------------------------------------------------
(* The engine *)

TimingRule == {"CUE_SEQUENCE", "TIMECODE_RANGE", "DISPLAY_DURATION",
               "EMPTY_TRANSLATION", "CUE_OVERLAP"}
RuleCode == TimingRule \cup {"EMPTY_REVISION", "TERM_REQUIRED", "TERM_FORBIDDEN"}

\* The difference of two machine words.
Minus(a, b) == ((a - b - MinInt) % (MaxInt - MinInt + 1)) + MinInt

Duration(cue) == Minus(cue.out, cue.in)

BugOrderUnchecked(cue) == cue.in < 0

IsOutOfRange(cue) == cue.in < 0 \/ cue.out <= cue.in
IsUntranslated(cue) == cue.translated = Blank

\* Whether cue i breaks a timing rule.  Only the cue before it is looked at.
Breaks(rule, cues, i, range) ==
    LET cue == cues[i] IN
    CASE rule = "CUE_SEQUENCE"      -> cue.sequence # i
      [] rule = "TIMECODE_RANGE"    -> IsOutOfRange(cue)
      [] rule = "DISPLAY_DURATION"  -> Duration(cue) \notin range.min..range.max
      [] rule = "EMPTY_TRANSLATION" -> IsUntranslated(cue)
      [] rule = "CUE_OVERLAP"       -> i > 1 /\ cue.in < cues[i - 1].out

\* What the identifier of a timing finding is computed from, besides the rule
\* and the sequence number the cue carries.
Evidence(rule, cues, i, range) ==
    LET cue == cues[i] IN
    CASE rule = "CUE_SEQUENCE"      -> <<i, cue.sequence>>
      [] rule = "TIMECODE_RANGE"    -> <<cue.in, cue.out>>
      [] rule = "DISPLAY_DURATION"  -> <<Duration(cue), range.min, range.max>>
      [] rule = "EMPTY_TRANSLATION" -> <<>>
      [] rule = "CUE_OVERLAP"       -> <<cues[i - 1].out, cue.in>>

TimingFindings(rule, cues, range) ==
    {[at |-> i, sequence |-> cues[i].sequence,
      evidence |-> Evidence(rule, cues, i, range)] :
        i \in {j \in DOMAIN cues : Breaks(rule, cues, j, range)}}

BugRequiredNotFolded(cue, term) ==
    /\ Within(Folded(term.source, term), Folded(cue.source, term))
    /\ ~Within(term.required, Folded(cue.translated, term))

MissesRequired(cue, term) ==
    /\ Within(Folded(term.source, term), Folded(cue.source, term))
    /\ ~Within(Folded(term.required, term), Folded(cue.translated, term))

RequiredFindings(cues, glossary) ==
    {[at |-> p, sequence |-> cues[p[1]].sequence,
      evidence |-> <<glossary[p[2]].source, glossary[p[2]].required>>] :
        p \in {q \in (DOMAIN cues) \X (DOMAIN glossary) :
                  MissesRequired(cues[q[1]], glossary[q[2]])}}

\* A forbidden phrase counts whether or not the cue has the term's source text.
UsesForbidden(cue, term) ==
    {f \in term.forbidden : Within(Folded(f, term), Folded(cue.translated, term))}

BugForbiddenByTerm(cues, glossary) ==
    UNION {{[at |-> <<i, k, f>>, sequence |-> cues[i].sequence,
             evidence |-> <<glossary[k].source, glossary[k].required>>] :
                f \in UsesForbidden(cues[i], glossary[k])} :
           i \in DOMAIN cues, k \in DOMAIN glossary}

ForbiddenFindings(cues, glossary) ==
    UNION {{[at |-> <<i, k, f>>, sequence |-> cues[i].sequence,
             evidence |-> <<glossary[k].source, f>>] :
                f \in UsesForbidden(cues[i], glossary[k])} :
           i \in DOMAIN cues, k \in DOMAIN glossary}

Validate(cues, range, glossary) ==
    [rule \in RuleCode |->
        CASE rule \in TimingRule -> TimingFindings(rule, cues, range)
          [] rule = "EMPTY_REVISION" ->
                IF cues = <<>> THEN {[at |-> 0, sequence |-> 0, evidence |-> <<>>]}
                ELSE {}
          [] rule = "TERM_REQUIRED"  -> RequiredFindings(cues, glossary)
          [] rule = "TERM_FORBIDDEN" -> ForbiddenFindings(cues, glossary)]

IsClean(run) == \A rule \in RuleCode : run[rule] = {}

\* The identifiers of the findings of one rule: neither the revision nor the
\* place in it is part of them.
IDs(findings) == {[sequence |-> f.sequence, evidence |-> f.evidence] : f \in findings}

-----------------------------------------------------------------------------
(* Differences between two runs and between two cue lists *)

\* CompareValidationRuns, by identifier.
Compare(before, after) ==
    [added       |-> [rule \in RuleCode |-> IDs(after[rule]) \ IDs(before[rule])],
     disappeared |-> [rule \in RuleCode |-> IDs(before[rule]) \ IDs(after[rule])]]

\* DiffCues enters a list in a map: of several cues with one sequence number
\* the last stays.
CueMap(cues) ==
    [s \in {cues[i].sequence : i \in DOMAIN cues} |->
        cues[CHOOSE i \in DOMAIN cues :
                /\ cues[i].sequence = s
                /\ \A j \in DOMAIN cues : j > i => cues[j].sequence # s]]

BugSpeakerIgnored(before, after) ==
    {f \in (DOMAIN before) \ {"speaker"} : before[f] # after[f]}
BugDurationCompared(before, after) ==
    {f \in (DOMAIN before) \ {"in", "out"} : before[f] # after[f]}
    \cup (IF Duration(before) # Duration(after) THEN {"in", "out"} ELSE {})

DiffCueFields(before, after) == {f \in DOMAIN before : before[f] # after[f]}

Change(left, right, s) ==
    LET before == IF s \in DOMAIN left THEN left[s] ELSE NoCue
        after  == IF s \in DOMAIN right THEN right[s] ELSE NoCue
    IN  [sequence |-> s, before |-> before, after |-> after,
         fields |-> IF NoCue \in {before, after} THEN {}
                    ELSE DiffCueFields(before, after)]

DiffCues(before, after) ==
    LET left == CueMap(before)
        right == CueMap(after)
    IN  {c \in {Change(left, right, s) : s \in (DOMAIN left) \cup (DOMAIN right)} :
            c.fields # {} \/ NoCue \in {c.before, c.after}}

-----------------------------------------------------------------------------
Init ==
    /\ limits \in Limits
    /\ terms = <<>>
    /\ revisions = <<>>

AddTerm(input) ==
    /\ NewTermAccepts(input)
    /\ terms' = Append(terms, Cleaned(input))
    /\ UNCHANGED <<limits, revisions>>

\* The list is stored as it came: SubmitRevision checks neither numbers nor times.
SubmitRevision(cues) ==
    /\ revisions' = Append(revisions, [cues |-> cues, glossary |-> Len(terms)])
    /\ UNCHANGED <<limits, terms>>

UpdateRules(range) ==
    /\ limits' = range
    /\ UNCHANGED <<terms, revisions>>

\* What is not a term, a list of cues or a range is refused by the decoder or the
\* handler.
Next ==
    \/ /\ Len(terms) < MaxTerms
       /\ \E input \in TermInput(revisions) \cap Term : AddTerm(input)
    \/ /\ Len(revisions) < MaxRevisions
       /\ \E cues \in CueList(limits, terms, revisions) \cap Seq(Cue) : SubmitRevision(cues)
    \/ \E range \in RangeInput(revisions) \cap Limits : UpdateRules(range)

Spec == Init /\ [][Next]_vars

\* A run: the revision under its own glossary and the range of the time of the run.
RunOf(revision, range) == Validate(revision.cues, range, TermsAt(revision.glossary))

Current == revisions[Len(revisions)]
CurrentRun == RunOf(Current, limits)

-----------------------------------------------------------------------------
(* Properties *)

Numbered(cues) == \A i \in DOMAIN cues : cues[i].sequence = i

\* The captions of a revision the engine lets pass can be shown: numbered from
\* one, each in its own time, of an allowed duration and with a text, however far
\* apart two cues are in the list and whatever the subtraction of two extreme
\* times wrapped around to; and a list that can be shown is not held up
\* (timing.go validateTiming, which compares neighbours only).
Playable(cues) ==
    /\ cues # <<>>
    /\ \A i \in DOMAIN cues :
          /\ cues[i].sequence = i
          /\ 0 <= cues[i].in
          /\ limits.min <= cues[i].out - cues[i].in
          /\ cues[i].out - cues[i].in <= limits.max
          /\ cues[i].translated # Blank
    /\ \A i, j \in DOMAIN cues : i < j => cues[i].out <= cues[j].in
PassedIsPlayable ==
    revisions # <<>> =>
        (Playable(Current.cues) <=>
            \A rule \in TimingRule \cup {"EMPTY_REVISION"} : CurrentRun[rule] = {})

\* A finding can be addressed by its identifier, as the resolve commands do,
\* when the cues are numbered and no two terms have the same source text: the
\* condition ImportGlossary enforces and AddTerm does not (engine.go Validate,
\* findings_batch.go ResolveFindings).
DistinctSources(glossary) ==
    \A k, l \in DOMAIN glossary :
        k # l => Lower(glossary[k].source) # Lower(glossary[l].source)
FindingsAreAddressable ==
    (/\ revisions # <<>> /\ Numbered(Current.cues)
     /\ DistinctSources(TermsAt(Current.glossary))) =>
        \A rule \in RuleCode : \A f, g \in CurrentRun[rule] :
            IDs({f}) = IDs({g}) => f = g

\* A term NewTerm accepts can be honoured in a cue that has its source text,
\* unless one of its own forbidden phrases is part of the required translation:
\* NewTerm compares whole phrases while the engine searches for substrings, and the
\* two fold case in different ways (glossary.go of both packages).
CanBeHonoured(term) ==
    \E text \in Text \ {Blank} :
        LET cue == [source |-> term.source, translated |-> text]
        IN  ~MissesRequired(cue, term) /\ UsesForbidden(cue, term) = {}
TermsCanBeHonoured ==
    \A k \in DOMAIN terms :
        CanBeHonoured(terms[k]) <=>
            \A f \in terms[k].forbidden :
                ~Within(Folded(f, terms[k]), Folded(terms[k].required, terms[k]))

\* The diff of two numbered revisions is complete, in either direction: applying the
\* named changes to the one gives the other, with nothing but the fields it lists
\* (cue.go DiffCues).
Patched(cues, changes) ==
    LET deleted == {c.sequence : c \in {d \in changes : d.after = NoCue}}
        written == {c.sequence : c \in {d \in changes : d.after # NoCue}}
        ChangeOf(s) == CHOOSE c \in changes : c.sequence = s
    IN  [s \in ((DOMAIN cues) \cup written) \ deleted |->
            IF s \notin written THEN cues[s]
            ELSE IF ChangeOf(s).before = NoCue THEN ChangeOf(s).after
            ELSE [f \in DOMAIN cues[s] |->
                    IF f \in ChangeOf(s).fields THEN ChangeOf(s).after[f]
                                                ELSE cues[s][f]]]
DiffRebuilds ==
    \A p, q \in DOMAIN revisions :
        LET before == revisions[p].cues
            after  == revisions[q].cues
        IN  Numbered(before) /\ Numbered(after) =>
                after = Patched(before, DiffCues(before, after))

\* The two comparisons a reviewer sees agree: what two runs of numbered revisions do
\* not have in common, under whatever ranges they were made, is at a cue the diff of
\* the revisions names, or is an overlap with such a cue, or a duration judged by
\* another range.  Only a term that was added between the two submissions explains
\* findings at cues nobody touched, and it never makes one disappear.  With the runs
\* given in the other order the two lists change places (history_queries.go
\* CompareValidationRuns, revisions.go Validate, cue.go DiffCues).
DiffExplainsComparison ==
    \A p, q \in DOMAIN revisions : \A before, after \in Limits :
        LET left  == revisions[p]
            right == revisions[q]
            touched  == {c.sequence : c \in DiffCues(left.cues, right.cues)}
            compared == Compare(RunOf(left, before), RunOf(right, after))
            Explained(rule, f) ==
                \/ f.sequence \in touched
                \/ rule = "CUE_OVERLAP" /\ f.sequence - 1 \in touched
                \/ rule = "DISPLAY_DURATION" /\ before # after
            OfNewTerm(rule, f) ==
                /\ rule \in {"TERM_REQUIRED", "TERM_FORBIDDEN"}
                /\ \E k \in (left.glossary + 1)..right.glossary :
                      terms[k].source = f.evidence[1]
        IN  p <= q /\ Numbered(left.cues) /\ Numbered(right.cues) =>
                \A rule \in RuleCode \ {"EMPTY_REVISION"} :
                    /\ \A f \in compared.added[rule] :
                          Explained(rule, f) \/ OfNewTerm(rule, f)
                    /\ \A f \in compared.disappeared[rule] : Explained(rule, f)

=============================================================================
