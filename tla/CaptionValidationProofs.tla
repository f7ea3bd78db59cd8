----------------------- MODULE CaptionValidationProofs -----------------------
(***************************************************************************)
(* Theorems about CaptionValidation, for any texts and any containment     *)
(* between them, any word size, any display range, glossary and number of  *)
(* cues: what the engine lets pass, when its findings can be told apart,   *)
(* which terms can be honoured, and what the diff of two revisions names.  *)
(* The functions are pure, so that most of the argument is lemmas about    *)
(* them; the invariant, TypeOK, says that they are given lists of cues and *)
(* terms NewTerm has accepted, and revisions with glossaries that grow.    *)
(***************************************************************************)
EXTENDS CaptionValidation, TLAPS, SequenceTheorems, WellFoundedInduction

-----------------------------------------------------------------------------
(* The input *)

\* What NewTerm accepts is a term with a required translation that is not blank and
\* not forbidden.
LEMMA AcceptedTerm ==
    ASSUME NEW input \in Term, NewTermAccepts(input)
    PROVE  /\ Cleaned(input) \in Term
           /\ Blank \notin Cleaned(input).forbidden
           /\ Cleaned(input).required \notin Cleaned(input).forbidden \cup {Blank}
  <1>1. PICK term : term = Cleaned(input)
    OBVIOUS
  <1>2. /\ term \in Term /\ Blank \notin term.forbidden /\ term.required = input.required
        /\ term.forbidden = Cleaned(input).forbidden
    BY <1>1 DEF Cleaned, Term
  <1>3. input.required # Blank /\ \A f \in term.forbidden : ~EqualTerm(f, input.required, input)
    BY <1>2 DEF NewTermAccepts
  <1>4. EqualTerm(input.required, input.required, input)
    BY TextAssumption DEF EqualTerm, Term
  <1> QED
    BY <1>1, <1>2, <1>3, <1>4

LEMMA RevisionIs ==
    ASSUME TypeOK, NEW q \in DOMAIN revisions
    PROVE  /\ revisions[q].cues \in Seq(Cue)
           /\ revisions[q].glossary \in Nat /\ revisions[q].glossary <= Len(terms)
  <1>1. revisions[q] \in Revision
    BY ElementOfSeq DEF TypeOK
  <1> QED
    BY <1>1 DEF TypeOK, Revision

LEMMA TermAdded ==
    ASSUME TypeOK, Len(terms) < MaxTerms, NEW input \in Term, AddTerm(input)
    PROVE  TypeOK'
  <1>1. PICK term : term = Cleaned(input)
    OBVIOUS
  <1>2. /\ term \in Term /\ Blank \notin term.forbidden
        /\ term.required \notin term.forbidden \cup {Blank}
    BY <1>1, AcceptedTerm DEF AddTerm
  <1>3. PICK n : n = Len(terms) /\ n \in Nat /\ DOMAIN terms = 1..n /\ terms \in Seq(Term)
    BY DEF TypeOK
  <1>4. /\ terms' \in Seq(Term) /\ Len(terms') = n + 1 /\ DOMAIN terms' = 1..(n + 1)
        /\ terms'[n + 1] = term /\ \A k \in 1..n : terms'[k] = terms[k]
    BY <1>1, <1>2, <1>3, AppendProperties DEF AddTerm
  <1>5. ASSUME NEW k \in DOMAIN terms'
        PROVE  /\ Blank \notin terms'[k].forbidden
               /\ terms'[k].required \notin terms'[k].forbidden \cup {Blank}
    <2>1. CASE k = n + 1
      BY <1>2, <1>4, <2>1
    <2>2. CASE k # n + 1
      <3>1. k \in DOMAIN terms
        BY <1>3, <1>4, <2>2
      <3> QED
        BY <1>3, <1>4, <3>1 DEF TypeOK
    <2> QED
      BY <2>1, <2>2
  <1>6. Len(terms') <= MaxTerms
    BY <1>3, <1>4, BoundAssumption
  <1>7. ASSUME NEW q \in DOMAIN revisions
        PROVE  revisions[q].glossary <= Len(terms')
    <2>1. revisions[q].glossary <= n /\ revisions[q].glossary \in Nat
      BY <1>3, RevisionIs
    <2> QED
      BY <1>3, <1>4, <2>1
  <1>8. /\ limits' = limits /\ revisions' = revisions
        /\ limits \in Limits /\ revisions \in Seq(Revision) /\ Len(revisions) <= MaxRevisions
        /\ \A q \in DOMAIN revisions : \A p \in 1..q :
              revisions[p].glossary <= revisions[q].glossary
    BY DEF AddTerm, TypeOK
  <1> QED
    BY <1>4, <1>5, <1>6, <1>7, <1>8 DEF TypeOK

LEMMA RevisionSubmitted ==
    ASSUME TypeOK, Len(revisions) < MaxRevisions, NEW cues \in Seq(Cue), SubmitRevision(cues)
    PROVE  TypeOK'
  <1>1. PICK n : n = Len(revisions) /\ n \in Nat /\ revisions \in Seq(Revision)
                 /\ DOMAIN revisions = 1..n
    BY DEF TypeOK
  <1>2. PICK version : version = Len(terms) /\ version \in Nat
    BY DEF TypeOK
  <1>3. PICK new : new = [cues |-> cues, glossary |-> version]
    OBVIOUS
  <1>4. new \in Revision /\ new.glossary = version
    BY <1>2, <1>3 DEF Revision
  <1>5. revisions' = Append(revisions, new) /\ UNCHANGED <<limits, terms>>
    BY <1>2, <1>3 DEF SubmitRevision
  <1>6. /\ revisions' \in Seq(Revision) /\ Len(revisions') = n + 1
        /\ DOMAIN revisions' = 1..(n + 1) /\ revisions'[n + 1] = new
        /\ \A q \in 1..n : revisions'[q] = revisions[q]
    BY <1>1, <1>4, <1>5, AppendProperties
  <1>7. Len(revisions') <= MaxRevisions
    BY <1>1, <1>6, BoundAssumption
  <1>8. \A q \in 1..n : revisions[q].glossary \in Nat /\ revisions[q].glossary <= version
    BY <1>1, <1>2, RevisionIs
  <1>9. ASSUME NEW q \in 1..(n + 1)
        PROVE  /\ revisions'[q].glossary <= version
               /\ \A p \in 1..q : revisions'[p].glossary <= revisions'[q].glossary
    <2>1. CASE q = n + 1
      <3>1. \A p \in 1..(n + 1) : p \in 1..n \/ p = n + 1
        BY <1>1
      <3> QED
        BY <1>2, <1>4, <1>6, <1>8, <2>1, <3>1
    <2>2. CASE q # n + 1
      <3>1. q \in 1..n /\ \A p \in 1..q : p \in 1..n
        BY <1>1, <2>2
      <3>2. \A p \in 1..q : revisions[p].glossary <= revisions[q].glossary
        BY <1>1, <3>1 DEF TypeOK
      <3> QED
        BY <1>6, <1>8, <3>1, <3>2
    <2> QED
      BY <2>1, <2>2
  <1> QED
    BY <1>2, <1>5, <1>6, <1>7, <1>9 DEF TypeOK

\* What the engine is given are lists of cues and terms whose required translation is
\* neither blank nor forbidden, and the glossary of a revision is never older than that
\* of an earlier one (glossary.go NewTerm, projects.go AddTerm, revisions.go
\* SubmitRevision).
THEOREM TypeCorrect == Spec => []TypeOK
  <1>1. Init => TypeOK
    <2> SUFFICES ASSUME Init PROVE TypeOK
      OBVIOUS
    <2>1. limits \in Limits /\ terms = <<>> /\ revisions = <<>>
      BY DEF Init
    <2>2. 0 <= MaxTerms /\ 0 <= MaxRevisions
      BY BoundAssumption
    <2>3. terms \in Seq(Term) /\ revisions \in Seq(Revision)
      BY <2>1
    <2> QED
      BY <2>1, <2>2, <2>3 DEF TypeOK
  <1>2. TypeOK /\ [Next]_vars => TypeOK'
    <2>1. ASSUME TypeOK, UNCHANGED vars PROVE TypeOK'
      BY <2>1 DEF TypeOK, vars
    <2>2. ASSUME TypeOK, Next PROVE TypeOK'
      <3>1. ASSUME NEW range \in Limits, UpdateRules(range) PROVE TypeOK'
        BY <2>2, <3>1 DEF UpdateRules, TypeOK
      <3> QED
        BY <2>2, <3>1, TermAdded, RevisionSubmitted DEF Next
    <2> QED
      BY <2>1, <2>2
  <1> QED
    BY <1>1, <1>2, PTL DEF Spec

-----------------------------------------------------------------------------
(* Passing and playing *)

LEMMA LeastOf ==
    ASSUME NEW T, T \subseteq Nat, T # {}
    PROVE  \E x \in T : \A y \in T : x <= y
  <1>1. PICK x \in T : \A y \in T : <<y, x>> \notin OpToRel(<, Nat)
    BY NatLessThanWellFounded, WFMin
  <1>2. \A y \in T : ~(y < x)
    BY <1>1 DEF OpToRel
  <1> QED
    BY <1>2

\* A difference that fits a word does not wrap around.
LEMMA MinusIs ==
    ASSUME NEW a \in Int64, NEW b \in Int64, a - b \in Int64
    PROVE  Minus(a, b) = a - b
  <1>1. ASSUME NEW m \in Nat, NEW x \in 0..(m - 1) PROVE x % m = x
    OBVIOUS
  <1> QED
    BY <1>1, WordAssumption DEF Minus, Int64

LEMMA FindingsOf ==
    ASSUME NEW cues, NEW range, NEW glossary
    PROVE  LET run == Validate(cues, range, glossary) IN
           /\ \A rule \in TimingRule : run[rule] = TimingFindings(rule, cues, range)
           /\ run["EMPTY_REVISION"] = IF cues = <<>>
                THEN {[at |-> 0, sequence |-> 0, evidence |-> <<>>]} ELSE {}
           /\ run["TERM_REQUIRED"] = RequiredFindings(cues, glossary)
           /\ run["TERM_FORBIDDEN"] = ForbiddenFindings(cues, glossary)
  <1>1. ASSUME NEW rule \in TimingRule
        PROVE  Validate(cues, range, glossary)[rule] = TimingFindings(rule, cues, range)
    BY DEF Validate, RuleCode, TimingRule
  <1>2. Validate(cues, range, glossary)["EMPTY_REVISION"] = IF cues = <<>>
                THEN {[at |-> 0, sequence |-> 0, evidence |-> <<>>]} ELSE {}
    BY DEF Validate, RuleCode, TimingRule
  <1>3. Validate(cues, range, glossary)["TERM_REQUIRED"] = RequiredFindings(cues, glossary)
    BY DEF Validate, RuleCode, TimingRule
  <1>4. Validate(cues, range, glossary)["TERM_FORBIDDEN"] = ForbiddenFindings(cues, glossary)
    BY DEF Validate, RuleCode, TimingRule
  <1> QED
    BY <1>1, <1>2, <1>3, <1>4

LEMMA NoTimingFindings ==
    ASSUME NEW rule, NEW cues, NEW range
    PROVE  TimingFindings(rule, cues, range) = {} <=>
               \A i \in DOMAIN cues : ~Breaks(rule, cues, i, range)
  BY DEF TimingFindings

\* What the five timing rules say of one cue.
LEMMA BreaksIs ==
    ASSUME NEW cues, NEW i, NEW range
    PROVE  /\ Breaks("CUE_SEQUENCE", cues, i, range) <=> cues[i].sequence # i
           /\ Breaks("TIMECODE_RANGE", cues, i, range) <=> IsOutOfRange(cues[i])
           /\ Breaks("DISPLAY_DURATION", cues, i, range) <=>
                  Duration(cues[i]) \notin range.min..range.max
           /\ Breaks("EMPTY_TRANSLATION", cues, i, range) <=> IsUntranslated(cues[i])
           /\ Breaks("CUE_OVERLAP", cues, i, range) <=> (i > 1 /\ cues[i].in < cues[i - 1].out)
  <1>1. Breaks("CUE_SEQUENCE", cues, i, range) <=> cues[i].sequence # i
    BY DEF Breaks
  <1>2. Breaks("TIMECODE_RANGE", cues, i, range) <=> IsOutOfRange(cues[i])
    BY DEF Breaks
  <1>3. Breaks("DISPLAY_DURATION", cues, i, range) <=>
            Duration(cues[i]) \notin range.min..range.max
    BY DEF Breaks
  <1>4. Breaks("EMPTY_TRANSLATION", cues, i, range) <=> IsUntranslated(cues[i])
    BY DEF Breaks
  <1>5. Breaks("CUE_OVERLAP", cues, i, range) <=> (i > 1 /\ cues[i].in < cues[i - 1].out)
    BY DEF Breaks
  <1> QED
    BY <1>1, <1>2, <1>3, <1>4, <1>5

\* A cue that starts in time and ends after its start has the duration it seems to have.
LEMMA DurationIs ==
    ASSUME NEW cue \in Cue, 0 <= cue.in, cue.in < cue.out
    PROVE  Duration(cue) = cue.out - cue.in /\ cue.in \in Int /\ cue.out \in Int
  <1>1. cue.in \in Int64 /\ cue.out \in Int64
    BY DEF Cue
  <1>2. cue.out - cue.in \in Int64
    BY <1>1, WordAssumption DEF Int64
  <1> QED
    BY <1>1, <1>2, MinusIs, WordAssumption DEF Duration, Int64

\* Where no cue starts before the one before it ends, none starts before any earlier one
\* ends, for each ends after it starts.
LEMMA NeighboursSuffice ==
    ASSUME NEW cues \in Seq(Cue),
           \A i \in DOMAIN cues : cues[i].in < cues[i].out,
           \A i \in DOMAIN cues : ~(i > 1 /\ cues[i].in < cues[i - 1].out)
    PROVE  \A i, j \in DOMAIN cues : i < j => cues[i].out <= cues[j].in
  <1> SUFFICES ASSUME NEW i \in DOMAIN cues, NEW k \in DOMAIN cues, i < k,
                      ~(cues[i].out <= cues[k].in)
               PROVE  FALSE
    OBVIOUS
  <1>1. PICK n : n = Len(cues) /\ n \in Nat /\ DOMAIN cues = 1..n
    OBVIOUS
  <1>2. ASSUME NEW m \in 1..n PROVE cues[m].in \in Int /\ cues[m].out \in Int
    <2>1. cues[m] \in Cue
      BY <1>1, ElementOfSeq
    <2> QED
      BY <2>1, WordAssumption DEF Cue, Int64
  <1> DEFINE early == {m \in 1..n : i < m /\ ~(cues[i].out <= cues[m].in)}
  <1>3. early \subseteq Nat /\ early # {}
    BY <1>1
  <1>4. PICK j \in early : \A m \in early : j <= m
    BY <1>3, LeastOf
  <1>5. /\ j \in 1..n /\ i < j /\ ~(cues[i].out <= cues[j].in)
        /\ i \in 1..n /\ j - 1 \in 1..n /\ j > 1
    BY <1>1, <1>4
  <1>6. cues[j - 1].out <= cues[j].in
    <2>1. ~(j > 1 /\ cues[j].in < cues[j - 1].out)
      BY <1>1, <1>5
    <2>2. cues[j].in \in Int /\ cues[j - 1].out \in Int
      BY <1>2, <1>5
    <2> QED
      BY <1>5, <2>1, <2>2
  <1>7. CASE i = j - 1
    BY <1>5, <1>6, <1>7
  <1>8. CASE i < j - 1
    <2>1. j - 1 \notin early
      BY <1>4, <1>5
    <2>2. cues[i].out <= cues[j - 1].in
      BY <1>5, <1>8, <2>1
    <2>3. cues[j - 1].in < cues[j - 1].out
      BY <1>1, <1>5
    <2> QED
      BY <1>2, <1>5, <1>6, <2>2, <2>3
  <1> QED
    BY <1>1, <1>5, <1>7, <1>8

\* The engine lets pass, as far as timing goes, exactly what can be played.
LEMMA PlayableIs ==
    ASSUME NEW cues \in Seq(Cue), limits \in Limits
    PROVE  Playable(cues) <=>
              (cues # <<>> /\ \A rule \in TimingRule : \A i \in DOMAIN cues :
                                  ~Breaks(rule, cues, i, limits))
  <1>1. PICK n : n = Len(cues) /\ n \in Nat /\ DOMAIN cues = 1..n
    OBVIOUS
  <1>2. ASSUME NEW i \in DOMAIN cues
        PROVE  cues[i] \in Cue /\ cues[i].in \in Int /\ cues[i].out \in Int
    <2>1. cues[i] \in Cue
      BY ElementOfSeq
    <2> QED
      BY <2>1, WordAssumption DEF Cue, Int64
  <1>3. limits.min \in Int /\ limits.max \in Int /\ 0 < limits.min
    BY LimitsAssumption, WordAssumption
  <1>4. ASSUME cues # <<>>, \A rule \in TimingRule : \A i \in DOMAIN cues :
                                ~Breaks(rule, cues, i, limits)
        PROVE  Playable(cues)
    <2>1. ASSUME NEW i \in DOMAIN cues
          PROVE  /\ cues[i].sequence = i
                 /\ 0 <= cues[i].in /\ cues[i].in < cues[i].out
                 /\ Duration(cues[i]) \in limits.min..limits.max
                 /\ cues[i].translated # Blank
                 /\ ~(i > 1 /\ cues[i].in < cues[i - 1].out)
      <3>1. /\ ~Breaks("CUE_SEQUENCE", cues, i, limits) /\ ~Breaks("TIMECODE_RANGE", cues, i, limits)
            /\ ~Breaks("DISPLAY_DURATION", cues, i, limits)
            /\ ~Breaks("EMPTY_TRANSLATION", cues, i, limits) /\ ~Breaks("CUE_OVERLAP", cues, i, limits)
        BY <1>4 DEF TimingRule
      <3>2. ~IsOutOfRange(cues[i]) /\ ~IsUntranslated(cues[i])
        BY <3>1, BreaksIs
      <3>3. 0 <= cues[i].in /\ cues[i].in < cues[i].out
        BY <1>2, <3>2 DEF IsOutOfRange
      <3> QED
        BY <3>1, <3>2, <3>3, BreaksIs DEF IsUntranslated
    <2>2. \A i \in DOMAIN cues : limits.min <= cues[i].out - cues[i].in
                                 /\ cues[i].out - cues[i].in <= limits.max
      BY <1>2, <2>1, DurationIs
    <2>3. \A i, j \in DOMAIN cues : i < j => cues[i].out <= cues[j].in
      BY <2>1, NeighboursSuffice
    <2> QED
      BY <1>4, <2>1, <2>2, <2>3 DEF Playable
  <1>5. ASSUME Playable(cues), NEW rule \in TimingRule, NEW i \in DOMAIN cues
        PROVE  ~Breaks(rule, cues, i, limits)
    <2>1. /\ cues[i].sequence = i /\ 0 <= cues[i].in
          /\ limits.min <= cues[i].out - cues[i].in
          /\ cues[i].out - cues[i].in <= limits.max
          /\ cues[i].translated # Blank
      BY <1>5 DEF Playable
    <2>2. cues[i].in < cues[i].out
      BY <1>2, <1>3, <2>1
    <2>3. Duration(cues[i]) \in limits.min..limits.max
      BY <1>2, <2>1, <2>2, DurationIs
    <2>4. ~(i > 1 /\ cues[i].in < cues[i - 1].out)
      <3> SUFFICES ASSUME i > 1 PROVE ~(cues[i].in < cues[i - 1].out)
        OBVIOUS
      <3>1. i - 1 \in DOMAIN cues /\ i - 1 < i
        BY <1>1
      <3>2. cues[i - 1].out <= cues[i].in
        BY <1>5, <3>1 DEF Playable
      <3> QED
        BY <1>2, <3>1, <3>2
    <2>5. ~IsOutOfRange(cues[i]) /\ ~IsUntranslated(cues[i])
      BY <1>2, <2>1, <2>2 DEF IsOutOfRange, IsUntranslated
    <2> QED
      BY <2>1, <2>3, <2>4, <2>5, BreaksIs DEF TimingRule
  <1>6. Playable(cues) => cues # <<>>
    BY DEF Playable
  <1> QED
    BY <1>4, <1>5, <1>6

LEMMA CurrentIs ==
    ASSUME TypeOK, revisions # <<>>
    PROVE  Current.cues \in Seq(Cue)
  <1>1. Len(revisions) \in DOMAIN revisions
    BY DEF TypeOK
  <1> QED
    BY <1>1, RevisionIs DEF Current

\* A revision passes the timing rules exactly if it can be played: numbered from one,
\* each cue in a time of its own, of an allowed duration and with a text, for any
\* number of cues and the whole range of times (timing.go validateTiming).
THEOREM PassedPlays == Spec => []PassedIsPlayable
  <1>1. TypeOK => PassedIsPlayable
    <2> SUFFICES ASSUME TypeOK, revisions # <<>>
                 PROVE  Playable(Current.cues) <=>
                          \A rule \in TimingRule \cup {"EMPTY_REVISION"} : CurrentRun[rule] = {}
      BY DEF PassedIsPlayable
    <2>1. PICK cues \in Seq(Cue) : cues = Current.cues
      BY CurrentIs
    <2>2. /\ \A rule \in TimingRule : CurrentRun[rule] = TimingFindings(rule, cues, limits)
          /\ CurrentRun["EMPTY_REVISION"] = {} <=> cues # <<>>
      <3>1. PICK run : run = Validate(cues, limits, TermsAt(Current.glossary))
        OBVIOUS
      <3>2. /\ \A rule \in TimingRule : run[rule] = TimingFindings(rule, cues, limits)
            /\ run["EMPTY_REVISION"] = IF cues = <<>>
                  THEN {[at |-> 0, sequence |-> 0, evidence |-> <<>>]} ELSE {}
        BY <3>1, FindingsOf
      <3>3. run["EMPTY_REVISION"] = {} <=> cues # <<>>
        BY <3>2
      <3> QED
        BY <2>1, <3>1, <3>2, <3>3 DEF CurrentRun, RunOf
    <2>3. \A rule \in TimingRule : CurrentRun[rule] = {} <=>
              \A i \in DOMAIN cues : ~Breaks(rule, cues, i, limits)
      BY <2>2, NoTimingFindings
    <2> QED
      BY <2>1, <2>2, <2>3, PlayableIs DEF TypeOK
  <1> QED
    BY <1>1, TypeCorrect, PTL

-----------------------------------------------------------------------------
(* Identifiers *)

LEMMA SameID ==
    ASSUME NEW f, NEW g, IDs({f}) = IDs({g})
    PROVE  f.sequence = g.sequence /\ f.evidence = g.evidence
  <1>1. [sequence |-> f.sequence, evidence |-> f.evidence]
        = [sequence |-> g.sequence, evidence |-> g.evidence]
    BY DEF IDs
  <1> QED
    BY <1>1

\* The findings of a rule about one cue and one term, and of the timing rules about one
\* cue, by where they were raised.
LEMMA TimingFinding ==
    ASSUME NEW rule, NEW cues, NEW range, NEW f \in TimingFindings(rule, cues, range)
    PROVE  \E i \in DOMAIN cues :
              /\ Breaks(rule, cues, i, range)
              /\ f = [at |-> i, sequence |-> cues[i].sequence,
                      evidence |-> Evidence(rule, cues, i, range)]
  BY DEF TimingFindings

LEMMA RequiredFinding ==
    ASSUME NEW cues, NEW glossary, NEW f \in RequiredFindings(cues, glossary)
    PROVE  \E i \in DOMAIN cues : \E k \in DOMAIN glossary :
              /\ MissesRequired(cues[i], glossary[k])
              /\ f = [at |-> <<i, k>>, sequence |-> cues[i].sequence,
                      evidence |-> <<glossary[k].source, glossary[k].required>>]
  <1>1. PICK p \in (DOMAIN cues) \X (DOMAIN glossary) :
           /\ MissesRequired(cues[p[1]], glossary[p[2]])
           /\ f = [at |-> p, sequence |-> cues[p[1]].sequence,
                   evidence |-> <<glossary[p[2]].source, glossary[p[2]].required>>]
    BY DEF RequiredFindings
  <1>2. p[1] \in DOMAIN cues /\ p[2] \in DOMAIN glossary /\ p = <<p[1], p[2]>>
    OBVIOUS
  <1> QED
    BY <1>1, <1>2

LEMMA ForbiddenFinding ==
    ASSUME NEW cues, NEW glossary, NEW f \in ForbiddenFindings(cues, glossary)
    PROVE  \E i \in DOMAIN cues : \E k \in DOMAIN glossary :
           \E phrase \in UsesForbidden(cues[i], glossary[k]) :
              f = [at |-> <<i, k, phrase>>, sequence |-> cues[i].sequence,
                   evidence |-> <<glossary[k].source, phrase>>]
  BY DEF ForbiddenFindings

\* With numbered cues and a source text for each term of its own, the identifier says
\* where the finding was raised.
LEMMA Addressable ==
    ASSUME NEW cues, NEW range, NEW glossary, Numbered(cues), DistinctSources(glossary),
           NEW rule \in RuleCode,
           NEW f \in Validate(cues, range, glossary)[rule],
           NEW g \in Validate(cues, range, glossary)[rule],
           IDs({f}) = IDs({g})
    PROVE  f = g
  <1>1. f.sequence = g.sequence /\ f.evidence = g.evidence
    BY SameID
  <1>2. PICK run : run = Validate(cues, range, glossary)
    OBVIOUS
  <1>3. /\ \A r \in TimingRule : run[r] = TimingFindings(r, cues, range)
        /\ run["EMPTY_REVISION"] = IF cues = <<>>
                THEN {[at |-> 0, sequence |-> 0, evidence |-> <<>>]} ELSE {}
        /\ run["TERM_REQUIRED"] = RequiredFindings(cues, glossary)
        /\ run["TERM_FORBIDDEN"] = ForbiddenFindings(cues, glossary)
    BY <1>2, FindingsOf
  <1>4. CASE rule \in TimingRule
    <2>1. f \in TimingFindings(rule, cues, range) /\ g \in TimingFindings(rule, cues, range)
      BY <1>2, <1>3, <1>4
    <2>2. PICK i \in DOMAIN cues : f = [at |-> i, sequence |-> cues[i].sequence,
                                        evidence |-> Evidence(rule, cues, i, range)]
      BY <2>1, TimingFinding
    <2>3. PICK j \in DOMAIN cues : g = [at |-> j, sequence |-> cues[j].sequence,
                                        evidence |-> Evidence(rule, cues, j, range)]
      BY <2>1, TimingFinding
    <2>4. i = j
      BY <1>1, <2>2, <2>3 DEF Numbered
    <2> QED
      BY <2>2, <2>3, <2>4
  <1>5. CASE rule = "EMPTY_REVISION"
    BY <1>2, <1>3, <1>5
  <1>6. CASE rule = "TERM_REQUIRED"
    <2>1. f \in RequiredFindings(cues, glossary) /\ g \in RequiredFindings(cues, glossary)
      BY <1>2, <1>3, <1>6
    <2>2. PICK i \in DOMAIN cues : \E k \in DOMAIN glossary :
             f = [at |-> <<i, k>>, sequence |-> cues[i].sequence,
                  evidence |-> <<glossary[k].source, glossary[k].required>>]
      BY <2>1, RequiredFinding
    <2>3. PICK k \in DOMAIN glossary :
             f = [at |-> <<i, k>>, sequence |-> cues[i].sequence,
                  evidence |-> <<glossary[k].source, glossary[k].required>>]
      BY <2>2
    <2>4. PICK j \in DOMAIN cues : \E l \in DOMAIN glossary :
             g = [at |-> <<j, l>>, sequence |-> cues[j].sequence,
                  evidence |-> <<glossary[l].source, glossary[l].required>>]
      BY <2>1, RequiredFinding
    <2>5. PICK l \in DOMAIN glossary :
             g = [at |-> <<j, l>>, sequence |-> cues[j].sequence,
                  evidence |-> <<glossary[l].source, glossary[l].required>>]
      BY <2>4
    <2>6. i = j
      BY <1>1, <2>3, <2>5 DEF Numbered
    <2>7. glossary[k].source = glossary[l].source
      BY <1>1, <2>3, <2>5
    <2>8. k = l
      BY <2>7 DEF DistinctSources
    <2> QED
      BY <2>3, <2>5, <2>6, <2>8
  <1>7. CASE rule = "TERM_FORBIDDEN"
    <2>1. f \in ForbiddenFindings(cues, glossary) /\ g \in ForbiddenFindings(cues, glossary)
      BY <1>2, <1>3, <1>7
    <2>2. PICK i \in DOMAIN cues : \E k \in DOMAIN glossary :
          \E phrase \in UsesForbidden(cues[i], glossary[k]) :
             f = [at |-> <<i, k, phrase>>, sequence |-> cues[i].sequence,
                  evidence |-> <<glossary[k].source, phrase>>]
      BY <2>1, ForbiddenFinding
    <2>3. PICK k \in DOMAIN glossary : \E phrase \in UsesForbidden(cues[i], glossary[k]) :
             f = [at |-> <<i, k, phrase>>, sequence |-> cues[i].sequence,
                  evidence |-> <<glossary[k].source, phrase>>]
      BY <2>2
    <2>4. PICK a \in UsesForbidden(cues[i], glossary[k]) :
             f = [at |-> <<i, k, a>>, sequence |-> cues[i].sequence,
                  evidence |-> <<glossary[k].source, a>>]
      BY <2>3
    <2>5. PICK j \in DOMAIN cues : \E l \in DOMAIN glossary :
          \E phrase \in UsesForbidden(cues[j], glossary[l]) :
             g = [at |-> <<j, l, phrase>>, sequence |-> cues[j].sequence,
                  evidence |-> <<glossary[l].source, phrase>>]
      BY <2>1, ForbiddenFinding
    <2>6. PICK l \in DOMAIN glossary : \E phrase \in UsesForbidden(cues[j], glossary[l]) :
             g = [at |-> <<j, l, phrase>>, sequence |-> cues[j].sequence,
                  evidence |-> <<glossary[l].source, phrase>>]
      BY <2>5
    <2>7. PICK b \in UsesForbidden(cues[j], glossary[l]) :
             g = [at |-> <<j, l, b>>, sequence |-> cues[j].sequence,
                  evidence |-> <<glossary[l].source, b>>]
      BY <2>6
    <2>8. i = j
      BY <1>1, <2>4, <2>7 DEF Numbered
    <2>9. glossary[k].source = glossary[l].source /\ a = b
      BY <1>1, <2>4, <2>7
    <2>10. k = l
      BY <2>9 DEF DistinctSources
    <2> QED
      BY <2>4, <2>7, <2>8, <2>9, <2>10
  <1> QED
    BY <1>4, <1>5, <1>6, <1>7 DEF RuleCode

\* A finding can be addressed by its identifier when the cues are numbered and no two
\* terms have the same source text, for any cues and any glossary (engine.go Validate,
\* findings_batch.go ResolveFindings).
THEOREM FindingsHaveNames == Spec => []FindingsAreAddressable
  <1>1. FindingsAreAddressable
    BY Addressable DEF FindingsAreAddressable, CurrentRun, RunOf
  <1> QED
    BY <1>1, PTL

-----------------------------------------------------------------------------
(* Terms *)

LEMMA FoldedIsText ==
    ASSUME NEW term \in Term, NEW text \in Text
    PROVE  Folded(text, term) \in Text
  BY TextAssumption DEF Folded

LEMMA FoldedWithin ==
    ASSUME NEW term \in Term, NEW a \in Text, NEW b \in Text, Within(a, b)
    PROVE  Within(Folded(a, term), Folded(b, term))
  BY TextAssumption DEF Folded

\* A term with a required translation can be honoured exactly if no forbidden phrase is
\* part of that translation: if none is, by the translation itself, and if one is, by
\* no text that has the translation in it.
LEMMA Honoured ==
    ASSUME NEW term \in Term, term.required # Blank
    PROVE  CanBeHonoured(term) <=>
              \A f \in term.forbidden : ~Within(Folded(f, term), Folded(term.required, term))
  <1>1. term.source \in Text /\ term.required \in Text /\ term.forbidden \subseteq Text
    BY DEF Term
  <1>2. Within(Folded(term.source, term), Folded(term.source, term))
    BY <1>1, FoldedIsText, TextAssumption
  <1>3. ASSUME NEW text \in Text
        PROVE  LET cue == [source |-> term.source, translated |-> text] IN
               /\ MissesRequired(cue, term) <=> ~Within(Folded(term.required, term), Folded(text, term))
               /\ UsesForbidden(cue, term) =
                    {f \in term.forbidden : Within(Folded(f, term), Folded(text, term))}
    BY <1>2 DEF MissesRequired, UsesForbidden
  <1>4. ASSUME CanBeHonoured(term), NEW f \in term.forbidden,
               Within(Folded(f, term), Folded(term.required, term))
        PROVE  FALSE
    <2>1. PICK text \in Text \ {Blank} :
             LET cue == [source |-> term.source, translated |-> text]
             IN  ~MissesRequired(cue, term) /\ UsesForbidden(cue, term) = {}
      BY <1>4 DEF CanBeHonoured
    <2>2. /\ Within(Folded(term.required, term), Folded(text, term))
          /\ ~Within(Folded(f, term), Folded(text, term))
      BY <1>3, <2>1
    <2>3. Folded(f, term) \in Text /\ Folded(term.required, term) \in Text /\ Folded(text, term) \in Text
      BY <1>1, FoldedIsText
    <2> QED
      BY <1>4, <2>2, <2>3, TextAssumption
  <1>5. ASSUME \A f \in term.forbidden : ~Within(Folded(f, term), Folded(term.required, term))
        PROVE  CanBeHonoured(term)
    <2>1. Within(Folded(term.required, term), Folded(term.required, term))
      BY <1>1, FoldedIsText, TextAssumption
    <2>2. LET cue == [source |-> term.source, translated |-> term.required]
          IN  ~MissesRequired(cue, term) /\ UsesForbidden(cue, term) = {}
      BY <1>1, <1>3, <1>5, <2>1
    <2> QED
      BY <1>1, <2>2 DEF CanBeHonoured
  <1> QED
    BY <1>4, <1>5

\* A term of the glossary can be honoured exactly if none of its forbidden phrases is
\* part of its required translation, for any texts and any notion of lower case that
\* containment respects (glossary.go of domain and of validation).
THEOREM TermsAreHonoured == Spec => []TermsCanBeHonoured
  <1>1. TypeOK => TermsCanBeHonoured
    <2> SUFFICES ASSUME TypeOK, NEW k \in DOMAIN terms
                 PROVE  CanBeHonoured(terms[k]) <=>
                          \A f \in terms[k].forbidden :
                             ~Within(Folded(f, terms[k]), Folded(terms[k].required, terms[k]))
      BY DEF TermsCanBeHonoured
    <2>1. terms[k] \in Term
      BY ElementOfSeq DEF TypeOK
    <2>2. terms[k].required # Blank
      BY DEF TypeOK
    <2> QED
      BY <2>1, <2>2, Honoured
  <1> QED
    BY <1>1, TypeCorrect, PTL

-----------------------------------------------------------------------------
(* The diff of two revisions *)

Field == {"sequence", "in", "out", "source", "translated", "speaker"}

LEMMA CueIsFunction ==
    ASSUME NEW cue \in Cue
    PROVE  DOMAIN cue = Field /\ cue = [f \in Field |-> cue[f]]
  BY DEF Cue, Field

\* Two cues are the same if no field differs, and writing the fields that differ into
\* the one makes the other of it.
LEMMA FieldsAre ==
    ASSUME NEW before \in Cue, NEW after \in Cue
    PROVE  /\ DiffCueFields(before, after) = {} <=> before = after
           /\ [f \in DOMAIN before |-> IF f \in DiffCueFields(before, after) THEN after[f]
                                                                             ELSE before[f]] = after
  <1>1. /\ DOMAIN before = Field /\ before = [f \in Field |-> before[f]]
        /\ DOMAIN after = Field /\ after = [f \in Field |-> after[f]]
    BY CueIsFunction
  <1>2. PICK fields : fields = DiffCueFields(before, after)
    OBVIOUS
  <1>3. fields = {f \in Field : before[f] # after[f]}
    BY <1>1, <1>2 DEF DiffCueFields
  <1>4. ASSUME fields = {} PROVE before = after
    <2>1. \A f \in Field : before[f] = after[f]
      BY <1>3, <1>4
    <2>2. [f \in Field |-> before[f]] = [f \in Field |-> after[f]]
      BY <2>1
    <2> QED
      BY <1>1, <2>2
  <1>5. ASSUME before = after PROVE fields = {}
    BY <1>3, <1>5
  <1>6. [f \in DOMAIN before |-> IF f \in fields THEN after[f] ELSE before[f]] = after
    <2>1. \A f \in Field : (IF f \in fields THEN after[f] ELSE before[f]) = after[f]
      BY <1>3
    <2>2. [f \in Field |-> IF f \in fields THEN after[f] ELSE before[f]]
          = [f \in Field |-> after[f]]
      BY <2>1
    <2> QED
      BY <1>1, <2>2
  <1> QED
    BY <1>2, <1>4, <1>5, <1>6

\* A numbered list is its own map.
LEMMA NumberedIsMap ==
    ASSUME NEW cues \in Seq(Cue), Numbered(cues)
    PROVE  CueMap(cues) = cues
  <1>1. PICK n : n = Len(cues) /\ n \in Nat /\ DOMAIN cues = 1..n
    OBVIOUS
  <1>2. cues = [s \in 1..n |-> cues[s]]
    BY <1>1
  <1>3. \A i \in 1..n : cues[i].sequence = i
    BY <1>1 DEF Numbered
  <1>4. {cues[i].sequence : i \in DOMAIN cues} = 1..n
    BY <1>1, <1>3
  <1> DEFINE LastOf(s) == CHOOSE i \in DOMAIN cues :
                             /\ cues[i].sequence = s
                             /\ \A j \in DOMAIN cues : j > i => cues[j].sequence # s
  <1>5. ASSUME NEW s \in 1..n
        PROVE  LastOf(s) = s
    <2>1. \A i \in 1..n : (/\ cues[i].sequence = s
                           /\ \A j \in 1..n : j > i => cues[j].sequence # s) <=> i = s
      BY <1>1, <1>3
    <2> QED
      BY <1>1, <2>1
  <1>6. CueMap(cues) = [s \in {cues[i].sequence : i \in DOMAIN cues} |-> cues[LastOf(s)]]
    BY DEF CueMap
  <1> HIDE DEF LastOf
  <1>7. CueMap(cues) = [s \in 1..n |-> cues[s]]
    BY <1>4, <1>5, <1>6
  <1> QED
    BY <1>2, <1>7

LEMMA ChangeIs ==
    ASSUME NEW left \in Seq(Cue), NEW right \in Seq(Cue), NEW s
    PROVE  LET c == Change(left, right, s) IN
           /\ c.sequence = s
           /\ s \in DOMAIN left => c.before = left[s] /\ c.before \in Cue /\ c.before # NoCue
           /\ s \notin DOMAIN left => c.before = NoCue
           /\ s \in DOMAIN right => c.after = right[s] /\ c.after \in Cue /\ c.after # NoCue
           /\ s \notin DOMAIN right => c.after = NoCue
           /\ c.fields = IF s \in DOMAIN left /\ s \in DOMAIN right
                         THEN DiffCueFields(left[s], right[s]) ELSE {}
  <1>1. PICK before : before = IF s \in DOMAIN left THEN left[s] ELSE NoCue
    OBVIOUS
  <1>2. PICK after : after = IF s \in DOMAIN right THEN right[s] ELSE NoCue
    OBVIOUS
  <1>3. Change(left, right, s) =
          [sequence |-> s, before |-> before, after |-> after,
           fields |-> IF NoCue \in {before, after} THEN {} ELSE DiffCueFields(before, after)]
    BY <1>1, <1>2 DEF Change
  <1>4. /\ s \in DOMAIN left => left[s] \in Cue /\ left[s] # NoCue
        /\ s \in DOMAIN right => right[s] \in Cue /\ right[s] # NoCue
    BY ElementOfSeq, NoCueAssumption
  <1>5. PICK fields : fields = IF s \in DOMAIN left /\ s \in DOMAIN right
                               THEN DiffCueFields(left[s], right[s]) ELSE {}
    OBVIOUS
  <1>6. fields = IF NoCue \in {before, after} THEN {} ELSE DiffCueFields(before, after)
    BY <1>1, <1>2, <1>4, <1>5
  <1>7. PICK c : c = Change(left, right, s)
    OBVIOUS
  <1>8. c.sequence = s /\ c.before = before /\ c.after = after /\ c.fields = fields
    BY <1>3, <1>6, <1>7
  <1> QED
    BY <1>1, <1>2, <1>4, <1>5, <1>7, <1>8

\* The diff of numbered lists has a change for each number whose cue was added, deleted
\* or altered, and no other.
Differs(left, right, s) ==
    \/ s \in DOMAIN left /\ s \notin DOMAIN right
    \/ s \in DOMAIN right /\ s \notin DOMAIN left
    \/ s \in DOMAIN left /\ s \in DOMAIN right /\ left[s] # right[s]

LEMMA DiffIs ==
    ASSUME NEW left \in Seq(Cue), NEW right \in Seq(Cue), Numbered(left), Numbered(right),
           NEW c
    PROVE  c \in DiffCues(left, right) <=>
              \E s : Differs(left, right, s) /\ c = Change(left, right, s)
  <1>1. CueMap(left) = left /\ CueMap(right) = right
    BY NumberedIsMap
  <1>2. DiffCues(left, right) =
          {d \in {Change(left, right, s) : s \in (DOMAIN left) \cup (DOMAIN right)} :
              d.fields # {} \/ NoCue \in {d.before, d.after}}
    BY <1>1 DEF DiffCues
  <1>3. ASSUME NEW s \in (DOMAIN left) \cup (DOMAIN right), NEW d, d = Change(left, right, s)
        PROVE  (d.fields # {} \/ NoCue \in {d.before, d.after}) <=> Differs(left, right, s)
    <2>1. /\ s \in DOMAIN left => d.before = left[s] /\ d.before \in Cue /\ d.before # NoCue
          /\ s \notin DOMAIN left => d.before = NoCue
          /\ s \in DOMAIN right => d.after = right[s] /\ d.after \in Cue /\ d.after # NoCue
          /\ s \notin DOMAIN right => d.after = NoCue
          /\ d.fields = IF s \in DOMAIN left /\ s \in DOMAIN right
                        THEN DiffCueFields(left[s], right[s]) ELSE {}
      BY <1>3, ChangeIs
    <2>2. CASE s \in DOMAIN left /\ s \in DOMAIN right
      <3>1. DiffCueFields(left[s], right[s]) = {} <=> left[s] = right[s]
        BY <2>1, <2>2, FieldsAre
      <3> QED
        BY <2>1, <2>2, <3>1 DEF Differs
    <2>3. CASE ~(s \in DOMAIN left /\ s \in DOMAIN right)
      BY <2>1, <2>3 DEF Differs
    <2> QED
      BY <2>2, <2>3
  <1>4. \A s : Differs(left, right, s) => s \in (DOMAIN left) \cup (DOMAIN right)
    BY DEF Differs
  <1> QED
    BY <1>2, <1>3, <1>4

\* Applying the changes gives the other list.
LEMMA Rebuilds ==
    ASSUME NEW left \in Seq(Cue), NEW right \in Seq(Cue), Numbered(left), Numbered(right)
    PROVE  Patched(left, DiffCues(left, right)) = right
  <1>1. PICK changes : changes = DiffCues(left, right)
    OBVIOUS
  <1>2. \A c : c \in changes <=> \E s : Differs(left, right, s) /\ c = Change(left, right, s)
    BY <1>1, DiffIs
  <1>3. PICK deleted : deleted = {c.sequence : c \in {d \in changes : d.after = NoCue}}
    OBVIOUS
  <1>4. PICK written : written = {c.sequence : c \in {d \in changes : d.after # NoCue}}
    OBVIOUS
  <1>5. \A s : s \in deleted <=> s \in DOMAIN left /\ s \notin DOMAIN right
    <2>1. ASSUME NEW s, s \in deleted PROVE s \in DOMAIN left /\ s \notin DOMAIN right
      <3>1. PICK c \in changes : c.after = NoCue /\ c.sequence = s
        BY <1>3, <2>1
      <3>2. PICK r : Differs(left, right, r) /\ c = Change(left, right, r)
        BY <1>2, <3>1
      <3>3. r = s /\ r \notin DOMAIN right
        BY <3>1, <3>2, ChangeIs
      <3> QED
        BY <3>2, <3>3 DEF Differs
    <2>2. ASSUME NEW s, s \in DOMAIN left, s \notin DOMAIN right PROVE s \in deleted
      <3>1. PICK c : c = Change(left, right, s)
        OBVIOUS
      <3>2. c \in changes
        BY <1>2, <2>2, <3>1 DEF Differs
      <3>3. c.after = NoCue /\ c.sequence = s
        BY <2>2, <3>1, ChangeIs
      <3> QED
        BY <1>3, <3>2, <3>3
    <2> QED
      BY <2>1, <2>2
  <1>6. \A s : s \in written <=> s \in DOMAIN right /\ Differs(left, right, s)
    <2>1. ASSUME NEW s, s \in written PROVE s \in DOMAIN right /\ Differs(left, right, s)
      <3>1. PICK c \in changes : c.after # NoCue /\ c.sequence = s
        BY <1>4, <2>1
      <3>2. PICK r : Differs(left, right, r) /\ c = Change(left, right, r)
        BY <1>2, <3>1
      <3>3. r = s /\ r \in DOMAIN right
        BY <3>1, <3>2, ChangeIs
      <3> QED
        BY <3>2, <3>3
    <2>2. ASSUME NEW s, s \in DOMAIN right, Differs(left, right, s) PROVE s \in written
      <3>1. PICK c : c = Change(left, right, s)
        OBVIOUS
      <3>2. c \in changes
        BY <1>2, <2>2, <3>1
      <3>3. c.after # NoCue /\ c.sequence = s
        BY <2>2, <3>1, ChangeIs
      <3> QED
        BY <1>4, <3>2, <3>3
    <2> QED
      BY <2>1, <2>2
  <1>7. ((DOMAIN left) \cup written) \ deleted = DOMAIN right
    <2>1. \A s : s \in DOMAIN right => s \in DOMAIN left \/ s \in written
      BY <1>6 DEF Differs
    <2> QED
      BY <1>5, <1>6, <2>1
  <1>8. ASSUME NEW s \in written
        PROVE  (CHOOSE c \in changes : c.sequence = s) = Change(left, right, s)
    <2>1. PICK c : c = Change(left, right, s)
      OBVIOUS
    <2>2. c \in changes /\ c.sequence = s
      BY <1>2, <1>6, <2>1, ChangeIs
    <2>3. ASSUME NEW d \in changes, d.sequence = s PROVE d = c
      <3>1. PICK r : d = Change(left, right, r)
        BY <1>2
      <3>2. r = s
        BY <2>3, <3>1, ChangeIs
      <3> QED
        BY <2>1, <3>1, <3>2
    <2> QED
      BY <2>1, <2>2, <2>3
  <1> DEFINE ChangeOf(s) == CHOOSE c \in changes : c.sequence = s
             New(s) == IF s \notin written THEN left[s]
                       ELSE IF ChangeOf(s).before = NoCue THEN ChangeOf(s).after
                       ELSE [f \in DOMAIN left[s] |->
                               IF f \in ChangeOf(s).fields THEN ChangeOf(s).after[f]
                                                           ELSE left[s][f]]
  <1>9. ASSUME NEW s \in DOMAIN right PROVE New(s) = right[s]
    <2>1. CASE s \notin written
      <3>1. s \in DOMAIN left /\ left[s] = right[s]
        BY <1>6, <2>1 DEF Differs
      <3> QED
        BY <2>1, <3>1
    <2>2. CASE s \in written
      <3>1. PICK c : c = Change(left, right, s)
        OBVIOUS
      <3>2. ChangeOf(s) = c
        BY <1>8, <2>2, <3>1
      <3>3. /\ c.after = right[s] /\ c.after \in Cue
            /\ s \in DOMAIN left => c.before = left[s] /\ c.before \in Cue /\ c.before # NoCue
            /\ s \notin DOMAIN left => c.before = NoCue
            /\ s \in DOMAIN left => c.fields = DiffCueFields(left[s], right[s])
        BY <3>1, ChangeIs
      <3>4. CASE s \notin DOMAIN left
        BY <2>2, <3>2, <3>3, <3>4
      <3>5. CASE s \in DOMAIN left
        <4>1. [f \in DOMAIN left[s] |->
                  IF f \in DiffCueFields(left[s], right[s]) THEN right[s][f] ELSE left[s][f]]
              = right[s]
          BY <3>3, <3>5, FieldsAre
        <4>2. New(s) = [f \in DOMAIN left[s] |->
                  IF f \in ChangeOf(s).fields THEN ChangeOf(s).after[f] ELSE left[s][f]]
          BY <2>2, <3>2, <3>3, <3>5
        <4> HIDE DEF New, ChangeOf
        <4>3. New(s) = [f \in DOMAIN left[s] |->
                  IF f \in DiffCueFields(left[s], right[s]) THEN right[s][f] ELSE left[s][f]]
          BY <3>2, <3>3, <3>5, <4>2
        <4> QED
          BY <4>1, <4>3
      <3> QED
        BY <3>4, <3>5
    <2> QED
      BY <2>1, <2>2
  <1>10. Patched(left, changes) = [s \in ((DOMAIN left) \cup written) \ deleted |-> New(s)]
    BY <1>3, <1>4 DEF Patched
  <1> HIDE DEF New, ChangeOf
  <1>11. Patched(left, changes) = [s \in DOMAIN right |-> right[s]]
    BY <1>7, <1>9, <1>10
  <1>12. right = [s \in DOMAIN right |-> right[s]]
    OBVIOUS
  <1> QED
    BY <1>1, <1>11, <1>12

\* Applying the changes that the diff of two numbered revisions names, and nothing but
\* the fields it lists, to the one gives the other, for any two lists of cues
\* (cue.go DiffCues).
THEOREM DiffIsComplete == Spec => []DiffRebuilds
  <1>1. TypeOK => DiffRebuilds
    BY RevisionIs, Rebuilds DEF DiffRebuilds
  <1> QED
    BY <1>1, TypeCorrect, PTL

-----------------------------------------------------------------------------
(* The diff and the comparison of two runs *)

\* A timing rule says the same of the same cue after the same neighbour, and all but
\* one whatever the range.
LEMMA SameTiming ==
    ASSUME NEW left, NEW right, NEW i, NEW before, NEW after, NEW rule \in TimingRule,
           left[i] = right[i], rule = "CUE_OVERLAP" /\ i > 1 => left[i - 1] = right[i - 1],
           rule = "DISPLAY_DURATION" => before = after,
           Breaks(rule, left, i, before)
    PROVE  /\ Breaks(rule, right, i, after)
           /\ Evidence(rule, right, i, after) = Evidence(rule, left, i, before)
  <1>1. CASE rule # "CUE_OVERLAP"
    BY <1>1 DEF Breaks, Evidence, TimingRule
  <1>2. CASE rule = "CUE_OVERLAP"
    <2>1. i > 1 /\ left[i].in < left[i - 1].out
      BY <1>2, BreaksIs
    <2>2. right[i].in < right[i - 1].out /\ left[i - 1] = right[i - 1]
      BY <1>2, <2>1
    <2>3. Breaks(rule, right, i, after)
      BY <1>2, <2>1, <2>2, BreaksIs
    <2>4. Evidence(rule, right, i, after) = Evidence(rule, left, i, before)
      BY <1>2, <2>2 DEF Evidence
    <2> QED
      BY <2>3, <2>4
  <1> QED
    BY <1>1, <1>2

\* Every term of the glossary old whose source text is the given one is in the glossary
\* new as well.
Keeps(old, new, source) ==
    \A k \in DOMAIN old : old[k].source = source => k \in DOMAIN new /\ new[k] = old[k]

TermRule == {"TERM_REQUIRED", "TERM_FORBIDDEN"}

\* A finding at a cue that both lists have is raised in both, if both runs were made
\* under the range and with the terms it is about.
LEMMA FindingShared ==
    ASSUME NEW left \in Seq(Cue), NEW right \in Seq(Cue), Numbered(left),
           NEW before, NEW after, NEW old, NEW new,
           NEW rule \in RuleCode \ {"EMPTY_REVISION"},
           NEW f \in Validate(left, before, old)[rule],
           ~Differs(left, right, f.sequence),
           rule = "CUE_OVERLAP" => ~Differs(left, right, f.sequence - 1),
           rule = "DISPLAY_DURATION" => before = after,
           rule \in TermRule => Keeps(old, new, f.evidence[1])
    PROVE  f \in Validate(right, after, new)[rule]
  <1>1. PICK run : run = Validate(left, before, old)
    OBVIOUS
  <1>2. PICK other : other = Validate(right, after, new)
    OBVIOUS
  <1>3. /\ \A r \in TimingRule : run[r] = TimingFindings(r, left, before)
        /\ run["TERM_REQUIRED"] = RequiredFindings(left, old)
        /\ run["TERM_FORBIDDEN"] = ForbiddenFindings(left, old)
    BY <1>1, FindingsOf
  <1>4. /\ \A r \in TimingRule : other[r] = TimingFindings(r, right, after)
        /\ other["TERM_REQUIRED"] = RequiredFindings(right, new)
        /\ other["TERM_FORBIDDEN"] = ForbiddenFindings(right, new)
    BY <1>2, FindingsOf
  <1>5. ASSUME NEW i \in DOMAIN left, ~Differs(left, right, i)
        PROVE  i \in DOMAIN right /\ left[i] = right[i]
    BY <1>5 DEF Differs
  <1>6. CASE rule \in TimingRule
    <2>1. PICK i \in DOMAIN left :
            /\ Breaks(rule, left, i, before)
            /\ f = [at |-> i, sequence |-> left[i].sequence,
                    evidence |-> Evidence(rule, left, i, before)]
      BY <1>1, <1>3, <1>6, TimingFinding
    <2>2. f.sequence = i /\ left[i].sequence = i
      BY <2>1 DEF Numbered
    <2>3. i \in DOMAIN right /\ left[i] = right[i]
      BY <1>5, <2>2
    <2>4. rule = "CUE_OVERLAP" /\ i > 1 => left[i - 1] = right[i - 1]
      <3> SUFFICES ASSUME rule = "CUE_OVERLAP", i > 1 PROVE left[i - 1] = right[i - 1]
        OBVIOUS
      <3>1. i - 1 \in DOMAIN left
        OBVIOUS
      <3> QED
        BY <1>5, <2>2, <3>1
    <2>5. Breaks(rule, right, i, after)
          /\ Evidence(rule, right, i, after) = Evidence(rule, left, i, before)
      BY <1>6, <2>1, <2>3, <2>4, SameTiming
    <2>6. f \in TimingFindings(rule, right, after)
      BY <2>1, <2>3, <2>5 DEF TimingFindings
    <2> QED
      BY <1>2, <1>4, <1>6, <2>6
  <1>7. CASE rule = "TERM_REQUIRED"
    <2>1. PICK i \in DOMAIN left : \E k \in DOMAIN old :
            /\ MissesRequired(left[i], old[k])
            /\ f = [at |-> <<i, k>>, sequence |-> left[i].sequence,
                    evidence |-> <<old[k].source, old[k].required>>]
      BY <1>1, <1>3, <1>7, RequiredFinding
    <2>2. PICK k \in DOMAIN old :
            /\ MissesRequired(left[i], old[k])
            /\ f = [at |-> <<i, k>>, sequence |-> left[i].sequence,
                    evidence |-> <<old[k].source, old[k].required>>]
      BY <2>1
    <2>3. f.sequence = i /\ f.evidence[1] = old[k].source
      BY <2>2 DEF Numbered
    <2>4. i \in DOMAIN right /\ left[i] = right[i]
      BY <1>5, <2>3
    <2>5. k \in DOMAIN new /\ new[k] = old[k]
      BY <1>7, <2>3 DEF TermRule, Keeps
    <2>6. PICK p : p = <<i, k>>
      OBVIOUS
    <2>7. p \in (DOMAIN right) \X (DOMAIN new) /\ p[1] = i /\ p[2] = k
      BY <2>4, <2>5, <2>6
    <2>8. /\ MissesRequired(right[p[1]], new[p[2]])
          /\ f = [at |-> p, sequence |-> right[p[1]].sequence,
                  evidence |-> <<new[p[2]].source, new[p[2]].required>>]
      BY <2>2, <2>4, <2>5, <2>6, <2>7
    <2>9. f \in RequiredFindings(right, new)
      BY <2>7, <2>8 DEF RequiredFindings
    <2> QED
      BY <1>2, <1>4, <1>7, <2>9
  <1>8. CASE rule = "TERM_FORBIDDEN"
    <2>1. PICK i \in DOMAIN left : \E k \in DOMAIN old :
          \E phrase \in UsesForbidden(left[i], old[k]) :
            f = [at |-> <<i, k, phrase>>, sequence |-> left[i].sequence,
                 evidence |-> <<old[k].source, phrase>>]
      BY <1>1, <1>3, <1>8, ForbiddenFinding
    <2>2. PICK k \in DOMAIN old : \E phrase \in UsesForbidden(left[i], old[k]) :
            f = [at |-> <<i, k, phrase>>, sequence |-> left[i].sequence,
                 evidence |-> <<old[k].source, phrase>>]
      BY <2>1
    <2>3. f.sequence = i /\ f.evidence[1] = old[k].source
      BY <2>2 DEF Numbered
    <2>4. i \in DOMAIN right /\ left[i] = right[i]
      BY <1>5, <2>3
    <2>5. k \in DOMAIN new /\ new[k] = old[k]
      BY <1>8, <2>3 DEF TermRule, Keeps
    <2>6. PICK phrase \in UsesForbidden(left[i], old[k]) :
            f = [at |-> <<i, k, phrase>>, sequence |-> left[i].sequence,
                 evidence |-> <<old[k].source, phrase>>]
      BY <2>2
    <2> DEFINE Raised(j, l) == {[at |-> <<j, l, a>>, sequence |-> right[j].sequence,
                                 evidence |-> <<new[l].source, a>>] :
                                    a \in UsesForbidden(right[j], new[l])}
    <2>7. f \in Raised(i, k)
      BY <2>4, <2>5, <2>6
    <2>8. ForbiddenFindings(right, new) =
            UNION {Raised(j, l) : j \in DOMAIN right, l \in DOMAIN new}
      BY DEF ForbiddenFindings
    <2> HIDE DEF Raised
    <2>9. f \in ForbiddenFindings(right, new)
      BY <2>4, <2>5, <2>7, <2>8
    <2> QED
      BY <1>2, <1>4, <1>8, <2>9
  <1> QED
    BY <1>6, <1>7, <1>8 DEF RuleCode

LEMMA IDsGrow ==
    ASSUME NEW before, NEW after, NEW id \in IDs(after) \ IDs(before)
    PROVE  \E f \in after : /\ f.sequence = id.sequence /\ f.evidence = id.evidence
                            /\ f \notin before
  <1>1. PICK f \in after : id = [sequence |-> f.sequence, evidence |-> f.evidence]
    BY DEF IDs
  <1>2. f \notin before
    BY <1>1 DEF IDs
  <1> QED
    BY <1>1, <1>2

\* A finding that only the first of two runs has is at a cue that differs, overlaps with
\* one, is a duration judged by another range, or about a term the other has not.
LEMMA OnlyThere ==
    ASSUME NEW left \in Seq(Cue), NEW right \in Seq(Cue), Numbered(left),
           NEW before, NEW after, NEW old, NEW new,
           NEW rule \in RuleCode \ {"EMPTY_REVISION"},
           NEW id \in IDs(Validate(left, before, old)[rule])
                      \ IDs(Validate(right, after, new)[rule])
    PROVE  \/ Differs(left, right, id.sequence)
           \/ rule = "CUE_OVERLAP" /\ Differs(left, right, id.sequence - 1)
           \/ rule = "DISPLAY_DURATION" /\ before # after
           \/ rule \in TermRule /\ ~Keeps(old, new, id.evidence[1])
  <1>1. PICK f \in Validate(left, before, old)[rule] :
           /\ f.sequence = id.sequence /\ f.evidence = id.evidence
           /\ f \notin Validate(right, after, new)[rule]
    BY IDsGrow
  <1> QED
    BY <1>1, FindingShared

\* An older glossary is the beginning of a newer one.
LEMMA GlossariesAre ==
    ASSUME TypeOK, NEW v \in Nat, v <= Len(terms)
    PROVE  DOMAIN TermsAt(v) = 1..v /\ \A k \in 1..v : TermsAt(v)[k] = terms[k]
  BY DEF TypeOK, TermsAt

\* What two runs of numbered revisions do not have in common is at a cue the diff of the
\* two names, or is an overlap with such a cue, or a duration judged by another range; or
\* it is a finding of the later revision about a term that was added between the two.
\* For any lists of cues, any glossary and any ranges (history_queries.go
\* CompareValidationRuns, revisions.go Validate, cue.go DiffCues).
THEOREM DiffAccounts == Spec => []DiffExplainsComparison
  <1>1. TypeOK => DiffExplainsComparison
    <2> SUFFICES ASSUME TypeOK, NEW p \in DOMAIN revisions, NEW q \in DOMAIN revisions,
                        NEW before \in Limits, NEW after \in Limits, p <= q,
                        Numbered(revisions[p].cues), Numbered(revisions[q].cues),
                        NEW rule \in RuleCode \ {"EMPTY_REVISION"}
                 PROVE  LET left  == revisions[p]
                            right == revisions[q]
                            touched  == {c.sequence : c \in DiffCues(left.cues, right.cues)}
                            compared == Compare(RunOf(left, before), RunOf(right, after))
                            Explained(f) ==
                                \/ f.sequence \in touched
                                \/ rule = "CUE_OVERLAP" /\ f.sequence - 1 \in touched
                                \/ rule = "DISPLAY_DURATION" /\ before # after
                            OfNewTerm(f) ==
                                /\ rule \in TermRule
                                /\ \E k \in (left.glossary + 1)..right.glossary :
                                      terms[k].source = f.evidence[1]
                        IN  /\ \A f \in compared.added[rule] : Explained(f) \/ OfNewTerm(f)
                            /\ \A f \in compared.disappeared[rule] : Explained(f)
      BY DEF DiffExplainsComparison, TermRule
    <2>1. PICK left \in Seq(Cue) : left = revisions[p].cues /\ Numbered(left)
      BY RevisionIs
    <2>2. PICK right \in Seq(Cue) : right = revisions[q].cues /\ Numbered(right)
      BY RevisionIs
    <2>3. PICK m \in Nat : m = revisions[p].glossary /\ m <= Len(terms)
      BY RevisionIs
    <2>4. PICK n \in Nat : n = revisions[q].glossary /\ n <= Len(terms) /\ m <= n
      <3>1. p \in 1..q
        BY DEF TypeOK
      <3>2. revisions[p].glossary <= revisions[q].glossary
        BY <3>1 DEF TypeOK
      <3> QED
        BY <2>3, <3>2, RevisionIs
    <2>5. PICK old : /\ old = TermsAt(m)
                     /\ DOMAIN old = 1..m /\ \A k \in 1..m : old[k] = terms[k]
      BY <2>3, GlossariesAre
    <2>6. PICK new : /\ new = TermsAt(n)
                     /\ DOMAIN new = 1..n /\ \A k \in 1..n : new[k] = terms[k]
      BY <2>4, GlossariesAre
    <2>7. PICK touched : touched = {c.sequence : c \in DiffCues(left, right)}
      OBVIOUS
    <2>8. ASSUME NEW s, Differs(left, right, s) \/ Differs(right, left, s)
          PROVE  s \in touched
      <3>1. Differs(left, right, s)
        BY <2>8 DEF Differs
      <3>2. PICK c : c = Change(left, right, s)
        OBVIOUS
      <3>3. c \in DiffCues(left, right) /\ c.sequence = s
        BY <2>1, <2>2, <3>1, <3>2, DiffIs, ChangeIs
      <3> QED
        BY <2>7, <3>3
    <2>9. ASSUME NEW f \in IDs(Validate(right, after, new)[rule])
                           \ IDs(Validate(left, before, old)[rule])
          PROVE  \/ f.sequence \in touched
                 \/ rule = "CUE_OVERLAP" /\ f.sequence - 1 \in touched
                 \/ rule = "DISPLAY_DURATION" /\ before # after
                 \/ /\ rule \in TermRule
                    /\ \E k \in (m + 1)..n : terms[k].source = f.evidence[1]
      <3>1. \/ Differs(right, left, f.sequence)
            \/ rule = "CUE_OVERLAP" /\ Differs(right, left, f.sequence - 1)
            \/ rule = "DISPLAY_DURATION" /\ after # before
            \/ rule \in TermRule /\ ~Keeps(new, old, f.evidence[1])
        BY <2>2, OnlyThere, Zenon
      <3>2. ASSUME ~Keeps(new, old, f.evidence[1])
            PROVE  \E k \in (m + 1)..n : terms[k].source = f.evidence[1]
        <4>1. PICK k \in 1..n : /\ terms[k].source = f.evidence[1]
                                /\ ~(k \in 1..m /\ old[k] = terms[k])
          BY <2>5, <2>6, <3>2 DEF Keeps
        <4>2. k \in (m + 1)..n
          BY <2>5, <4>1
        <4> QED
          BY <4>1, <4>2
      <3> QED
        BY <2>8, <3>1, <3>2
    <2>10. ASSUME NEW f \in IDs(Validate(left, before, old)[rule])
                            \ IDs(Validate(right, after, new)[rule])
          PROVE  \/ f.sequence \in touched
                 \/ rule = "CUE_OVERLAP" /\ f.sequence - 1 \in touched
                 \/ rule = "DISPLAY_DURATION" /\ before # after
      <3>1. \/ Differs(left, right, f.sequence)
            \/ rule = "CUE_OVERLAP" /\ Differs(left, right, f.sequence - 1)
            \/ rule = "DISPLAY_DURATION" /\ before # after
            \/ rule \in TermRule /\ ~Keeps(old, new, f.evidence[1])
        BY <2>1, OnlyThere, Zenon
      <3>2. Keeps(old, new, f.evidence[1])
        <4>1. 1..m \subseteq 1..n
          BY <2>4
        <4> QED
          BY <2>5, <2>6, <4>1 DEF Keeps
      <3> QED
        BY <2>8, <3>1, <3>2
    <2>11. PICK compared : compared = Compare(RunOf(revisions[p], before),
                                              RunOf(revisions[q], after))
      OBVIOUS
    <2>12. /\ compared.added[rule] = IDs(Validate(right, after, new)[rule])
                                     \ IDs(Validate(left, before, old)[rule])
           /\ compared.disappeared[rule] = IDs(Validate(left, before, old)[rule])
                                           \ IDs(Validate(right, after, new)[rule])
      BY <2>1, <2>2, <2>3, <2>4, <2>5, <2>6, <2>11 DEF Compare, RunOf
    <2> QED
      BY <2>1, <2>2, <2>3, <2>4, <2>7, <2>9, <2>10, <2>11, <2>12
  <1> QED
    BY <1>1, TypeCorrect, PTL

============================================================================
