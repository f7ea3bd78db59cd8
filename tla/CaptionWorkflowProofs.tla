----------------------- MODULE CaptionWorkflowProofs -----------------------
(***************************************************************************)
(* Theorems about CaptionWorkflow, for every value of its constants.       *)
(***************************************************************************)
EXTENDS CaptionWorkflow, SequenceTheorems, FiniteSetTheorems, TLAPS

-----------------------------------------------------------------------------
(* The inductive invariant.  A verdict is kept by the status, and the verdict *)
(* depends on three things that must therefore stand still: the content of    *)
(* the current revision, the rules, and the terms of the glossary version the *)
(* revision was submitted with.                                               *)

\* Versions only exist up to the current one, so a new version of the glossary
\* never touches what an older revision was or will be inspected against.
GlossaryInv ==
    /\ \A t \in terms : t.version <= glossaryVersion
    /\ \A r \in DOMAIN revisions : revisions[r].glossaryVersion <= glossaryVersion

\* Each run is filed under its own number and revision.
HistoryInv ==
    /\ \A r \in DOMAIN validationRuns : \A i \in DOMAIN validationRuns[r] :
          /\ validationRuns[r][i].id = i
          /\ validationRuns[r][i].revision = r
          /\ validationRuns[r][i].glossaryVersion = revisions[r].glossaryVersion
    /\ ValidRunIsLastOfHistory

\* The current revision has a valid run made under the present rules.
RunUnderRules ==
    /\ currentRevision \in DOMAIN validations
    /\ validations[currentRevision].rules = rules

NoFindingEver ==
    currentRevision # 0 =>
        \A i \in DOMAIN validationRuns[currentRevision] :
            validationRuns[currentRevision][i].findings = <<>>

\* What each status says about the verdict.
VerdictInv ==
    /\ status = "draft" /\ currentRevision # 0 =>
          validationRuns[currentRevision] = <<>>
    /\ status = "needs_fix" => RunUnderRules /\ Inspection(currentRevision) # <<>>
    /\ status \in {"validated", "in_review", "approved", "frozen"} =>
          RunUnderRules /\ Inspection(currentRevision) = <<>>
    /\ status = "returned" => currentRevision # 0
    /\ status # "needs_fix" => NoFindingEver

\* What holds from SubmitForReview on, and what the last decision was.
ReviewInv ==
    /\ status \in {"in_review", "approved", "frozen"} =>
          revisions[currentRevision].glossaryVersion = glossaryVersion
    /\ status \in {"approved", "frozen"} =>
          /\ reviews # <<>>
          /\ LET last == reviews[Len(reviews)] IN
               /\ last.revision = currentRevision
               /\ last.decision = "approve"
               /\ last.reviewer # revisions[currentRevision].submittedBy

ManifestInv ==
    IF status = "frozen" THEN manifest = NewManifest(Len(reviews))
                         ELSE manifest = NoManifest

IInv ==
    TypeOK /\ GlossaryInv /\ HistoryInv /\ VerdictInv /\ ReviewInv /\ ManifestInv

-----------------------------------------------------------------------------
(* Lemmas about the operators *)

\* A function on 1..n is a sequence of length n.
LEMMA FunctionIsSeq ==
    ASSUME NEW S, NEW n \in Nat, NEW f \in [1..n -> S]
    PROVE  f \in Seq(S) /\ Len(f) = n
  OBVIOUS

\* The terms of any glossary version are terms.
LEMMA TermsAtType ==
    ASSUME TypeOK, NEW v
    PROVE  TermsAt(v) \in SUBSET TermID
  BY DEF TypeOK, TermsAt

\* What the engine reports is a list of findings, all of them open.
LEMMA InspectionProperties ==
    ASSUME TypeOK, NEW r \in DOMAIN revisions
    PROVE  /\ Inspection(r) \in Seq(Finding)
           /\ \A i \in DOMAIN Inspection(r) : Inspection(r)[i].open
  <1> DEFINE ids == Findings(revisions[r].content, rules,
                             TermsAt(revisions[r].glossaryVersion))
  <1>1. revisions[r] \in Revision
    BY DEF TypeOK
  <1>2. ids \in Seq(FindingID)
    BY <1>1, TermsAtType, FindingsAssumption DEF TypeOK, Revision
  <1>3. Inspection(r) \in [1..Len(ids) -> Finding]
    BY <1>2 DEF Inspection, Finding
  <1>4. \A i \in DOMAIN Inspection(r) : Inspection(r)[i].open
    BY DEF Inspection
  <1> QED
    BY <1>2, <1>3, <1>4, FunctionIsSeq

\* A new run is a run, and it blocks exactly when the engine found something.
LEMMA NewRunProperties ==
    ASSUME TypeOK, NEW r \in DOMAIN revisions
    PROVE  /\ NewRun(r) \in Run
           /\ NewRun(r).findings = Inspection(r)
           /\ HasBlocking(NewRun(r)) <=> Inspection(r) # <<>>
  <1>1. /\ r \in Nat \ {0}
        /\ rules \in Rule
        /\ revisions[r] \in Revision
        /\ Len(validationRuns[r]) \in Nat
    BY DEF TypeOK
  <1>2. NewRun(r) \in Run
    <2>1. revisions[r].glossaryVersion \in Nat
      BY <1>1 DEF Revision
    <2>2. Inspection(r) \in Seq(Finding)
      BY InspectionProperties
    <2> QED
      BY <1>1, <2>1, <2>2 DEF NewRun, Run
  <1>3. NewRun(r).findings = Inspection(r)
    BY DEF NewRun
  <1>4. HasBlocking(NewRun(r)) <=> Inspection(r) # <<>>
    BY <1>3, InspectionProperties, EmptySeq DEF HasBlocking
  <1> QED
    BY <1>2, <1>3, <1>4

\* Storing a run of an existing revision keeps the map of valid runs well formed.
LEMMA PutRunType ==
    ASSUME TypeOK, NEW r \in DOMAIN revisions, NEW run \in Run
    PROVE  /\ DOMAIN Put(validations, r, run) \subseteq DOMAIN revisions
           /\ \A x \in DOMAIN Put(validations, r, run) :
                 Put(validations, r, run)[x] \in Run
  BY DEF TypeOK, Put

\* Closing findings changes nothing of a run but their openness.
LEMMA ClosedProperties ==
    ASSUME NEW run \in Run, NEW positions
    PROVE  /\ Closed(run, positions) \in Run
           /\ Closed(run, positions).id = run.id
           /\ Closed(run, positions).revision = run.revision
           /\ Closed(run, positions).rules = run.rules
           /\ Closed(run, positions).glossaryVersion = run.glossaryVersion
  <1> DEFINE fs == [i \in DOMAIN run.findings |->
                     IF i \in positions THEN [run.findings[i] EXCEPT !.open = FALSE]
                                        ELSE run.findings[i]]
  <1>1. run.findings \in Seq(Finding)
    BY DEF Run
  <1>2. fs \in [1..Len(run.findings) -> Finding] /\ Len(run.findings) \in Nat
    BY <1>1, LenProperties DEF Finding
  <1>3. fs \in Seq(Finding)
    BY <1>2, FunctionIsSeq
  <1>4. Closed(run, positions) = [run EXCEPT !.findings = fs]
    BY DEF Closed
  <1> HIDE DEF fs
  <1> QED
    BY <1>3, <1>4 DEF Run

\* Every command moves the version within its bound and remembers its key.
LEMMA CommandType ==
    ASSUME TypeOK, NEW op \in Operation, NEW key \in Key, NEW expected,
           Command(op, key, expected)
    PROVE  version' \in 1..MaxVersion /\ idempotency' \subseteq Operation \X Key
  BY BoundAssumption DEF TypeOK, Command, Remembered, Touch

-----------------------------------------------------------------------------
(* Type correctness, one lemma per kind of step *)

\* A new glossary version holds terms only.
LEMMA GlossaryTypeStep ==
    ASSUME TypeOK, NEW added \in SUBSET TermID, AddGlossaryVersion(added)
    PROVE  glossaryVersion' \in Nat /\ terms' \subseteq [id : TermID, version : Nat]
  <1>1. glossaryVersion \in Nat /\ terms \subseteq [id : TermID, version : Nat]
    BY DEF TypeOK
  <1>2. CurrentTerms \in SUBSET TermID
    BY TermsAtType DEF CurrentTerms
  <1> QED
    BY <1>1, <1>2 DEF AddGlossaryVersion

LEMMA AddTermType ==
    ASSUME TypeOK, NEW key \in Key, NEW expected, NEW term \in TermID,
           AddTerm(key, expected, term)
    PROVE  TypeOK'
  <1>1. version' \in 1..MaxVersion /\ idempotency' \subseteq Operation \X Key
    BY CommandType DEF AddTerm, Operation
  <1>2. glossaryVersion' \in Nat /\ terms' \subseteq [id : TermID, version : Nat]
    BY GlossaryTypeStep DEF AddTerm
  <1> QED
    BY <1>1, <1>2 DEF AddTerm, TypeOK

LEMMA ImportGlossaryType ==
    ASSUME TypeOK, NEW key \in Key, NEW expected, NEW batch \in SUBSET TermID,
           ImportGlossary(key, expected, batch)
    PROVE  TypeOK'
  <1>1. version' \in 1..MaxVersion /\ idempotency' \subseteq Operation \X Key
    BY CommandType DEF ImportGlossary, Operation
  <1>2. glossaryVersion' \in Nat /\ terms' \subseteq [id : TermID, version : Nat]
    BY GlossaryTypeStep DEF ImportGlossary
  <1> QED
    BY <1>1, <1>2 DEF ImportGlossary, TypeOK

LEMMA UpdateProjectRulesType ==
    ASSUME TypeOK, NEW key \in Key, NEW expected, NEW r \in Rule,
           UpdateProjectRules(key, expected, r)
    PROVE  TypeOK'
  <1>1. version' \in 1..MaxVersion /\ idempotency' \subseteq Operation \X Key
    BY CommandType DEF UpdateProjectRules, Operation
  <1>2. /\ DOMAIN validations' \subseteq DOMAIN revisions'
        /\ \A x \in DOMAIN validations' : validations'[x] \in Run
    BY DEF UpdateProjectRules, Delete, TypeOK
  <1> QED
    BY <1>1, <1>2 DEF UpdateProjectRules, TypeOK

LEMMA SubmitRevisionType ==
    ASSUME TypeOK, NEW key \in Key, NEW expected, NEW parent,
           NEW p \in Person, NEW c \in Content,
           SubmitRevision(key, expected, parent, p, c)
    PROVE  TypeOK'
  <1>1. version' \in 1..MaxVersion /\ idempotency' \subseteq Operation \X Key
    BY CommandType DEF SubmitRevision, Operation
  <1> DEFINE r == [parent |-> currentRevision, submittedBy |-> p,
                   glossaryVersion |-> glossaryVersion, content |-> c]
  <1>2. r \in Revision
    BY DEF TypeOK, Revision
  <1>3. /\ revisions' \in Seq(Revision)
        /\ Len(revisions') = Len(revisions) + 1
    <2>1. revisions \in Seq(Revision) /\ revisions' = Append(revisions, r)
      BY DEF TypeOK, SubmitRevision
    <2> QED
      BY <1>2, <2>1, AppendProperties
  <1>4. /\ validationRuns' \in Seq(Seq(Run))
        /\ Len(validationRuns') = Len(validationRuns) + 1
    <2>1. /\ validationRuns \in Seq(Seq(Run)) /\ <<>> \in Seq(Run)
          /\ validationRuns' = Append(validationRuns, <<>>)
      BY EmptySeq DEF TypeOK, SubmitRevision
    <2> QED
      BY <2>1, AppendProperties
  <1>5. DOMAIN revisions \subseteq DOMAIN revisions'
    BY <1>3 DEF TypeOK
  <1>6. currentRevision' \in 0..Len(revisions')
    BY <1>3 DEF TypeOK, SubmitRevision
  <1> QED
    BY <1>1, <1>3, <1>4, <1>5, <1>6 DEF SubmitRevision, TypeOK, Status

LEMMA ValidateType ==
    ASSUME TypeOK, NEW key \in Key, NEW expected, Validate(key, expected)
    PROVE  TypeOK'
  <1> DEFINE r == currentRevision
             run == NewRun(r)
  <1>1. version' \in 1..MaxVersion /\ idempotency' \subseteq Operation \X Key
    BY CommandType DEF Validate, Operation
  <1>2. r \in DOMAIN revisions /\ r \in DOMAIN validationRuns
    BY DEF Validate, CanValidate, TypeOK
  <1>3. run \in Run
    BY <1>2, NewRunProperties
  <1>4. /\ DOMAIN validations' \subseteq DOMAIN revisions'
        /\ \A x \in DOMAIN validations' : validations'[x] \in Run
    <2>1. /\ validations' = Put(validations, r, run)
          /\ revisions' = revisions
      BY DEF Validate
    <2> QED
      BY <1>2, <1>3, <2>1, PutRunType
  <1>5. /\ validationRuns' \in Seq(Seq(Run))
        /\ Len(validationRuns') = Len(validationRuns)
    <2>1. validationRuns \in Seq(Seq(Run)) /\ validationRuns[r] \in Seq(Run)
      BY <1>2 DEF TypeOK
    <2>2. Append(validationRuns[r], run) \in Seq(Run)
      BY <1>3, <2>1, AppendProperties
    <2>3. validationRuns' = [validationRuns EXCEPT ![r] = Append(validationRuns[r], run)]
      BY DEF Validate
    <2> QED
      BY <1>2, <2>1, <2>2, <2>3, ExceptSeq
  <1> QED
    BY <1>1, <1>4, <1>5 DEF Validate, TypeOK, Status

LEMMA CloseFindingsType ==
    ASSUME TypeOK, currentRevision \in DOMAIN validations,
           validations[currentRevision].revision = currentRevision,
           NEW positions, CloseFindings(positions)
    PROVE  /\ DOMAIN validations' \subseteq DOMAIN revisions'
           /\ \A x \in DOMAIN validations' : validations'[x] \in Run
           /\ validationRuns' \in Seq(Seq(Run))
           /\ Len(validationRuns') = Len(validationRuns)
  <1> DEFINE r == currentRevision
             closed == Closed(validations[r], positions)
             runs == [i \in DOMAIN validationRuns[r] |->
                        IF validationRuns[r][i].id = closed.id
                        THEN closed ELSE validationRuns[r][i]]
  <1>1. validations[r] \in Run /\ r \in DOMAIN revisions /\ r \in DOMAIN validationRuns
    BY DEF TypeOK
  <1>2. closed \in Run /\ closed.revision = r
    BY <1>1, ClosedProperties
  <1>3. /\ validations' = Put(validations, r, closed)
        /\ validationRuns' = [validationRuns EXCEPT ![r] = runs]
        /\ revisions' = revisions
    BY <1>2 DEF CloseFindings, UpdatedHistory
  <1>4. runs \in Seq(Run)
    <2>1. validationRuns[r] \in Seq(Run)
      BY <1>1 DEF TypeOK
    <2>2. runs \in [1..Len(validationRuns[r]) -> Run] /\ Len(validationRuns[r]) \in Nat
      BY <1>2, <2>1, LenProperties
    <2> QED
      BY <2>2, FunctionIsSeq
  <1>5. /\ validationRuns' \in Seq(Seq(Run))
        /\ Len(validationRuns') = Len(validationRuns)
    <2>1. validationRuns \in Seq(Seq(Run))
      BY DEF TypeOK
    <2> HIDE DEF runs
    <2> QED
      BY <1>1, <1>3, <1>4, <2>1, ExceptSeq
  <1> HIDE DEF closed
  <1>6. /\ DOMAIN validations' \subseteq DOMAIN revisions'
        /\ \A x \in DOMAIN validations' : validations'[x] \in Run
    BY <1>1, <1>2, <1>3, PutRunType
  <1> QED
    BY <1>5, <1>6

LEMMA ResolveFindingType ==
    ASSUME TypeOK, NEW key \in Key, NEW expected, NEW id \in FindingID,
           ResolveFinding(key, expected, id)
    PROVE  TypeOK'
  <1>1. version' \in 1..MaxVersion /\ idempotency' \subseteq Operation \X Key
    BY CommandType DEF ResolveFinding, Operation
  <1>2. PICK positions : CloseFindings(positions)
    BY DEF ResolveFinding
  <1>3. /\ DOMAIN validations' \subseteq DOMAIN revisions'
        /\ \A x \in DOMAIN validations' : validations'[x] \in Run
        /\ validationRuns' \in Seq(Seq(Run))
        /\ Len(validationRuns') = Len(validationRuns)
    BY <1>2, CloseFindingsType DEF ResolveFinding, CanResolve, CurrentRunIsFresh
  <1> QED
    BY <1>1, <1>2, <1>3 DEF CloseFindings, TypeOK

LEMMA ResolveFindingsType ==
    ASSUME TypeOK, NEW key \in Key, NEW expected, NEW ids \in SUBSET FindingID,
           ResolveFindings(key, expected, ids)
    PROVE  TypeOK'
  <1>1. version' \in 1..MaxVersion /\ idempotency' \subseteq Operation \X Key
    BY CommandType DEF ResolveFindings, Operation
  <1>2. PICK positions : CloseFindings(positions)
    BY DEF ResolveFindings
  <1>3. /\ DOMAIN validations' \subseteq DOMAIN revisions'
        /\ \A x \in DOMAIN validations' : validations'[x] \in Run
        /\ validationRuns' \in Seq(Seq(Run))
        /\ Len(validationRuns') = Len(validationRuns)
    BY <1>2, CloseFindingsType DEF ResolveFindings, CanResolve, CurrentRunIsFresh
  <1> QED
    BY <1>1, <1>2, <1>3 DEF CloseFindings, TypeOK

LEMMA SubmitForReviewType ==
    ASSUME TypeOK, NEW key \in Key, NEW expected, SubmitForReview(key, expected)
    PROVE  TypeOK'
  <1>1. version' \in 1..MaxVersion /\ idempotency' \subseteq Operation \X Key
    BY CommandType DEF SubmitForReview, Operation
  <1> QED
    BY <1>1 DEF SubmitForReview, evidenceVars, TypeOK, Status

LEMMA ReviewRevisionType ==
    ASSUME TypeOK, NEW key \in Key, NEW expected, NEW p \in Person,
           NEW d \in {"approve", "return"}, ReviewRevision(key, expected, p, d)
    PROVE  TypeOK'
  <1> DEFINE decision == [revision |-> currentRevision, reviewer |-> p, decision |-> d]
  <1>1. version' \in 1..MaxVersion /\ idempotency' \subseteq Operation \X Key
    BY CommandType DEF ReviewRevision, Operation
  <1>2. reviews \in Seq(Review) /\ reviews' = Append(reviews, decision)
    BY DEF TypeOK, ReviewRevision
  <1>3. decision \in Review
    BY DEF TypeOK, ReviewRevision, Review
  <1>4. reviews' \in Seq(Review)
    BY <1>2, <1>3, AppendProperties
  <1> QED
    BY <1>1, <1>4 DEF ReviewRevision, TypeOK, Status

LEMMA FreezeType ==
    ASSUME TypeOK, NEW key \in Key, NEW expected, NEW d, Freeze(key, expected, d)
    PROVE  TypeOK'
  <1>1. version' \in 1..MaxVersion /\ idempotency' \subseteq Operation \X Key
    BY CommandType DEF Freeze, Operation
  <1>2. d \in Nat \ {0} /\ currentRevision \in DOMAIN revisions
    BY DEF Freeze, EvidenceForFreeze, IsLatestReview, TypeOK
  <1>3. revisions[currentRevision] \in Revision
    BY <1>2 DEF TypeOK
  <1>4. NewManifest(d) \in Manifest
    BY <1>2, <1>3, TermsAtType DEF NewManifest, Manifest, Revision, TypeOK
  <1> QED
    BY <1>1, <1>4 DEF Freeze, TypeOK, Status

LEMMA InitType == Init => TypeOK
  <1> SUFFICES ASSUME Init PROVE TypeOK
    OBVIOUS
  <1>1. /\ revisions \in Seq(Revision) /\ reviews \in Seq(Review)
        /\ validationRuns \in Seq(Seq(Run))
        /\ Len(revisions) = 0 /\ Len(validationRuns) = 0
    BY EmptySeq DEF Init
  <1> QED
    BY <1>1, BoundAssumption DEF Init, TypeOK, Status

LEMMA NextType == TypeOK /\ [Next]_vars => TypeOK'
  <1> SUFFICES ASSUME TypeOK, [Next]_vars PROVE TypeOK'
    OBVIOUS
  <1>1. CASE UNCHANGED vars
    BY <1>1 DEF vars, projectVars, evidenceVars, TypeOK
  <1>2. CASE Next
    <2>1. PICK key \in Key, expected \in 1..MaxVersion :
            \/ \E t \in TermID : AddTerm(key, expected, t)
            \/ \E batch \in SUBSET TermID : ImportGlossary(key, expected, batch)
            \/ \E r \in Rule : UpdateProjectRules(key, expected, r)
            \/ \E parent \in 0..Len(revisions), p \in Person, c \in Content :
                  SubmitRevision(key, expected, parent, p, c)
            \/ Validate(key, expected)
            \/ \E id \in FindingID : ResolveFinding(key, expected, id)
            \/ \E ids \in SUBSET FindingID : ResolveFindings(key, expected, ids)
            \/ SubmitForReview(key, expected)
            \/ \E p \in Person, d \in {"approve", "return"} :
                  ReviewRevision(key, expected, p, d)
            \/ \E d \in DOMAIN reviews : Freeze(key, expected, d)
      BY <1>2 DEF Next
    <2> QED
      BY <2>1, AddTermType, ImportGlossaryType, UpdateProjectRulesType,
         SubmitRevisionType, ValidateType, ResolveFindingType, ResolveFindingsType,
         SubmitForReviewType, ReviewRevisionType, FreezeType
  <1> QED
    BY <1>1, <1>2

\* The snapshot is always well formed: every identifier a record carries names a
\* record that exists, whatever commands were accepted (store.Snapshot as the
\* commands of internal/application write it).
THEOREM TypeCorrect == Spec => []TypeOK
  BY InitType, NextType, PTL DEF Spec

-----------------------------------------------------------------------------
(* The inductive invariant *)

LEMMA RevisionType ==
    ASSUME TypeOK, NEW r \in DOMAIN revisions
    PROVE  revisions[r] \in Revision /\ revisions[r].glossaryVersion \in Nat
  <1>1. revisions[r] \in Revision
    BY DEF TypeOK
  <1> QED
    BY <1>1 DEF Revision

\* A step that keeps a revision, the rules and the terms the revision was
\* submitted with keeps what the engine finds in it.
LEMMA InspectionStable ==
    ASSUME NEW r, revisions'[r] = revisions[r], rules' = rules,
           TermsAt(revisions[r].glossaryVersion)' = TermsAt(revisions[r].glossaryVersion)
    PROVE  Inspection(r)' = Inspection(r)
  BY DEF Inspection, TermsAt

\* A new glossary version leaves every existing version as it is.
LEMMA OldTermsStay ==
    ASSUME TypeOK, NEW added, AddGlossaryVersion(added),
           NEW v \in Nat, v <= glossaryVersion
    PROVE  TermsAt(v)' = TermsAt(v)
  <1> DEFINE new == [id : CurrentTerms \cup added, version : {glossaryVersion + 1}]
  <1>1. terms' = terms \cup new /\ glossaryVersion \in Nat
    BY DEF AddGlossaryVersion, TypeOK
  <1>2. \A t \in new : t.version # v
    BY <1>1
  <1>3. {u \in terms' : u.version = v} = {u \in terms : u.version = v}
    BY <1>1, <1>2
  <1> QED
    BY <1>3 DEF TermsAt

LEMMA GlossaryStep ==
    ASSUME IInv, TypeOK', NEW added \in SUBSET TermID, AddGlossaryVersion(added),
           GlossaryMutable,
           UNCHANGED <<status, rules, currentRevision, revisions, validations,
                       validationRuns, reviews, manifest>>
    PROVE  IInv'
  <1> USE DEF IInv
  <1>1. GlossaryInv'
    <2>1. /\ glossaryVersion \in Nat /\ terms \subseteq [id : TermID, version : Nat]
          /\ \A r \in DOMAIN revisions : revisions[r].glossaryVersion \in Nat
      BY RevisionType DEF TypeOK
    <2>2. /\ glossaryVersion' = glossaryVersion + 1
          /\ \A t \in terms' : t \in terms \/ t.version = glossaryVersion + 1
      BY DEF AddGlossaryVersion
    <2>3. \A t \in terms : t.version \in Nat /\ t.version <= glossaryVersion
      BY <2>1 DEF GlossaryInv
    <2> QED
      BY <2>1, <2>2, <2>3 DEF GlossaryInv
  <1>2. HistoryInv'
    BY DEF HistoryInv, ValidRunIsLastOfHistory
  <1>3. currentRevision # 0 => Inspection(currentRevision)' = Inspection(currentRevision)
    <2> SUFFICES ASSUME currentRevision # 0
                 PROVE  Inspection(currentRevision)' = Inspection(currentRevision)
      OBVIOUS
    <2> DEFINE r == currentRevision
               v == revisions[r].glossaryVersion
    <2>1. r \in DOMAIN revisions /\ v \in Nat /\ v <= glossaryVersion
      <3>1. r \in DOMAIN revisions
        BY DEF TypeOK
      <3> QED
        BY <3>1, RevisionType DEF GlossaryInv
    <2>2. \A w \in Nat : w <= glossaryVersion => TermsAt(w)' = TermsAt(w)
      BY OldTermsStay
    <2>3. \A w : TermsAt(w)' = {t.id : t \in {u \in terms' : u.version = w}}
      BY DEF TermsAt
    <2>4. TermsAt(v)' = TermsAt(v)
      BY <2>1, <2>2, <2>3 DEF TermsAt
    <2> QED
      BY <2>4 DEF Inspection
  <1>4. VerdictInv'
    BY <1>3 DEF VerdictInv, RunUnderRules, NoFindingEver, TypeOK
  <1>5. ReviewInv' /\ ManifestInv'
    BY DEF ReviewInv, ManifestInv, GlossaryMutable
  <1> QED
    BY <1>1, <1>2, <1>4, <1>5

LEMMA UpdateProjectRulesStep ==
    ASSUME IInv, TypeOK', NEW key, NEW expected, NEW r \in Rule,
           UpdateProjectRules(key, expected, r)
    PROVE  IInv'
  <1> USE DEF IInv
  <1>1. GlossaryInv'
    BY DEF GlossaryInv, UpdateProjectRules
  <1>2. HistoryInv'
    BY DEF HistoryInv, ValidRunIsLastOfHistory, UpdateProjectRules, Delete
  <1>3. VerdictInv'
    BY DEF VerdictInv, NoFindingEver, UpdateProjectRules, RulesMutable
  <1>4. ReviewInv' /\ ManifestInv'
    BY DEF ReviewInv, ManifestInv, UpdateProjectRules, RulesMutable
  <1> QED
    BY <1>1, <1>2, <1>3, <1>4

LEMMA SubmitRevisionStep ==
    ASSUME IInv, TypeOK', NEW key, NEW expected, NEW parent,
           NEW p \in Person, NEW c \in Content,
           SubmitRevision(key, expected, parent, p, c)
    PROVE  IInv'
  <1> USE DEF IInv
  <1> DEFINE new == [parent |-> currentRevision, submittedBy |-> p,
                     glossaryVersion |-> glossaryVersion, content |-> c]
             n == Len(revisions) + 1
  <1>1. /\ new \in Revision /\ revisions \in Seq(Revision)
        /\ revisions' = Append(revisions, new)
    BY DEF TypeOK, SubmitRevision, Revision
  <1>2. /\ DOMAIN revisions' = DOMAIN revisions \cup {n}
        /\ \A r \in DOMAIN revisions : revisions'[r] = revisions[r]
        /\ revisions'[n] = new
    BY <1>1, AppendProperties, LenProperties
  <1>3. /\ DOMAIN validationRuns' = DOMAIN validationRuns \cup {n}
        /\ \A r \in DOMAIN validationRuns : validationRuns'[r] = validationRuns[r]
        /\ validationRuns'[n] = <<>>
    <2>1. /\ validationRuns \in Seq(Seq(Run)) /\ <<>> \in Seq(Run)
          /\ Len(validationRuns) = Len(revisions)
          /\ validationRuns' = Append(validationRuns, <<>>)
      BY EmptySeq DEF TypeOK, SubmitRevision
    <2> QED
      BY <2>1, AppendProperties, LenProperties
  <1>4. DOMAIN revisions = DOMAIN validationRuns /\ n \notin DOMAIN revisions
    BY DEF TypeOK
  <1>5. GlossaryInv'
    BY <1>2 DEF GlossaryInv, SubmitRevision, TypeOK
  <1>6. HistoryInv'
    BY <1>2, <1>3, <1>4 DEF HistoryInv, ValidRunIsLastOfHistory, SubmitRevision, TypeOK
  <1>7. VerdictInv'
    BY <1>3 DEF VerdictInv, NoFindingEver, SubmitRevision
  <1>8. ReviewInv' /\ ManifestInv'
    BY DEF ReviewInv, ManifestInv, SubmitRevision, CanSubmitRevision
  <1> QED
    BY <1>5, <1>6, <1>7, <1>8

LEMMA ValidateStep ==
    ASSUME IInv, TypeOK', NEW key, NEW expected, Validate(key, expected)
    PROVE  IInv'
  <1> DEFINE r == currentRevision
             run == NewRun(r)
             n == Len(validationRuns[r]) + 1
  <1>0. TypeOK /\ GlossaryInv /\ HistoryInv /\ VerdictInv /\ ReviewInv /\ ManifestInv
    BY DEF IInv
  <1>1. /\ r # 0 /\ r \in DOMAIN revisions
        /\ r \in DOMAIN validationRuns /\ validationRuns[r] \in Seq(Run)
    BY <1>0 DEF Validate, CanValidate, TypeOK
  <1>2. /\ run \in Run /\ run.findings = Inspection(r)
        /\ HasBlocking(run) <=> Inspection(r) # <<>>
        /\ run.id = n /\ run.revision = r /\ run.rules = rules
        /\ run.glossaryVersion = revisions[r].glossaryVersion
    BY <1>0, <1>1, NewRunProperties DEF NewRun
  <1>3. /\ DOMAIN validationRuns' = DOMAIN validationRuns
        /\ \A x \in DOMAIN validationRuns : x # r => validationRuns'[x] = validationRuns[x]
        /\ validationRuns'[r] = Append(validationRuns[r], run)
    BY <1>1 DEF Validate
  <1>4. /\ Len(validationRuns'[r]) = n /\ DOMAIN validationRuns'[r] = 1..n
        /\ n \in Nat \ {0} /\ validationRuns'[r] # <<>>
        /\ \A i \in 1..(n - 1) : /\ i \in DOMAIN validationRuns[r]
                                 /\ validationRuns'[r][i] = validationRuns[r][i]
        /\ validationRuns'[r][n] = run
    BY <1>1, <1>2, <1>3, AppendProperties, LenProperties
  <1>5. /\ DOMAIN validations' = DOMAIN validations \cup {r}
        /\ validations'[r] = run
        /\ \A x \in DOMAIN validations : x # r => validations'[x] = validations[x]
    <2>1. validations' = Put(validations, r, run)
      BY DEF Validate
    <2> QED
      BY <2>1 DEF Put
  <1>6. /\ UNCHANGED <<rules, currentRevision, glossaryVersion, terms, revisions,
                       reviews, manifest>>
        /\ status \notin {"frozen", "in_review", "approved"}
        /\ status' = IF HasBlocking(run) THEN "needs_fix" ELSE "validated"
    BY DEF Validate, CanValidate
  <1>7. Inspection(r)' = Inspection(r)
    BY <1>6 DEF Inspection, TermsAt
  <1> HIDE DEF r, run, n
  <1>8. GlossaryInv'
    BY <1>0, <1>6 DEF GlossaryInv
  <1>9. HistoryInv'
    <2>1. ASSUME NEW x \in DOMAIN validationRuns', NEW i \in DOMAIN validationRuns'[x]
          PROVE  /\ validationRuns'[x][i].id = i
                 /\ validationRuns'[x][i].revision = x
                 /\ validationRuns'[x][i].glossaryVersion = revisions'[x].glossaryVersion
      <3>1. CASE x = r /\ i = n
        BY <1>2, <1>4, <1>6, <3>1
      <3>2. CASE x = r /\ i # n
        BY <1>0, <1>1, <1>4, <1>6, <3>2 DEF HistoryInv
      <3>3. CASE x # r
        BY <1>0, <1>3, <1>6, <3>3 DEF HistoryInv
      <3> QED
        BY <3>1, <3>2, <3>3
    <2>2. ValidRunIsLastOfHistory'
      <3>1. \A x \in DOMAIN validations : x \in DOMAIN validationRuns
        BY <1>0 DEF TypeOK
      <3> QED
        BY <1>0, <1>3, <1>4, <1>5, <3>1 DEF HistoryInv, ValidRunIsLastOfHistory
    <2> QED
      BY <2>1, <2>2 DEF HistoryInv
  <1>10. VerdictInv'
    <2>1. RunUnderRules'
      BY <1>2, <1>5, <1>6 DEF RunUnderRules, r
    <2>2. CASE Inspection(r) # <<>>
      <3>1. status' = "needs_fix"
        BY <1>2, <1>6, <2>2
      <3> QED
        BY <1>7, <2>1, <2>2, <3>1 DEF VerdictInv, r
    <2>3. CASE Inspection(r) = <<>>
      <3>1. status' = "validated"
        BY <1>2, <1>6, <2>3
      <3>2. status # "needs_fix"
        BY <1>0, <2>3 DEF VerdictInv, r
      <3>3. \A i \in DOMAIN validationRuns[r] : validationRuns[r][i].findings = <<>>
        BY <1>0, <1>1, <3>2 DEF VerdictInv, NoFindingEver, r
      <3>4. \A i \in DOMAIN validationRuns'[r] : validationRuns'[r][i].findings = <<>>
        BY <1>2, <1>4, <2>3, <3>3
      <3>5. NoFindingEver'
        BY <1>6, <3>4 DEF NoFindingEver, r
      <3> QED
        BY <1>7, <2>1, <2>3, <3>1, <3>5 DEF VerdictInv, r
    <2> QED
      BY <2>2, <2>3
  <1>11. ReviewInv' /\ ManifestInv'
    BY <1>0, <1>6 DEF ReviewInv, ManifestInv
  <1> QED
    BY <1>8, <1>9, <1>10, <1>11 DEF IInv

LEMMA CloseFindingsStep ==
    ASSUME IInv, TypeOK', CanResolve, NEW positions, CloseFindings(positions)
    PROVE  IInv'
  <1> DEFINE r == currentRevision
             run == validations[r]
             closed == Closed(run, positions)
             n == Len(validationRuns[r])
  <1>0. TypeOK /\ GlossaryInv /\ HistoryInv /\ VerdictInv /\ ReviewInv /\ ManifestInv
    BY DEF IInv
  <1>1. /\ r \in DOMAIN validations /\ r \in DOMAIN validationRuns
        /\ run \in Run /\ validationRuns[r] \in Seq(Run)
        /\ status = "needs_fix"
    BY <1>0 DEF TypeOK, CanResolve, CurrentRunIsFresh
  <1>2. /\ run = validationRuns[r][n] /\ n \in DOMAIN validationRuns[r]
        /\ \A i \in DOMAIN validationRuns[r] : validationRuns[r][i].id = i
        /\ run.revision = r
        /\ run.glossaryVersion = revisions[r].glossaryVersion
    <2>1. validationRuns[r] # <<>> /\ run = validationRuns[r][n]
      BY <1>0, <1>1 DEF HistoryInv, ValidRunIsLastOfHistory
    <2>2. n \in DOMAIN validationRuns[r]
      BY <1>1, <2>1, EmptySeq, LenProperties
    <2> QED
      BY <1>0, <1>1, <2>1, <2>2 DEF HistoryInv
  <1>3. /\ closed.id = n /\ closed.revision = r /\ closed.rules = run.rules
        /\ closed.glossaryVersion = run.glossaryVersion
    BY <1>1, <1>2, ClosedProperties
  <1>4. /\ DOMAIN validationRuns' = DOMAIN validationRuns
        /\ \A x \in DOMAIN validationRuns : x # r => validationRuns'[x] = validationRuns[x]
        /\ validationRuns'[r] = [i \in DOMAIN validationRuns[r] |->
                                    IF validationRuns[r][i].id = closed.id
                                    THEN closed ELSE validationRuns[r][i]]
    BY <1>1, <1>3 DEF CloseFindings, UpdatedHistory
  <1>5. /\ DOMAIN validations' = DOMAIN validations \cup {r}
        /\ validations'[r] = closed
        /\ \A x \in DOMAIN validations : x # r => validations'[x] = validations[x]
    <2>1. validations' = Put(validations, r, closed)
      BY DEF CloseFindings
    <2> QED
      BY <2>1 DEF Put
  <1>6. UNCHANGED <<status, rules, currentRevision, glossaryVersion, terms,
                    revisions, reviews, manifest>>
    BY DEF CloseFindings
  <1>7. Inspection(r)' = Inspection(r)
    BY <1>6 DEF Inspection, TermsAt
  <1> HIDE DEF r, run, closed, n
  <1>8. GlossaryInv'
    BY <1>0, <1>6 DEF GlossaryInv
  <1>9. /\ DOMAIN validationRuns'[r] = DOMAIN validationRuns[r]
        /\ validationRuns'[r][n] = closed
        /\ \A i \in DOMAIN validationRuns[r] :
              i # n => validationRuns'[r][i] = validationRuns[r][i]
    BY <1>2, <1>3, <1>4
  <1>10. Len(validationRuns'[r]) = n /\ validationRuns'[r] # <<>>
    <2>1. validationRuns'[r] \in Seq(Run)
      <3>1. validationRuns' \in Seq(Seq(Run)) /\ r \in DOMAIN validationRuns'
        BY <1>1, <1>4 DEF TypeOK
      <3> QED
        BY <3>1, ElementOfSeq, LenProperties
    <2> DEFINE m == Len(validationRuns'[r])
    <2>2. m \in Nat /\ DOMAIN validationRuns'[r] = 1..m
      BY <2>1, LenProperties
    <2>3. DOMAIN validationRuns[r] = 1..n /\ n \in Nat
      BY <1>1, LenProperties DEF n
    <2> HIDE DEF m
    <2>4. n \in 1..m /\ 1..m = 1..n
      BY <1>2, <1>9, <2>2, <2>3
    <2>5. m \in 1..m
      BY <2>2, <2>4
    <2>6. m = n /\ m > 0
      BY <2>2, <2>3, <2>4, <2>5
    <2> QED
      BY <2>1, <2>6, EmptySeq DEF m
  <1>11. HistoryInv'
    <2>1. ASSUME NEW x \in DOMAIN validationRuns', NEW i \in DOMAIN validationRuns'[x]
          PROVE  /\ validationRuns'[x][i].id = i
                 /\ validationRuns'[x][i].revision = x
                 /\ validationRuns'[x][i].glossaryVersion = revisions'[x].glossaryVersion
      <3>1. CASE x = r /\ i = n
        BY <1>2, <1>3, <1>6, <1>9, <3>1
      <3>2. CASE x = r /\ i # n
        BY <1>0, <1>1, <1>6, <1>9, <3>2 DEF HistoryInv
      <3>3. CASE x # r
        BY <1>0, <1>4, <1>6, <3>3 DEF HistoryInv
      <3> QED
        BY <3>1, <3>2, <3>3
    <2>2. ValidRunIsLastOfHistory'
      <3>1. \A x \in DOMAIN validations : x \in DOMAIN validationRuns
        BY <1>0 DEF TypeOK
      <3> QED
        BY <1>0, <1>4, <1>5, <1>9, <1>10, <3>1 DEF HistoryInv, ValidRunIsLastOfHistory
    <2> QED
      BY <2>1, <2>2 DEF HistoryInv
  <1>12. VerdictInv'
    <2>1. RunUnderRules /\ Inspection(r) # <<>>
      BY <1>0, <1>1 DEF VerdictInv, r
    <2>2. RunUnderRules'
      BY <1>3, <1>5, <1>6, <2>1 DEF RunUnderRules, r, run
    <2> QED
      BY <1>1, <1>6, <1>7, <2>1, <2>2 DEF VerdictInv, r
  <1>13. ReviewInv' /\ ManifestInv'
    BY <1>0, <1>1, <1>6 DEF ReviewInv, ManifestInv
  <1> QED
    BY <1>8, <1>11, <1>12, <1>13 DEF IInv

\* A run that is fresh for SubmitForReview can only belong to a revision that was
\* submitted with the current glossary: Validate never takes a newer one.
LEMMA FreshRunIsOfSubmission ==
    ASSUME IInv, CurrentRunIsFresh
    PROVE  revisions[currentRevision].glossaryVersion = glossaryVersion
  <1> USE DEF IInv
  <1> DEFINE r == currentRevision
             n == Len(validationRuns[r])
  <1>1. /\ r \in DOMAIN validations /\ r \in DOMAIN validationRuns
        /\ validations[r].glossaryVersion = glossaryVersion
        /\ validationRuns[r] \in Seq(Run)
    BY DEF CurrentRunIsFresh, TypeOK
  <1>2. validationRuns[r] # <<>> /\ validations[r] = validationRuns[r][n]
    BY <1>1 DEF HistoryInv, ValidRunIsLastOfHistory
  <1>3. n \in DOMAIN validationRuns[r]
    BY <1>1, <1>2, EmptySeq, LenProperties
  <1> QED
    BY <1>1, <1>2, <1>3 DEF HistoryInv

LEMMA SubmitForReviewStep ==
    ASSUME IInv, TypeOK', NEW key, NEW expected, SubmitForReview(key, expected)
    PROVE  IInv'
  <1> USE DEF IInv
  <1>1. /\ status = "validated" /\ status' = "in_review"
        /\ UNCHANGED <<rules, currentRevision, glossaryVersion, terms, revisions,
                       validations, validationRuns, reviews, manifest>>
    BY DEF SubmitForReview, evidenceVars
  <1>2. revisions[currentRevision].glossaryVersion = glossaryVersion
    BY FreshRunIsOfSubmission DEF SubmitForReview
  <1>3. Inspection(currentRevision)' = Inspection(currentRevision)
    BY <1>1 DEF Inspection, TermsAt
  <1>4. GlossaryInv' /\ HistoryInv'
    BY <1>1 DEF GlossaryInv, HistoryInv, ValidRunIsLastOfHistory
  <1>5. VerdictInv'
    BY <1>1, <1>3 DEF VerdictInv, RunUnderRules, NoFindingEver
  <1>6. ReviewInv' /\ ManifestInv'
    BY <1>1, <1>2 DEF ReviewInv, ManifestInv
  <1> QED
    BY <1>4, <1>5, <1>6

LEMMA ReviewRevisionStep ==
    ASSUME IInv, TypeOK', NEW key, NEW expected, NEW p \in Person,
           NEW d \in {"approve", "return"}, ReviewRevision(key, expected, p, d)
    PROVE  IInv'
  <1> USE DEF IInv
  <1> DEFINE decision == [revision |-> currentRevision, reviewer |-> p, decision |-> d]
  <1>1. /\ status = "in_review" /\ currentRevision # 0
        /\ status' = IF d = "approve" THEN "approved" ELSE "returned"
        /\ UNCHANGED <<rules, currentRevision, glossaryVersion, terms, revisions,
                       validations, validationRuns, manifest>>
        /\ reviews' = Append(reviews, decision)
        /\ p # revisions[currentRevision].submittedBy
    BY DEF ReviewRevision, IsIndependent
  <1>2. reviews' # <<>> /\ reviews'[Len(reviews')] = decision
    <2>1. reviews \in Seq(Review) /\ decision \in Review
      BY <1>1 DEF TypeOK, Review
    <2> QED
      BY <1>1, <2>1, AppendProperties
  <1>3. Inspection(currentRevision)' = Inspection(currentRevision)
    BY <1>1 DEF Inspection, TermsAt
  <1>4. GlossaryInv' /\ HistoryInv'
    BY <1>1 DEF GlossaryInv, HistoryInv, ValidRunIsLastOfHistory
  <1>5. VerdictInv'
    BY <1>1, <1>3 DEF VerdictInv, RunUnderRules, NoFindingEver
  <1>6. ReviewInv' /\ ManifestInv'
    BY <1>1, <1>2 DEF ReviewInv, ManifestInv
  <1> QED
    BY <1>4, <1>5, <1>6

LEMMA FreezeStep ==
    ASSUME IInv, TypeOK', NEW key, NEW expected, NEW d, Freeze(key, expected, d)
    PROVE  IInv'
  <1> USE DEF IInv
  <1>1. /\ status = "approved" /\ status' = "frozen"
        /\ UNCHANGED <<rules, currentRevision, glossaryVersion, terms, revisions,
                       validations, validationRuns, reviews>>
        /\ manifest' = NewManifest(d)
        /\ IsLatestReview(d, currentRevision)
    BY DEF Freeze, EvidenceForFreeze
  <1>2. d = Len(reviews)
    <2>1. reviews # <<>> /\ reviews[Len(reviews)].revision = currentRevision
      BY <1>1 DEF ReviewInv
    <2>2. reviews \in Seq(Review) /\ d \in DOMAIN reviews
      BY <1>1 DEF TypeOK, IsLatestReview
    <2>3. Len(reviews) \in DOMAIN reviews /\ d \in 1..Len(reviews)
      BY <2>1, <2>2, EmptySeq, LenProperties
    <2> QED
      BY <1>1, <2>1, <2>3 DEF IsLatestReview
  <1>3. Inspection(currentRevision)' = Inspection(currentRevision)
    BY <1>1 DEF Inspection, TermsAt
  <1>4. GlossaryInv' /\ HistoryInv'
    BY <1>1 DEF GlossaryInv, HistoryInv, ValidRunIsLastOfHistory
  <1>5. VerdictInv'
    BY <1>1, <1>3 DEF VerdictInv, RunUnderRules, NoFindingEver
  <1>6. ReviewInv'
    BY <1>1 DEF ReviewInv
  <1>7. ManifestInv'
    BY <1>1, <1>2 DEF ManifestInv, NewManifest, TermsAt
  <1> QED
    BY <1>4, <1>5, <1>6, <1>7

LEMMA InitInv == Init => IInv
  <1> SUFFICES ASSUME Init PROVE IInv
    OBVIOUS
  <1>1. /\ DOMAIN revisions = {} /\ DOMAIN validationRuns = {}
        /\ DOMAIN validations = {}
    BY DEF Init
  <1> QED
    BY <1>1, InitType DEF Init, IInv, GlossaryInv, HistoryInv, ValidRunIsLastOfHistory,
       VerdictInv, NoFindingEver, ReviewInv, ManifestInv

LEMMA NextInv == IInv /\ [Next]_vars => IInv'
  <1> SUFFICES ASSUME IInv, [Next]_vars PROVE IInv'
    OBVIOUS
  <1>1. TypeOK'
    BY NextType DEF IInv
  <1>2. CASE UNCHANGED vars
    <2> USE <1>2 DEF vars, projectVars, evidenceVars
    <2>1. Inspection(currentRevision)' = Inspection(currentRevision)
      BY DEF Inspection, TermsAt
    <2>2. manifest = NewManifest(Len(reviews)) => (manifest = NewManifest(Len(reviews)))'
      BY DEF NewManifest, TermsAt
    <2> QED
      BY <1>1, <2>1, <2>2 DEF IInv, GlossaryInv, HistoryInv, ValidRunIsLastOfHistory,
         VerdictInv, RunUnderRules, NoFindingEver, ReviewInv, ManifestInv
  <1>3. ASSUME NEW key \in Key, NEW expected, NEW t \in TermID, AddTerm(key, expected, t)
        PROVE  IInv'
    BY <1>1, <1>3, GlossaryStep DEF AddTerm
  <1>4. ASSUME NEW key \in Key, NEW expected, NEW batch \in SUBSET TermID,
               ImportGlossary(key, expected, batch)
        PROVE  IInv'
    BY <1>1, <1>4, GlossaryStep DEF ImportGlossary
  <1>5. ASSUME NEW key \in Key, NEW expected, NEW id, ResolveFinding(key, expected, id)
        PROVE  IInv'
    BY <1>1, <1>5, CloseFindingsStep DEF ResolveFinding
  <1>6. ASSUME NEW key \in Key, NEW expected, NEW ids, ResolveFindings(key, expected, ids)
        PROVE  IInv'
    BY <1>1, <1>6, CloseFindingsStep DEF ResolveFindings
  <1>7. CASE Next
    BY <1>1, <1>3, <1>4, <1>5, <1>6, <1>7, UpdateProjectRulesStep, SubmitRevisionStep,
       ValidateStep, SubmitForReviewStep, ReviewRevisionStep, FreezeStep DEF Next
  <1> QED
    BY <1>2, <1>7

\* The inductive invariant holds in every behaviour; the theorems below follow.
THEOREM InvariantHolds == Spec => []IInv
  BY InitInv, NextInv, PTL DEF Spec

-----------------------------------------------------------------------------
(* Safety *)

LEMMA IInvImpliesReviewedRunIsValid == IInv => ReviewedRunIsValid
  <1> SUFFICES ASSUME IInv, status \in {"in_review", "approved", "frozen"}
               PROVE  /\ CurrentRunIsFresh
                      /\ validations[currentRevision].findings = <<>>
                      /\ revisions[currentRevision].glossaryVersion = glossaryVersion
    BY DEF ReviewedRunIsValid
  <1> USE DEF IInv
  <1> DEFINE r == currentRevision
             n == Len(validationRuns[r])
  <1>1. /\ r \in DOMAIN validations /\ validations[r].rules = rules
        /\ revisions[r].glossaryVersion = glossaryVersion
        /\ status # "needs_fix"
    BY DEF VerdictInv, RunUnderRules, ReviewInv
  <1>2. /\ r \in DOMAIN validationRuns /\ r # 0
        /\ validationRuns[r] \in Seq(Run)
    BY <1>1 DEF TypeOK
  <1>3. validationRuns[r] # <<>> /\ validations[r] = validationRuns[r][n]
    BY <1>1 DEF HistoryInv, ValidRunIsLastOfHistory
  <1>4. n \in DOMAIN validationRuns[r]
    BY <1>2, <1>3, EmptySeq, LenProperties
  <1>5. validations[r].findings = <<>>
    BY <1>1, <1>2, <1>3, <1>4 DEF VerdictInv, NoFindingEver
  <1>6. /\ validations[r].revision = r
        /\ validations[r].glossaryVersion = revisions[r].glossaryVersion
    BY <1>2, <1>3, <1>4 DEF HistoryInv
  <1> QED
    BY <1>1, <1>5, <1>6 DEF CurrentRunIsFresh

\* What is under review, approved or frozen was validated without a finding,
\* under the rules and the glossary still in force (review.go SubmitForReview).
THEOREM ReviewIsOfValidRun == Spec => []ReviewedRunIsValid
  BY InvariantHolds, IInvImpliesReviewedRunIsValid, PTL

\* The last entry of the decisions is the latest of the current revision.
LEMMA LastReviewIsLatest ==
    ASSUME IInv, status \in {"approved", "frozen"}
    PROVE  /\ Len(reviews) \in DOMAIN reviews
           /\ IsLatestReview(Len(reviews), currentRevision)
           /\ reviews[Len(reviews)].decision = "approve"
  <1>1. reviews \in Seq(Review) /\ reviews # <<>>
    BY DEF IInv, TypeOK, ReviewInv
  <1>2. Len(reviews) \in DOMAIN reviews /\ DOMAIN reviews = 1..Len(reviews)
        /\ Len(reviews) \in Nat
    BY <1>1, EmptySeq, LenProperties
  <1> QED
    BY <1>2 DEF IInv, ReviewInv, IsLatestReview

LEMMA IInvImpliesApprovedCanFreeze == IInv => ApprovedCanFreeze
  <1> SUFFICES ASSUME IInv, status = "approved"
               PROVE  EvidenceForFreeze(Len(reviews)) /\ Len(reviews) \in DOMAIN reviews
    BY DEF ApprovedCanFreeze
  <1>1. /\ CurrentRunIsFresh /\ validations[currentRevision].findings = <<>>
        /\ revisions[currentRevision].glossaryVersion = glossaryVersion
    BY IInvImpliesReviewedRunIsValid DEF ReviewedRunIsValid
  <1>2. currentRevision # 0
    BY <1>1 DEF CurrentRunIsFresh, IInv, TypeOK
  <1>3. ~HasBlocking(validations[currentRevision])
    BY <1>1 DEF HasBlocking
  <1> QED
    BY <1>1, <1>2, <1>3, LastReviewIsLatest DEF EvidenceForFreeze, CurrentRunIsFresh

\* No approval is ever stranded: the evidence Freeze and FreezePreview ask for
\* is there as long as the project is approved (review.go Freeze).
THEOREM ApprovalCanBeFrozen == Spec => []ApprovedCanFreeze
  BY InvariantHolds, IInvImpliesApprovedCanFreeze, PTL

LEMMA IInvImpliesFrozenVerifies == IInv => FrozenVerifies
  <1> SUFFICES ASSUME IInv PROVE FrozenVerifies
    OBVIOUS
  <1>1. CASE status # "frozen"
    BY <1>1 DEF IInv, ManifestInv, FrozenVerifies
  <1>2. CASE status = "frozen"
    <2>1. manifest = NewManifest(Len(reviews))
      BY <1>2 DEF IInv, ManifestInv
    <2>2. manifest \in Manifest
      <3>1. /\ currentRevision \in DOMAIN revisions
            /\ Len(reviews) \in Nat \ {0}
        BY <1>2, LastReviewIsLatest DEF IInv, TypeOK, VerdictInv, RunUnderRules
      <3>2. /\ revisions[currentRevision].content \in Content
            /\ rules \in Rule /\ currentRevision \in Nat \ {0}
        BY <3>1, RevisionType DEF IInv, TypeOK, Revision
      <3>3. TermsAt(revisions[currentRevision].glossaryVersion) \in SUBSET TermID
        BY TermsAtType DEF IInv
      <3> QED
        BY <2>1, <3>1, <3>2, <3>3 DEF NewManifest, Manifest
    <2>3. currentRevision \in DOMAIN revisions
      BY <1>2 DEF IInv, TypeOK, VerdictInv, RunUnderRules
    <2> QED
      BY <1>2, <2>1, <2>2, <2>3, LastReviewIsLatest, ManifestAssumption
         DEF FrozenVerifies, SnapshotVerifies, NewManifest
  <1> QED
    BY <1>1, <1>2

\* A frozen project passes the snapshot checks of Verify, and only a frozen
\* project has a manifest (export.go Verify, Export).
THEOREM FrozenProjectVerifies == Spec => []FrozenVerifies
  BY InvariantHolds, IInvImpliesFrozenVerifies, PTL

LEMMA IInvImpliesFindingsHoldRevision == IInv => FindingsHoldRevision
  BY DEF IInv, VerdictInv, NoFindingEver, FindingsHoldRevision

\* Closing findings never releases the revision they were found in
\* (README.md on batch resolution, revisions.go ResolveFinding).
THEOREM FindingsNeedNewRevision == Spec => []FindingsHoldRevision
  BY InvariantHolds, IInvImpliesFindingsHoldRevision, PTL

LEMMA IInvImpliesValidRunIsLast == IInv => ValidRunIsLastOfHistory
  BY DEF IInv, HistoryInv

\* The valid run of a revision is always the last entry of its history
\* (revisions.go Validate and updateValidationHistory).
THEOREM HistoryAgrees == Spec => []ValidRunIsLastOfHistory
  BY InvariantHolds, IInvImpliesValidRunIsLast, PTL

-----------------------------------------------------------------------------
(* Action properties *)

LEMMA NextNeedsUnfrozen ==
    ASSUME Next PROVE status # "frozen"
  BY DEF Next, AddTerm, ImportGlossary, GlossaryMutable, UpdateProjectRules,
         RulesMutable, SubmitRevision, CanSubmitRevision, Validate, CanValidate,
         ResolveFinding, ResolveFindings, CanResolve, SubmitForReview,
         ReviewRevision, Freeze

\* A frozen project never changes again (project.go EnsureMutable and the status
\* guard of every command).
THEOREM FrozenForEver == Spec => FrozenIsFinal
  <1>1. [Next]_vars => [status # "frozen"]_vars
    BY NextNeedsUnfrozen
  <1> QED
    BY <1>1, PTL DEF Spec, FrozenIsFinal

\* From approved no command leads anywhere but the freeze.
LEMMA ApprovedOnlyFreezes ==
    ASSUME Next, status = "approved"
    PROVE  \E d \in DOMAIN reviews :
              EvidenceForFreeze(d) /\ status' = "frozen" /\ manifest' = NewManifest(d)
  <1>1. \E key \in Key, expected \in 1..MaxVersion, d \in DOMAIN reviews :
           Freeze(key, expected, d)
    BY DEF Next, AddTerm, ImportGlossary, GlossaryMutable, UpdateProjectRules,
           RulesMutable, SubmitRevision, CanSubmitRevision, Validate, CanValidate,
           ResolveFinding, ResolveFindings, CanResolve, SubmitForReview,
           ReviewRevision
  <1> QED
    BY <1>1 DEF Freeze

\* What a preview showed is what the freeze publishes, and nothing comes between
\* the two (review_queries.go FreezePreview, review.go Freeze).
THEOREM PreviewHolds == Spec => PreviewIsFrozen
  <1>1. ASSUME Next, FreezePreview # {}
        PROVE  status' = "frozen" /\ manifest' \in FreezePreview
    <2>1. status = "approved"
      BY <1>1 DEF FreezePreview
    <2>2. PICK d \in DOMAIN reviews :
             EvidenceForFreeze(d) /\ status' = "frozen" /\ manifest' = NewManifest(d)
      BY <1>1, <2>1, ApprovedOnlyFreezes
    <2> QED
      BY <2>1, <2>2 DEF FreezePreview
  <1>2. [Next]_vars => [FreezePreview # {} =>
           status' = "frozen" /\ manifest' \in FreezePreview]_vars
    BY <1>1
  <1> QED
    BY <1>2, PTL DEF Spec, PreviewIsFrozen

LEMMA StrandedStep ==
    ASSUME IInv, Next, IsStranded
    PROVE  IsStranded'
  <1> DEFINE r == currentRevision
  <1>1. /\ status = "validated" /\ r \in DOMAIN revisions
        /\ glossaryVersion \in Nat /\ revisions[r].glossaryVersion \in Nat
        /\ revisions[r].glossaryVersion < glossaryVersion
        /\ Inspection(r) = <<>>
    <2>1. /\ status = "validated" /\ r \in DOMAIN revisions
          /\ glossaryVersion \in Nat /\ Inspection(r) = <<>>
      BY DEF IsStranded, IInv, TypeOK, VerdictInv, RunUnderRules
    <2> QED
      BY <2>1, RevisionType DEF IsStranded, IInv
  <1>2. PICK key \in Key, expected \in 1..MaxVersion :
          \/ \E t \in TermID : AddTerm(key, expected, t)
          \/ \E batch \in SUBSET TermID : ImportGlossary(key, expected, batch)
          \/ Validate(key, expected)
          \/ SubmitForReview(key, expected)
    BY <1>1 DEF Next, UpdateProjectRules, RulesMutable, SubmitRevision,
           CanSubmitRevision, ResolveFinding, ResolveFindings, CanResolve,
           ReviewRevision, Freeze
  <1>3. CASE \/ \E t \in TermID : AddTerm(key, expected, t)
             \/ \E batch \in SUBSET TermID : ImportGlossary(key, expected, batch)
    <2>1. /\ UNCHANGED <<status, currentRevision, revisions>>
          /\ glossaryVersion' = glossaryVersion + 1
      BY <1>3 DEF AddTerm, ImportGlossary, AddGlossaryVersion
    <2> QED
      BY <1>1, <2>1 DEF IsStranded
  <1>4. CASE Validate(key, expected)
    <2>1. ~HasBlocking(NewRun(r))
      BY <1>1, NewRunProperties DEF IInv
    <2>2. /\ UNCHANGED <<currentRevision, revisions, glossaryVersion>>
          /\ status' = "validated"
      BY <1>4, <2>1 DEF Validate
    <2> QED
      BY <1>1, <2>2 DEF IsStranded
  <1>5. CASE SubmitForReview(key, expected)
    BY <1>1, <1>5, FreshRunIsOfSubmission DEF SubmitForReview
  <1> QED
    BY <1>2, <1>3, <1>4, <1>5

\* A validated project whose revision is older than its glossary has no way out
\* (revisions.go Validate, review.go SubmitForReview, rules.go CanSubmitRevision).
THEOREM StrandedProjectsStay == Spec => StrandedForever
  <1>1. IInv /\ [Next]_vars => [IsStranded => IsStranded']_vars
    BY StrandedStep
  <1> QED
    BY <1>1, InvariantHolds, PTL DEF Spec, StrandedForever

\* The run history of every revision is as long as before or longer.
HistoryKept ==
    \A r \in DOMAIN validationRuns : Len(validationRuns[r]) <= Len(validationRuns'[r])

LEMMA SameHistoryKept ==
    ASSUME TypeOK, validationRuns' = validationRuns
    PROVE  HistoryKept
  <1>1. \A r \in DOMAIN validationRuns : Len(validationRuns[r]) \in Nat
    BY DEF TypeOK
  <1> QED
    BY <1>1 DEF HistoryKept

LEMMA SubmitRevisionKeepsHistory ==
    ASSUME TypeOK, NEW key, NEW expected, NEW parent, NEW submitter, NEW content,
           SubmitRevision(key, expected, parent, submitter, content)
    PROVE  HistoryKept
  <1>1. /\ validationRuns \in Seq(Seq(Run)) /\ <<>> \in Seq(Run)
        /\ validationRuns' = Append(validationRuns, <<>>)
    BY EmptySeq DEF TypeOK, SubmitRevision
  <1>2. \A r \in DOMAIN validationRuns :
           /\ validationRuns'[r] = validationRuns[r]
           /\ Len(validationRuns[r]) \in Nat
    BY <1>1, AppendProperties, LenProperties
  <1> QED
    BY <1>2 DEF HistoryKept

LEMMA ValidateKeepsHistory ==
    ASSUME TypeOK, NEW key, NEW expected, Validate(key, expected)
    PROVE  HistoryKept
  <1> DEFINE r == currentRevision
  <1>1. /\ r \in DOMAIN validationRuns /\ r \in DOMAIN revisions
        /\ validationRuns \in Seq(Seq(Run))
    BY DEF Validate, CanValidate, TypeOK
  <1>2. NewRun(r) \in Run /\ validationRuns[r] \in Seq(Run)
    BY <1>1, NewRunProperties
  <1>3. Len(Append(validationRuns[r], NewRun(r))) = Len(validationRuns[r]) + 1
    BY <1>2, AppendProperties
  <1>4. validationRuns' = [validationRuns EXCEPT ![r] = Append(validationRuns[r], NewRun(r))]
    BY DEF Validate
  <1>5. \A x \in DOMAIN validationRuns : Len(validationRuns[x]) \in Nat
    BY <1>1
  <1> QED
    BY <1>1, <1>3, <1>4, <1>5 DEF HistoryKept

LEMMA CloseFindingsKeepsHistory ==
    ASSUME TypeOK, CurrentRunIsFresh, NEW positions, CloseFindings(positions)
    PROVE  HistoryKept
  <1> DEFINE r == currentRevision
             closed == Closed(validations[r], positions)
             runs == [i \in DOMAIN validationRuns[r] |->
                        IF validationRuns[r][i].id = closed.id
                        THEN closed ELSE validationRuns[r][i]]
  <1>1. /\ validations[r] \in Run /\ r \in DOMAIN validationRuns
        /\ validationRuns \in Seq(Seq(Run)) /\ validationRuns[r] \in Seq(Run)
    BY DEF TypeOK, CurrentRunIsFresh
  <1>2. closed \in Run /\ closed.revision = r
    BY <1>1, ClosedProperties DEF CurrentRunIsFresh
  <1>3. validationRuns' = [validationRuns EXCEPT ![r] = runs]
    BY <1>2 DEF CloseFindings, UpdatedHistory
  <1>4. runs \in Seq(Run) /\ Len(runs) = Len(validationRuns[r])
    <2>1. runs \in [1..Len(validationRuns[r]) -> Run] /\ Len(validationRuns[r]) \in Nat
      BY <1>1, <1>2, LenProperties
    <2> QED
      BY <2>1, FunctionIsSeq
  <1>5. \A x \in DOMAIN validationRuns : Len(validationRuns[x]) \in Nat
    BY <1>1
  <1> HIDE DEF runs
  <1> QED
    BY <1>1, <1>3, <1>4, <1>5 DEF HistoryKept

LEMMA NextKeepsHistory ==
    ASSUME TypeOK, Next
    PROVE  HistoryKept
  <1>1. PICK key \in Key, expected \in 1..MaxVersion :
          \/ validationRuns' = validationRuns
          \/ \E parent \in 0..Len(revisions), p \in Person, c \in Content :
                SubmitRevision(key, expected, parent, p, c)
          \/ Validate(key, expected)
          \/ \E id \in FindingID : ResolveFinding(key, expected, id)
          \/ \E ids \in SUBSET FindingID : ResolveFindings(key, expected, ids)
    BY DEF Next, AddTerm, ImportGlossary, UpdateProjectRules, SubmitForReview,
           evidenceVars, ReviewRevision, Freeze
  <1>2. CASE validationRuns' = validationRuns
    BY <1>2, SameHistoryKept
  <1>3. CASE \E parent \in 0..Len(revisions), p \in Person, c \in Content :
                SubmitRevision(key, expected, parent, p, c)
    BY <1>3, SubmitRevisionKeepsHistory
  <1>4. CASE Validate(key, expected)
    BY <1>4, ValidateKeepsHistory
  <1>5. CASE \E id \in FindingID : ResolveFinding(key, expected, id)
    <2>1. CurrentRunIsFresh /\ \E positions : CloseFindings(positions)
      BY <1>5 DEF ResolveFinding, CanResolve
    <2> QED
      BY <2>1, CloseFindingsKeepsHistory
  <1>6. CASE \E ids \in SUBSET FindingID : ResolveFindings(key, expected, ids)
    <2>1. CurrentRunIsFresh /\ \E positions : CloseFindings(positions)
      BY <1>6 DEF ResolveFindings, CanResolve
    <2> QED
      BY <2>1, CloseFindingsKeepsHistory
  <1> QED
    BY <1>1, <1>2, <1>3, <1>4, <1>5, <1>6

LEMMA NextExtends ==
    ASSUME TypeOK, TypeOK', Next
    PROVE  IsPrefixOf(revisions, revisions') /\ IsPrefixOf(reviews, reviews')
  <1>1. /\ revisions \in Seq(Revision) /\ revisions' \in Seq(Revision)
        /\ reviews \in Seq(Review) /\ reviews' \in Seq(Review)
    BY DEF TypeOK
  <1>2. /\ revisions' = revisions \/ \E r : revisions' = Append(revisions, r)
        /\ reviews' = reviews \/ \E d : reviews' = Append(reviews, d)
    BY DEF Next, AddTerm, ImportGlossary, UpdateProjectRules, SubmitRevision,
           Validate, ResolveFinding, ResolveFindings, CloseFindings,
           SubmitForReview, evidenceVars, ReviewRevision, Freeze
  <1>3. \A S : \A s \in Seq(S) : \A e : IsPrefixOf(s, s) /\ IsPrefixOf(s, Append(s, e))
    BY DEF IsPrefixOf
  <1> QED
    BY <1>1, <1>2, <1>3

LEMMA NextKeepsTerms ==
    ASSUME TypeOK, Next, NEW v \in 0..glossaryVersion
    PROVE  TermsAt(v)' = TermsAt(v)
  <1>1. \/ terms' = terms
        \/ \E added : AddGlossaryVersion(added)
    BY DEF Next, AddTerm, ImportGlossary, UpdateProjectRules, SubmitRevision,
           Validate, ResolveFinding, ResolveFindings, CloseFindings,
           SubmitForReview, evidenceVars, ReviewRevision, Freeze
  <1>2. CASE terms' = terms
    BY <1>2 DEF TermsAt
  <1>3. CASE \E added : AddGlossaryVersion(added)
    <2>1. v \in Nat /\ v <= glossaryVersion
      BY DEF TypeOK
    <2> QED
      BY <1>3, <2>1, OldTermsStay
  <1> QED
    BY <1>1, <1>2, <1>3

\* Revisions, decisions, runs and the terms of existing glossary versions are
\* only ever added to (projects.go AddTerm, glossary_batch.go ImportGlossary,
\* revisions.go SubmitRevision and Validate).
THEOREM EvidenceIsAppendOnly == Spec => EvidenceOnlyGrows
  <1> DEFINE Grows == /\ IsPrefixOf(revisions, revisions')
                      /\ IsPrefixOf(reviews, reviews')
                      /\ \A r \in DOMAIN validationRuns :
                            Len(validationRuns[r]) <= Len(validationRuns'[r])
                      /\ \A v \in 0..glossaryVersion : TermsAt(v)' = TermsAt(v)
  <1>1. TypeOK /\ TypeOK' /\ [Next]_vars => [Grows]_vars
    BY NextKeepsHistory, NextExtends, NextKeepsTerms DEF HistoryKept
  <1> QED
    BY <1>1, TypeCorrect, PTL DEF Spec, EvidenceOnlyGrows

-----------------------------------------------------------------------------
(* Recorded runs *)

\* Closed changes nothing but openness, and only from open to closed.
LEMMA ClosedIsSame ==
    ASSUME NEW run \in Run, NEW positions
    PROVE  SameButClosed(run, Closed(run, positions))
  <1> DEFINE fs == [i \in DOMAIN run.findings |->
                     IF i \in positions THEN [run.findings[i] EXCEPT !.open = FALSE]
                                        ELSE run.findings[i]]
  <1>1. run.findings \in Seq(Finding)
    BY DEF Run
  <1>2. \A i \in DOMAIN run.findings : run.findings[i] \in Finding
    BY <1>1, ElementOfSeq, LenProperties
  <1>3. /\ DOMAIN fs = DOMAIN run.findings
        /\ \A i \in DOMAIN run.findings :
              /\ fs[i].id = run.findings[i].id
              /\ fs[i].open => run.findings[i].open
    BY <1>2 DEF Finding
  <1>4. Closed(run, positions) = [run EXCEPT !.findings = fs]
    BY DEF Closed
  <1> HIDE DEF fs
  <1>5. /\ Closed(run, positions).findings = fs
        /\ [Closed(run, positions) EXCEPT !.findings = run.findings] = run
    BY <1>4 DEF Run
  <1> QED
    BY <1>3, <1>5 DEF SameButClosed

\* What may become of recorded run i of revision r in one step.
RunKept(r, i) ==
    LET run == validationRuns[r][i]
        later == validationRuns'[r][i]
    IN  \/ later = run
        \/ /\ r = currentRevision /\ i = Len(validationRuns[r])
           /\ SameButClosed(run, later)

LEMMA CloseFindingsKeepsRuns ==
    ASSUME IInv, CanResolve, NEW positions, CloseFindings(positions),
           NEW r \in DOMAIN validationRuns, NEW i \in DOMAIN validationRuns[r]
    PROVE  RunKept(r, i)
  <1> DEFINE c == currentRevision
             closed == Closed(validations[c], positions)
             n == Len(validationRuns[c])
  <1>1. /\ c \in DOMAIN validations /\ c \in DOMAIN validationRuns
        /\ validations[c] \in Run
    BY DEF IInv, TypeOK, CanResolve, CurrentRunIsFresh
  <1>2. /\ validations[c] = validationRuns[c][n]
        /\ validations[c].revision = c
        /\ \A j \in DOMAIN validationRuns[c] : validationRuns[c][j].id = j
    BY <1>1 DEF IInv, HistoryInv, ValidRunIsLastOfHistory, CanResolve, CurrentRunIsFresh
  <1>3. n \in DOMAIN validationRuns[c]
    <2>1. validationRuns[c] \in Seq(Run) /\ validationRuns[c] # <<>>
      BY <1>1 DEF IInv, TypeOK, HistoryInv, ValidRunIsLastOfHistory
    <2> QED
      BY <2>1, EmptySeq, LenProperties
  <1>4. /\ closed.id = n /\ closed.revision = c
        /\ SameButClosed(validations[c], closed)
    BY <1>1, <1>2, <1>3, ClosedProperties, ClosedIsSame
  <1>5. /\ \A x \in DOMAIN validationRuns : x # c => validationRuns'[x] = validationRuns[x]
        /\ validationRuns'[c] = [j \in DOMAIN validationRuns[c] |->
                                    IF validationRuns[c][j].id = closed.id
                                    THEN closed ELSE validationRuns[c][j]]
    BY <1>1, <1>4 DEF CloseFindings, UpdatedHistory
  <1> HIDE DEF closed, n
  <1>6. CASE r # c
    BY <1>5, <1>6 DEF RunKept
  <1>7. CASE r = c /\ i = n
    <2>1. validationRuns'[r][i] = closed /\ validationRuns[r][i] = validations[c]
      BY <1>2, <1>3, <1>4, <1>5, <1>7
    <2> QED
      BY <1>4, <1>7, <2>1 DEF RunKept, n
  <1>8. CASE r = c /\ i # n
    BY <1>2, <1>4, <1>5, <1>8 DEF RunKept
  <1> QED
    BY <1>6, <1>7, <1>8

LEMMA NextKeepsRuns ==
    ASSUME IInv, Next,
           NEW r \in DOMAIN validationRuns, NEW i \in DOMAIN validationRuns[r]
    PROVE  RunKept(r, i)
  <1>0. /\ validationRuns \in Seq(Seq(Run)) /\ validationRuns[r] \in Seq(Run)
        /\ TypeOK
    BY DEF IInv, TypeOK
  <1>1. PICK key \in Key, expected \in 1..MaxVersion :
          \/ validationRuns' = validationRuns
          \/ \E parent \in 0..Len(revisions), p \in Person, c \in Content :
                SubmitRevision(key, expected, parent, p, c)
          \/ Validate(key, expected)
          \/ \E id \in FindingID : ResolveFinding(key, expected, id)
          \/ \E ids \in SUBSET FindingID : ResolveFindings(key, expected, ids)
    BY DEF Next, AddTerm, ImportGlossary, UpdateProjectRules, SubmitForReview,
           evidenceVars, ReviewRevision, Freeze
  <1>2. CASE validationRuns' = validationRuns
    BY <1>2 DEF RunKept
  <1>3. CASE \E parent \in 0..Len(revisions), p \in Person, c \in Content :
                SubmitRevision(key, expected, parent, p, c)
    <2>1. validationRuns' = Append(validationRuns, <<>>) /\ <<>> \in Seq(Run)
      BY <1>3, EmptySeq DEF SubmitRevision
    <2>2. validationRuns'[r] = validationRuns[r]
      BY <1>0, <2>1, AppendProperties, LenProperties
    <2> QED
      BY <2>2 DEF RunKept
  <1>4. CASE Validate(key, expected)
    <2> DEFINE c == currentRevision
    <2>1. c \in DOMAIN validationRuns /\ c \in DOMAIN revisions
      BY <1>0, <1>4 DEF Validate, CanValidate, TypeOK
    <2>2. /\ validationRuns' =
               [validationRuns EXCEPT ![c] = Append(validationRuns[c], NewRun(c))]
          /\ NewRun(c) \in Run
      BY <1>0, <1>4, <2>1, NewRunProperties DEF Validate
    <2>3. CASE r = c
      <3>1. Append(validationRuns[r], NewRun(c))[i] = validationRuns[r][i]
        BY <1>0, <2>2, AppendProperties, LenProperties
      <3> QED
        BY <2>1, <2>2, <2>3, <3>1 DEF RunKept
    <2>4. CASE r # c
      BY <2>1, <2>2, <2>4 DEF RunKept
    <2> QED
      BY <2>3, <2>4
  <1>5. CASE \E id \in FindingID : ResolveFinding(key, expected, id)
    <2>1. CanResolve /\ \E positions : CloseFindings(positions)
      BY <1>5 DEF ResolveFinding
    <2> QED
      BY <2>1, CloseFindingsKeepsRuns
  <1>6. CASE \E ids \in SUBSET FindingID : ResolveFindings(key, expected, ids)
    <2>1. CanResolve /\ \E positions : CloseFindings(positions)
      BY <1>6 DEF ResolveFindings
    <2> QED
      BY <2>1, CloseFindingsKeepsRuns
  <1> QED
    BY <1>1, <1>2, <1>3, <1>4, <1>5, <1>6

\* All that may happen to a recorded run is that an open finding is closed, and
\* only in the run that is still valid (revisions.go updateValidationHistory).
THEOREM RecordedRunsOnlyClose == Spec => FindingsOnlyClose
  <1> DEFINE Kept == \A r \in DOMAIN validationRuns : \A i \in DOMAIN validationRuns[r] :
                        LET run == validationRuns[r][i]
                            later == validationRuns'[r][i]
                        IN  \/ later = run
                            \/ /\ r = currentRevision /\ i = Len(validationRuns[r])
                               /\ SameButClosed(run, later)
  <1>1. IInv /\ [Next]_vars => [Kept]_vars
    BY NextKeepsRuns DEF RunKept
  <1> QED
    BY <1>1, InvariantHolds, PTL DEF Spec, FindingsOnlyClose

-----------------------------------------------------------------------------
(* The optimistic lock *)

\* Every command passes through Command, which counts it once in either place.
LEMMA NextIsCounted ==
    ASSUME Next
    PROVE  /\ version' = version + 1
           /\ \E op, key : /\ <<op, key>> \notin idempotency
                           /\ idempotency' = idempotency \cup {<<op, key>>}
  <1>1. \E op, key, expected : Command(op, key, expected)
    BY DEF Next, AddTerm, ImportGlossary, UpdateProjectRules, SubmitRevision,
           Validate, ResolveFinding, ResolveFindings, SubmitForReview,
           ReviewRevision, Freeze
  <1> QED
    BY <1>1 DEF Command, Remembered, Touch

\* The version counts the commands that were executed and remembered, each once,
\* however many commands there are (service.go replay and remember, project.go
\* Touch).
THEOREM CommandsCounted == Spec => []CommandsAreCounted
  <1> DEFINE Counted == IsFiniteSet(idempotency) /\ CommandsAreCounted
  <1>1. Init => Counted
    BY FS_EmptySet DEF Init, CommandsAreCounted
  <1>2. Counted /\ [Next]_vars => Counted'
    <2> SUFFICES ASSUME Counted, [Next]_vars
                 PROVE  Counted'
      OBVIOUS
    <2>1. CASE Next
      <3>1. PICK op, key : /\ <<op, key>> \notin idempotency
                           /\ idempotency' = idempotency \cup {<<op, key>>}
        BY <2>1, NextIsCounted
      <3>2. /\ IsFiniteSet(idempotency')
            /\ Cardinality(idempotency') = Cardinality(idempotency) + 1
        BY <3>1, FS_AddElement
      <3>3. /\ version' = version + 1
            /\ version = 1 + Cardinality(idempotency)
            /\ Cardinality(idempotency) \in Nat
        BY <2>1, NextIsCounted, FS_CardinalityType DEF CommandsAreCounted
      <3> QED
        BY <3>2, <3>3 DEF CommandsAreCounted
    <2>2. CASE UNCHANGED vars
      BY <2>2 DEF vars, projectVars, CommandsAreCounted
    <2> QED
      BY <2>1, <2>2
  <1>3. Counted => CommandsAreCounted
    OBVIOUS
  <1> QED
    BY <1>1, <1>2, <1>3, PTL DEF Spec

=============================================================================
