---------------------- MODULE PublicationContractProofs ----------------------
(***************************************************************************)
(* CaptionWorkflow implements PublicationContract, for every value of its  *)
(* constants.  Each command is an action of the contract or invisible to   *)
(* it; the inductive invariant of CaptionWorkflowProofs says why the       *)
(* candidate is clean when it is sent for review and why the manifest is   *)
(* the candidate.                                                          *)
(***************************************************************************)
EXTENDS CaptionWorkflowProofs

Visible == <<StageOf, CurrentCandidate, Approver, Published>>

Editing == {"draft", "needs_fix", "validated", "returned"}

\* A revision is submitted by a person and makes a candidate.
LEMMA CandidateType ==
    ASSUME TypeOK, NEW r \in DOMAIN revisions
    PROVE  /\ CandidateOf(r) \in Candidates
           /\ CandidateOf(r) # NoManifest
           /\ CandidateOf(r).author = revisions[r].submittedBy
  <1>1. revisions[r] \in Revision /\ rules \in Rule
    BY DEF TypeOK
  <1>2. TermsAt(revisions[r].glossaryVersion) \in SUBSET TermID
    BY TermsAtType
  <1>3. CandidateOf(r) \in Candidates
    BY <1>1, <1>2 DEF CandidateOf, Candidates, Revision
  <1> QED
    BY <1>3, CandidateAssumption DEF CandidateOf

\* The candidate depends on the revision, the rules and the terms it was submitted
\* with.
LEMMA CandidateStable ==
    ASSUME currentRevision' = currentRevision, revisions' = revisions, rules' = rules,
           currentRevision # 0 =>
              TermsAt(revisions[currentRevision].glossaryVersion)'
                = TermsAt(revisions[currentRevision].glossaryVersion)
    PROVE  CurrentCandidate' = CurrentCandidate
  BY DEF CurrentCandidate, CandidateOf

\* While the project is edited there is neither an approver nor a publication.
LEMMA EditingIsPrivate ==
    ASSUME IInv, IInv', status \in Editing, status' \in Editing
    PROVE  /\ StageOf = "editing"
           /\ UNCHANGED <<StageOf, Approver, Published>>
  BY DEF Editing, StageOf, Approver, Published, IInv, ManifestInv

\* Commands on the glossary, validations and resolutions are invisible.
LEMMA GlossaryIsInvisible ==
    ASSUME IInv, IInv', NEW added, AddGlossaryVersion(added), GlossaryMutable,
           UNCHANGED <<status, rules, currentRevision, revisions>>
    PROVE  UNCHANGED Visible
  <1>1. status \in Editing /\ status' \in Editing
    BY DEF GlossaryMutable, Editing, IInv, TypeOK, Status
  <1>2. ASSUME currentRevision # 0
        PROVE  TermsAt(revisions[currentRevision].glossaryVersion)'
                 = TermsAt(revisions[currentRevision].glossaryVersion)
    <2>1. TypeOK /\ currentRevision \in DOMAIN revisions
      BY <1>2 DEF IInv, TypeOK
    <2>2. PICK v \in Nat : v = revisions[currentRevision].glossaryVersion
                         /\ v <= glossaryVersion
      BY <2>1, RevisionType DEF IInv, GlossaryInv
    <2>3. TermsAt(v)' = TermsAt(v)
      BY <2>1, <2>2, OldTermsStay
    <2> QED
      BY <2>2, <2>3 DEF TermsAt
  <1> QED
    BY <1>1, <1>2, CandidateStable, EditingIsPrivate DEF Visible

LEMMA VerdictKeepsCandidate ==
    ASSUME UNCHANGED <<rules, currentRevision, terms, revisions>>
    PROVE  CurrentCandidate' = CurrentCandidate
  BY DEF CurrentCandidate, CandidateOf, TermsAt

LEMMA VerdictIsInvisible ==
    ASSUME IInv, IInv', status \in Editing, status' \in Editing,
           UNCHANGED <<rules, currentRevision, terms, revisions>>
    PROVE  UNCHANGED Visible
  BY VerdictKeepsCandidate, EditingIsPrivate DEF Visible

\* New rules and new revisions edit the candidate, if there is one.
LEMMA ContentIsEdited ==
    ASSUME IInv, IInv', status \in Editing, status' \in Editing,
           currentRevision' \in DOMAIN revisions'
    PROVE  Contract!Edit
  <1>1. /\ revisions'[currentRevision'] \in Revision /\ rules' \in Rule
        /\ terms' \subseteq [id : TermID, version : Nat]
        /\ currentRevision' # 0
    BY DEF IInv, TypeOK
  <1>2. TermsAt(revisions[currentRevision].glossaryVersion)' \in SUBSET TermID
    BY <1>1 DEF TermsAt
  <1>3. CurrentCandidate' \in Candidates
    BY <1>1, <1>2 DEF CurrentCandidate, CandidateOf, Candidates, Revision
  <1> QED
    BY <1>3, EditingIsPrivate DEF Contract!Edit

\* A revision is sent for review when its run found nothing.
LEMMA SubmitForReviewIsSent ==
    ASSUME IInv, IInv', NEW key, NEW expected, SubmitForReview(key, expected)
    PROVE  Contract!SendForReview
  <1> DEFINE r == currentRevision
             ids == Findings(revisions[r].content, rules,
                             TermsAt(revisions[r].glossaryVersion))
  <1>1. /\ status = "validated" /\ status' = "in_review"
        /\ UNCHANGED <<rules, r, glossaryVersion, terms, revisions, reviews, manifest>>
        /\ r \in DOMAIN validations
    BY DEF SubmitForReview, CurrentRunIsFresh, evidenceVars
  <1>2. r \in DOMAIN revisions /\ r # 0 /\ TypeOK
    BY <1>1 DEF IInv, TypeOK
  <1>3. ids = <<>>
    <2>1. Inspection(r) = <<>>
      BY <1>1 DEF IInv, VerdictInv
    <2>2. revisions[r] \in Revision /\ rules \in Rule
      BY <1>2 DEF TypeOK
    <2>3. ids \in Seq(FindingID)
      BY <1>2, <2>2, TermsAtType, FindingsAssumption DEF Revision
    <2>4. DOMAIN Inspection(r) = 1..Len(ids) /\ DOMAIN Inspection(r) = {}
      BY <2>1 DEF Inspection
    <2>5. Len(ids) \in Nat /\ 1..Len(ids) = {}
      BY <2>3, <2>4
    <2>6. Len(ids) = 0
      BY <2>5
    <2> HIDE DEF ids
    <2> QED
      BY <2>3, <2>6, EmptySeq
  <1>4. /\ CurrentCandidate = CandidateOf(r)
        /\ CurrentCandidate # NoManifest
        /\ CurrentCandidate' = CurrentCandidate
    BY <1>1, <1>2, CandidateType, VerdictKeepsCandidate DEF CurrentCandidate
  <1>5. Findings(CurrentCandidate.content, CurrentCandidate.rules,
                 CurrentCandidate.glossary) = <<>>
    BY <1>3, <1>4 DEF CandidateOf
  <1>6. StageOf = "editing" /\ StageOf' = "reviewing"
    BY <1>1 DEF StageOf
  <1>7. UNCHANGED <<Approver, Published>>
    BY <1>1 DEF Approver, Published
  <1> QED
    BY <1>4, <1>5, <1>6, <1>7 DEF Contract!SendForReview

\* A decision ends the review, an approval by someone who is not the author.
LEMMA ReviewRevisionDecides ==
    ASSUME IInv, IInv', NEW key, NEW expected, NEW p \in Person,
           NEW d \in {"approve", "return"}, ReviewRevision(key, expected, p, d)
    PROVE  Contract!Return \/ Contract!Approve(p)
  <1>1. /\ status = "in_review"
        /\ status' = IF d = "approve" THEN "approved" ELSE "returned"
        /\ currentRevision # 0 /\ p # revisions[currentRevision].submittedBy
        /\ UNCHANGED <<rules, currentRevision, terms, revisions, manifest>>
        /\ reviews' = Append(reviews, [revision |-> currentRevision,
                                       reviewer |-> p, decision |-> d])
    BY DEF ReviewRevision, IsIndependent
  <1>2. StageOf = "reviewing" /\ Approver = NoManifest
    BY <1>1 DEF StageOf, Approver
  <1>3. UNCHANGED <<CurrentCandidate, Published>>
    BY <1>1, VerdictKeepsCandidate DEF Published
  <1>4. CASE d = "return"
    BY <1>1, <1>2, <1>3, <1>4 DEF StageOf, Approver, Contract!Return
  <1>5. CASE d = "approve"
    <2>1. StageOf' = "approved"
      BY <1>1, <1>5 DEF StageOf
    <2>2. Approver' = p
      <3>1. reviews \in Seq(Review)
        BY DEF IInv, TypeOK
      <3>2. reviews'[Len(reviews')].reviewer = p
        BY <1>1, <3>1
      <3> QED
        BY <1>1, <1>5, <3>2 DEF Approver
    <2>3. p # CurrentCandidate.author
      BY <1>1 DEF CurrentCandidate, CandidateOf
    <2> QED
      BY <1>2, <1>3, <2>1, <2>2, <2>3 DEF Contract!Approve
  <1> QED
    BY <1>4, <1>5

\* The freeze publishes the candidate.
LEMMA FreezeIsPublished ==
    ASSUME IInv, IInv', NEW key \in Key, NEW expected, NEW d, Freeze(key, expected, d)
    PROVE  Contract!Publish
  <1> DEFINE r == currentRevision
  <1>1. /\ status = "approved" /\ status' = "frozen"
        /\ UNCHANGED <<rules, r, terms, revisions, reviews>>
        /\ manifest' = NewManifest(d) /\ IsLatestReview(d, r) /\ r # 0
    BY DEF Freeze, EvidenceForFreeze
  <1>2. manifest' \in Manifest
    <2>1. r \in DOMAIN revisions /\ d \in Nat \ {0} /\ TypeOK
      BY <1>1 DEF IInv, TypeOK, IsLatestReview
    <2>2. revisions[r] \in Revision
      BY <2>1 DEF TypeOK
    <2> QED
      BY <1>1, <2>1, <2>2, TermsAtType DEF NewManifest, Manifest, Revision, TypeOK
  <1>3. manifest' # NoManifest
    BY <1>2, ManifestAssumption
  <1>4. Published' = CurrentCandidate
    BY <1>1, <1>3 DEF Published, CurrentCandidate, CandidateOf, NewManifest
  <1>5. UNCHANGED <<CurrentCandidate, Approver>>
    BY <1>1, VerdictKeepsCandidate DEF Approver
  <1> QED
    BY <1>1, <1>4, <1>5 DEF StageOf, Contract!Publish

LEMMA StepRefines ==
    ASSUME IInv, IInv', [Next]_vars
    PROVE  Contract!Next \/ UNCHANGED Visible
  <1>1. CASE UNCHANGED vars
    <2>1. UNCHANGED CurrentCandidate
      BY <1>1, VerdictKeepsCandidate DEF vars, projectVars, evidenceVars
    <2> QED
      BY <1>1, <2>1 DEF vars, projectVars, evidenceVars, Visible, StageOf, Approver,
         Published
  <1>2. ASSUME NEW key \in Key, NEW expected, NEW t \in TermID, AddTerm(key, expected, t)
        PROVE  UNCHANGED Visible
    BY <1>2, GlossaryIsInvisible DEF AddTerm
  <1>3. ASSUME NEW key \in Key, NEW expected, NEW batch \in SUBSET TermID,
               ImportGlossary(key, expected, batch)
        PROVE  UNCHANGED Visible
    BY <1>3, GlossaryIsInvisible DEF ImportGlossary
  <1>4. ASSUME NEW key \in Key, NEW expected, NEW r \in Rule,
               UpdateProjectRules(key, expected, r)
        PROVE  Contract!Next \/ UNCHANGED Visible
    <2>1. /\ status \in Editing /\ status' \in Editing
          /\ UNCHANGED <<currentRevision, revisions>>
      BY <1>4 DEF UpdateProjectRules, RulesMutable, Editing
    <2>2. CASE currentRevision = 0
      BY <2>1, <2>2, EditingIsPrivate DEF Visible, CurrentCandidate
    <2>3. CASE currentRevision # 0
      <3>1. currentRevision' \in DOMAIN revisions'
        BY <2>1, <2>3 DEF IInv, TypeOK
      <3> QED
        BY <2>1, <3>1, ContentIsEdited DEF Contract!Next
    <2> QED
      BY <2>2, <2>3
  <1>5. ASSUME NEW key \in Key, NEW expected, NEW parent, NEW p \in Person,
               NEW c \in Content, SubmitRevision(key, expected, parent, p, c)
        PROVE  Contract!Next
    <2>1. /\ status \in Editing /\ status' \in Editing
          /\ currentRevision' = Len(revisions) + 1
      BY <1>5 DEF SubmitRevision, CanSubmitRevision, Editing
    <2>2. currentRevision' \in DOMAIN revisions'
      BY <1>5, <2>1 DEF SubmitRevision, IInv, TypeOK
    <2> QED
      BY <2>1, <2>2, ContentIsEdited DEF Contract!Next
  <1>6. ASSUME NEW key \in Key, NEW expected, Validate(key, expected)
        PROVE  UNCHANGED Visible
    <2>1. /\ status \in Editing /\ status' \in Editing
          /\ UNCHANGED <<rules, currentRevision, terms, revisions>>
      BY <1>6 DEF Validate, CanValidate, Editing, IInv, TypeOK, Status
    <2> QED
      BY <2>1, VerdictIsInvisible
  <1>7. ASSUME NEW key \in Key, NEW expected,
               \/ \E id \in FindingID : ResolveFinding(key, expected, id)
               \/ \E ids \in SUBSET FindingID : ResolveFindings(key, expected, ids)
        PROVE  UNCHANGED Visible
    <2>1. /\ status \in Editing /\ status' \in Editing
          /\ UNCHANGED <<rules, currentRevision, terms, revisions>>
      BY <1>7 DEF ResolveFinding, ResolveFindings, CanResolve, CloseFindings, Editing
    <2> QED
      BY <2>1, VerdictIsInvisible
  <1>8. ASSUME NEW key \in Key, NEW expected, NEW p \in Person,
               NEW d \in {"approve", "return"}, ReviewRevision(key, expected, p, d)
        PROVE  Contract!Next
    BY <1>8, ReviewRevisionDecides DEF Contract!Next
  <1>9. CASE Next
    BY <1>2, <1>3, <1>4, <1>5, <1>6, <1>7, <1>8, <1>9, SubmitForReviewIsSent,
       FreezeIsPublished DEF Next, Contract!Next
  <1> QED
    BY <1>1, <1>9

\* The workflow is an implementation of the contract: whatever the commands and
\* their order, what is published passed inspection as it stands and was approved
\* by a person who did not submit it (internal/application, README.md).
THEOREM WorkflowImplementsContract == Spec => ImplementsContract
  <1>1. Init => Contract!Init
    BY DEF Init, Contract!Init, StageOf, CurrentCandidate, Approver, Published
  <1>2. ASSUME IInv, IInv', [Next]_vars
        PROVE  [Contract!Next]_(Contract!contractVars)
    BY <1>2, StepRefines DEF Visible, Contract!contractVars
  <1> QED
    BY <1>1, <1>2, InvariantHolds, PTL DEF Spec, ImplementsContract, Contract!Spec

=============================================================================
