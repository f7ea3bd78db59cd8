--------------------------- MODULE CaptionWorkflow ---------------------------
(***************************************************************************)
(* The editorial workflow of one caption project: glossary, rules,         *)
(* revisions, validation runs, finding resolution, review and freeze.      *)
(*                                                                         *)
(* Every command of internal/application runs inside one call of           *)
(* store.Repository.Update, which holds the repository's write lock from   *)
(* the clone of the snapshot to the assignment of the new state; a command *)
(* is therefore one action here.  A command that returns an error leaves   *)
(* the snapshot alone, and so does the replay of an idempotency key: both  *)
(* are stuttering steps.  The variables are the fields of                  *)
(* domain.CaptionProject and the entries store.Snapshot keeps for it.      *)
(*                                                                         *)
(* Abstractions.  Identifiers drawn with newID are indices: a revision,    *)
(* review or run is its position in the list it is appended to, a glossary *)
(* term is a member of TermID that was never used.  A digest is the value  *)
(* it is computed from (SHA-256 taken as injective).  What the validation  *)
(* engine reports is the constant Findings; module CaptionValidation is    *)
(* that engine.  The audit anchor of a manifest belongs to the audit log   *)
(* and is not part of this module.                                         *)
(***************************************************************************)
EXTENDS Integers, Sequences, FiniteSets

CONSTANTS
    Content,            \* the cue lists a revision may carry
    Rule,               \* title, languages, frame rate and display range of a project
    TermID,             \* identifiers newID("term") may draw
    SourceOf,           \* the lower-cased source text of each term
    Person,             \* submitters and reviewers, trimmed
    Key,                \* idempotency keys
    FindingID,          \* digests of code, cue sequence and evidence
    Findings(_, _, _),  \* what the engine reports for content, rules and terms
    NoManifest,         \* the project has no manifest
    MaxVersion          \* bound on the accepted commands

ASSUME SourceAssumption == DOMAIN SourceOf = TermID
ASSUME FindingsAssumption ==
    \A c \in Content, r \in Rule, T \in SUBSET TermID :
        Findings(c, r, T) \in Seq(FindingID)
ASSUME BoundAssumption == MaxVersion \in Nat \ {0}

VARIABLES
    status,             \* CaptionProject.Status
    version,            \* CaptionProject.Version, the optimistic lock
    rules,              \* the fields RuleDigest covers
    currentRevision,    \* CaptionProject.CurrentRevisionID, 0 when empty
    glossaryVersion,    \* CaptionProject.GlossaryVersion
    terms,              \* Snapshot.Terms: every term of every glossary version
    revisions,          \* Snapshot.Revisions
    validations,        \* Snapshot.Validations: the valid run of a revision
    validationRuns,     \* Snapshot.ValidationRuns: all runs of each revision
    reviews,            \* Snapshot.Reviews
    manifest,           \* Snapshot.Manifests
    idempotency         \* Snapshot.Idempotency: the remembered commands

projectVars  == <<status, version, rules, currentRevision, glossaryVersion>>
evidenceVars == <<terms, revisions, validations, validationRuns, reviews, manifest>>
vars         == <<projectVars, evidenceVars, idempotency>>

-----------------------------------------------------------------------------
(* Types *)

Status == {"draft", "needs_fix", "validated", "in_review", "returned",
           "approved", "frozen"}

Operation == {"term", "glossary-batch", "rules", "revision", "validate",
              "resolve", "resolve-batch", "submit-review", "review", "freeze"}

Finding  == [id : FindingID, open : BOOLEAN]
Run      == [id : Nat \ {0}, revision : Nat \ {0}, glossaryVersion : Nat,
             rules : Rule, findings : Seq(Finding)]
Revision == [parent : Nat, submittedBy : Person, glossaryVersion : Nat,
             content : Content]
Review   == [revision : Nat \ {0}, reviewer : Person,
             decision : {"approve", "return"}]
Manifest == [revision : Nat \ {0}, review : Nat \ {0}, rules : Rule,
             glossary : SUBSET TermID, content : Content]

ASSUME ManifestAssumption == NoManifest \notin Manifest

\* The snapshot is well formed: every identifier a record carries names a
\* record that exists, and no counter runs past the bound.
TypeOK ==
    /\ status \in Status
    /\ version \in 1..MaxVersion
    /\ rules \in Rule
    /\ glossaryVersion \in Nat
    /\ terms \subseteq [id : TermID, version : Nat]
    /\ revisions \in Seq(Revision)
    /\ currentRevision \in 0..Len(revisions)
    /\ DOMAIN validations \subseteq DOMAIN revisions
    /\ \A r \in DOMAIN validations : validations[r] \in Run
    /\ validationRuns \in Seq(Seq(Run))
    /\ Len(validationRuns) = Len(revisions)
    /\ reviews \in Seq(Review)
    /\ manifest \in Manifest \cup {NoManifest}
    /\ idempotency \subseteq Operation \X Key

-----------------------------------------------------------------------------
(* The frame every command shares.  Operators named Bug... are faults the    *)
(* code might have had: each shows that a property below can fail.           *)

BugKeyNotRemembered(op, key) ==
    <<op, key>> \notin idempotency /\ idempotency' = idempotency

\* replay and remember: a key is executed once per operation.
Remembered(op, key) ==
    /\ <<op, key>> \notin idempotency
    /\ idempotency' = idempotency \cup {<<op, key>>}

\* CheckVersion at the head of a command.
CheckVersion(expected) == expected = version

BugTouchedTwice == version < MaxVersion /\ version' = version + 2

\* Touch at its end; MaxVersion bounds the run.
Touch ==
    /\ version < MaxVersion
    /\ version' = version + 1

Command(op, key, expected) ==
    /\ Remembered(op, key)
    /\ CheckVersion(expected)
    /\ Touch

-----------------------------------------------------------------------------
(* Queries the commands use *)

TermsAt(v) == {t.id : t \in {u \in terms : u.version = v}}

CurrentTerms == TermsAt(glossaryVersion)

IsLatestReview(d, r) ==
    /\ d \in DOMAIN reviews
    /\ reviews[d].revision = r
    /\ \A e \in DOMAIN reviews : e > d => reviews[e].revision # r

HasBlocking(run) == \E i \in DOMAIN run.findings : run.findings[i].open

\* A Go map after m[k] = v, and after delete(m, k).
Put(m, k, v)  == [x \in DOMAIN m \cup {k} |-> IF x = k THEN v ELSE m[x]]
Delete(m, k)  == [x \in DOMAIN m \ {k} |-> m[x]]

\* The run SubmitForReview and ResolveFindings accept: it is about the current
\* revision, the current glossary and the current rules.
CurrentRunIsFresh ==
    /\ currentRevision \in DOMAIN validations
    /\ validations[currentRevision].revision = currentRevision
    /\ validations[currentRevision].glossaryVersion = glossaryVersion
    /\ validations[currentRevision].rules = rules

-----------------------------------------------------------------------------
(* Glossary commands *)

BugGlossaryMutableInReview == status # "frozen"
BugGlossaryMutableWhenFrozen == status \notin {"in_review", "approved"}

\* EnsureMutable and the review-stage check of AddTerm and ImportGlossary.
GlossaryMutable == status \notin {"frozen", "in_review", "approved"}

\* The current terms are moved to the next version instead of copied.
BugTermsRetagged(added) ==
    /\ glossaryVersion' = glossaryVersion + 1
    /\ terms' = {t \in terms : t.version # glossaryVersion}
                \cup [id : CurrentTerms \cup added, version : {glossaryVersion + 1}]

\* The next glossary version: a copy of the current terms and the added ones.
AddGlossaryVersion(added) ==
    /\ glossaryVersion' = glossaryVersion + 1
    /\ terms' = terms \cup [id : CurrentTerms \cup added,
                             version : {glossaryVersion + 1}]

\* newID never draws an identifier twice.
FreshTerms == TermID \ {t.id : t \in terms}

AddTerm(key, expected, term) ==
    /\ Command("term", key, expected)
    /\ GlossaryMutable
    /\ term \in FreshTerms
    /\ AddGlossaryVersion({term})
    /\ UNCHANGED <<status, rules, currentRevision, revisions, validations,
                   validationRuns, reviews, manifest>>

\* A batch is imported as a whole, and only when no source text occurs twice
\* in it or already in the current glossary.
ImportGlossary(key, expected, batch) ==
    /\ Command("glossary-batch", key, expected)
    /\ GlossaryMutable
    /\ batch # {} /\ batch \subseteq FreshTerms
    /\ \A t \in batch, u \in batch \cup CurrentTerms :
          SourceOf[t] = SourceOf[u] => t = u
    /\ AddGlossaryVersion(batch)
    /\ UNCHANGED <<status, rules, currentRevision, revisions, validations,
                   validationRuns, reviews, manifest>>

-----------------------------------------------------------------------------
(* Rules and revisions *)

BugRulesMutableUnlessFrozen == status # "frozen"
BugRulesAlwaysMutable == TRUE

RulesMutable == status \in {"draft", "returned"}

\* New rules void the valid run of the current revision, not its history.
UpdateProjectRules(key, expected, newRules) ==
    /\ Command("rules", key, expected)
    /\ RulesMutable
    /\ rules' = newRules
    /\ validations' = Delete(validations, currentRevision)
    /\ UNCHANGED <<status, currentRevision, glossaryVersion, terms, revisions,
                   validationRuns, reviews, manifest>>

BugCanSubmitRevision == status \in {"draft", "needs_fix", "returned", "validated"}

CanSubmitRevision == status \in {"draft", "needs_fix", "returned"}

\* SubmitRevision and CaptionProject.SetRevision: the parent, when given, must
\* be the current revision, and is taken to be when it is not given (0).
SubmitRevision(key, expected, parent, submitter, content) ==
    /\ Command("revision", key, expected)
    /\ CanSubmitRevision
    /\ parent \in {0, currentRevision}
    /\ revisions' = Append(revisions,
          [parent |-> currentRevision, submittedBy |-> submitter,
           glossaryVersion |-> glossaryVersion, content |-> content])
    /\ validationRuns' = Append(validationRuns, <<>>)
    /\ currentRevision' = Len(revisions) + 1
    /\ status' = "draft"
    /\ UNCHANGED <<rules, glossaryVersion, terms, validations, reviews, manifest>>

-----------------------------------------------------------------------------
(* Validation and resolution *)

\* What the engine finds in revision r under the present rules and the terms
\* of the glossary version the revision was submitted with, all of it open.
Inspection(r) ==
    LET ids == Findings(revisions[r].content, rules,
                        TermsAt(revisions[r].glossaryVersion))
    IN  [i \in 1..Len(ids) |-> [id |-> ids[i], open |-> TRUE]]

NewRun(r) ==
    [id |-> Len(validationRuns[r]) + 1, revision |-> r,
     glossaryVersion |-> revisions[r].glossaryVersion, rules |-> rules,
     findings |-> Inspection(r)]

\* MarkValidated refuses these statuses and a project without a revision.
CanValidate ==
    /\ currentRevision # 0
    /\ status \notin {"frozen", "in_review", "approved"}

Validate(key, expected) ==
    /\ Command("validate", key, expected)
    /\ CanValidate
    /\ LET r == currentRevision
           run == NewRun(r)
       IN  /\ status' = IF HasBlocking(run) THEN "needs_fix" ELSE "validated"
           /\ validations' = Put(validations, r, run)
           /\ validationRuns' =
                 [validationRuns EXCEPT ![r] = Append(validationRuns[r], run)]
    /\ UNCHANGED <<rules, currentRevision, glossaryVersion, terms, revisions,
                   reviews, manifest>>

BugHistoryLeftAlone(run) == validationRuns
BugHistoryOverwritten(run) ==
    [validationRuns EXCEPT ![run.revision] = [i \in DOMAIN @ |-> run]]

\* updateValidationHistory: the run of the same identifier is replaced.
UpdatedHistory(run) ==
    [validationRuns EXCEPT ![run.revision] =
        [i \in DOMAIN validationRuns[run.revision] |->
            IF validationRuns[run.revision][i].id = run.id
            THEN run ELSE validationRuns[run.revision][i]]]

\* A run after the findings at these positions are closed.
Closed(run, positions) ==
    [run EXCEPT !.findings =
        [i \in DOMAIN run.findings |->
            IF i \in positions THEN [run.findings[i] EXCEPT !.open = FALSE]
                               ELSE run.findings[i]]]

\* Closing the last finding releases the revision.
BugClosingReleases(positions) ==
    LET closed == Closed(validations[currentRevision], positions)
    IN  /\ validations' = Put(validations, currentRevision, closed)
        /\ validationRuns' = UpdatedHistory(closed)
        /\ status' = IF HasBlocking(closed) THEN status ELSE "validated"
        /\ UNCHANGED <<rules, currentRevision, glossaryVersion, terms,
                       revisions, reviews, manifest>>

\* Both resolve commands: each finding at these positions must be open; all are
\* closed, in the valid run and in the history.
CloseFindings(positions) ==
    LET run    == validations[currentRevision]
        closed == Closed(run, positions)
    IN  /\ \A i \in positions : run.findings[i].open
        /\ validations' = Put(validations, currentRevision, closed)
        /\ validationRuns' = UpdatedHistory(closed)
        /\ UNCHANGED <<status, rules, currentRevision, glossaryVersion, terms,
                       revisions, reviews, manifest>>

CanResolve == status = "needs_fix" /\ CurrentRunIsFresh

\* An identifier may occur twice among the findings of a run: the single
\* command takes its first occurrence, the batch its last.
FirstOf(findings, id) ==
    {i \in DOMAIN findings : /\ findings[i].id = id
                             /\ \A j \in 1..(i - 1) : findings[j].id # id}
LastOf(findings, id) ==
    {i \in DOMAIN findings : /\ findings[i].id = id
                             /\ \A j \in DOMAIN findings :
                                   j > i => findings[j].id # id}

ResolveFinding(key, expected, id) ==
    /\ Command("resolve", key, expected)
    /\ CanResolve
    /\ LET positions == FirstOf(validations[currentRevision].findings, id)
       IN  positions # {} /\ CloseFindings(positions)

\* The batch is applied as a whole or not at all.
ResolveFindings(key, expected, ids) ==
    /\ Command("resolve-batch", key, expected)
    /\ CanResolve
    /\ LET Position(id) == LastOf(validations[currentRevision].findings, id)
       IN  /\ ids # {} /\ \A id \in ids : Position(id) # {}
           /\ CloseFindings(UNION {Position(id) : id \in ids})

-----------------------------------------------------------------------------
(* Review and freeze *)

SubmitForReview(key, expected) ==
    /\ Command("submit-review", key, expected)
    /\ CurrentRunIsFresh
    /\ ~HasBlocking(validations[currentRevision])
    /\ status = "validated"
    /\ status' = "in_review"
    /\ UNCHANGED <<rules, currentRevision, glossaryVersion, evidenceVars>>

BugAnyReviewer(reviewer) == TRUE

\* Nobody reviews the revision he or she submitted.
IsIndependent(reviewer) == reviewer # revisions[currentRevision].submittedBy

ReviewRevision(key, expected, reviewer, decision) ==
    /\ Command("review", key, expected)
    /\ currentRevision # 0
    /\ IsIndependent(reviewer)
    /\ status = "in_review"
    /\ status' = IF decision = "approve" THEN "approved" ELSE "returned"
    /\ reviews' = Append(reviews, [revision |-> currentRevision,
                                   reviewer |-> reviewer, decision |-> decision])
    /\ UNCHANGED <<rules, currentRevision, glossaryVersion, terms, revisions,
                   validations, validationRuns, manifest>>

\* What Freeze and FreezePreview demand of the evidence besides the status.
EvidenceForFreeze(d) ==
    LET r == currentRevision IN
    /\ r # 0
    /\ IsLatestReview(d, r) /\ reviews[d].decision = "approve"
    /\ r \in DOMAIN validations
    /\ validations[r].rules = rules
    /\ validations[r].glossaryVersion = revisions[r].glossaryVersion
    /\ ~HasBlocking(validations[r])

NewManifest(d) ==
    [revision |-> currentRevision, review |-> d, rules |-> rules,
     glossary |-> TermsAt(revisions[currentRevision].glossaryVersion),
     content  |-> revisions[currentRevision].content]

\* FreezePreview: the manifest the next Freeze would make, if there is one.
FreezePreview ==
    {NewManifest(d) : d \in {e \in DOMAIN reviews :
                                status = "approved" /\ EvidenceForFreeze(e)}}

Freeze(key, expected, d) ==
    /\ Command("freeze", key, expected)
    /\ EvidenceForFreeze(d)
    /\ status = "approved"
    /\ status' = "frozen"
    /\ manifest' = NewManifest(d)
    /\ UNCHANGED <<rules, currentRevision, glossaryVersion, terms, revisions,
                   validations, validationRuns, reviews>>

-----------------------------------------------------------------------------
(* CreateProject *)
Init ==
    /\ status = "draft"
    /\ version = 1
    /\ rules \in Rule
    /\ currentRevision = 0
    /\ glossaryVersion = 0
    /\ terms = {}
    /\ revisions = <<>>
    /\ validations = [r \in {} |-> 0]
    /\ validationRuns = <<>>
    /\ reviews = <<>>
    /\ manifest = NoManifest
    /\ idempotency = {}

Next == \E key \in Key, expected \in 1..MaxVersion :
    \/ \E t \in TermID : AddTerm(key, expected, t)
    \/ \E batch \in SUBSET TermID : ImportGlossary(key, expected, batch)
    \/ \E r \in Rule : UpdateProjectRules(key, expected, r)
    \/ \E parent \in 0..Len(revisions), p \in Person, c \in Content :
          SubmitRevision(key, expected, parent, p, c)
    \/ Validate(key, expected)
    \/ \E id \in FindingID : ResolveFinding(key, expected, id)
    \/ \E ids \in SUBSET FindingID : ResolveFindings(key, expected, ids)
    \/ SubmitForReview(key, expected)
    \/ \E p \in Person, d \in {"approve", "return"} :
          ReviewRevision(key, expected, p, d)
    \/ \E d \in DOMAIN reviews : Freeze(key, expected, d)

Spec == Init /\ [][Next]_vars

-----------------------------------------------------------------------------
(* Safety *)

\* Each accepted command is remembered under its key and moves the version by
\* exactly one, so two commands never succeed on the same expectedVersion and
\* none is executed without becoming replayable (service.go replay/remember,
\* project.go Touch).
CommandsAreCounted == version = 1 + Cardinality(idempotency)

\* The valid run of a revision and the last entry of its history are the same
\* record although Validate, ResolveFinding and ResolveFindings write the two
\* separately and UpdateProjectRules deletes only the first (revisions.go,
\* findings_batch.go, project_rules.go).
ValidRunIsLastOfHistory ==
    \A r \in DOMAIN validations :
        /\ validationRuns[r] # <<>>
        /\ validations[r] = validationRuns[r][Len(validationRuns[r])]

\* What is under review, approved or frozen has a run that found nothing, made
\* for that revision under the rules and the glossary version still in force:
\* nothing the run depended on moved after it (review.go SubmitForReview, and
\* every guard that keeps glossary and rules still afterwards).
ReviewedRunIsValid ==
    status \in {"in_review", "approved", "frozen"} =>
        /\ CurrentRunIsFresh
        /\ validations[currentRevision].findings = <<>>
        /\ revisions[currentRevision].glossaryVersion = glossaryVersion

\* An approval is never stranded: whatever happened before it, the evidence
\* Freeze and FreezePreview ask for is there (review.go Freeze).
ApprovedCanFreeze ==
    status = "approved" => \E d \in DOMAIN reviews : EvidenceForFreeze(d)

\* A frozen project passes the snapshot checks of Verify and can be exported
\* (export.go Verify, Export); no other project has a manifest.
SnapshotVerifies ==
    LET r == manifest.revision IN
    /\ r \in DOMAIN revisions
    /\ revisions[r].content = manifest.content
    /\ TermsAt(revisions[r].glossaryVersion) = manifest.glossary
    /\ rules = manifest.rules
    /\ IsLatestReview(manifest.review, r)
    /\ reviews[manifest.review].decision = "approve"
FrozenVerifies ==
    IF status = "frozen"
    THEN manifest # NoManifest /\ SnapshotVerifies
    ELSE manifest = NoManifest

\* A revision in which any run ever found something is held in needs_fix while
\* it is current: neither closing its findings nor running the engine again
\* lets it through (README.md: closing old findings in a batch does not release
\* them for review, a replacement revision is needed).
FindingsHoldRevision ==
    (/\ currentRevision # 0
     /\ \E i \in DOMAIN validationRuns[currentRevision] :
           validationRuns[currentRevision][i].findings # <<>>)
    => status = "needs_fix"

\* What the workbench tells its user to do about an outdated validation
\* ("validate again before sending for review", app.js) would then work: a
\* project in validated that passes inspection again gets a run SubmitForReview
\* accepts.  It does not hold: Validate reuses the glossary version the revision
\* was submitted with (revisions.go Validate, review.go SubmitForReview).
RevalidationSuffices ==
    status = "validated" /\ Inspection(currentRevision) = <<>>
        => NewRun(currentRevision).glossaryVersion = glossaryVersion

-----------------------------------------------------------------------------
(* Action properties *)

\* A frozen project never changes again, whatever command is sent to it
\* (project.go EnsureMutable and the status guards).
FrozenIsFinal == [][status # "frozen"]_vars

\* What FreezePreview shows is what will be frozen: from the preview on the project
\* takes no command but the freeze, and that publishes the manifest the lead has
\* read (review_queries.go FreezePreview and review.go Freeze, which look the
\* evidence up separately; README.md: preview the manifest after the approval, then
\* confirm).
PreviewIsFrozen ==
    [][FreezePreview # {} =>
         status' = "frozen" /\ manifest' \in FreezePreview]_vars

\* The consequence: a project that is validated with a revision older than the
\* glossary stays so.  It can neither be sent for review (stale run), nor take a
\* new revision or new rules (wrong status), nor find anything new when validated
\* again, and the glossary only moves further (rules.go CanSubmitRevision against
\* project.go SetRevision, which would accept a revision in this status).
IsStranded ==
    /\ status = "validated"
    /\ revisions[currentRevision].glossaryVersion < glossaryVersion
StrandedForever == [][IsStranded => IsStranded']_vars

IsPrefixOf(s, t) == Len(s) <= Len(t) /\ \A i \in 1..Len(s) : t[i] = s[i]

\* Evidence is only ever added: submitted revisions and decisions stay as they
\* are, no run disappears from the history, and the terms of a glossary version
\* that exists are never altered, although each later version is built from
\* them (projects.go AddTerm, glossary_batch.go ImportGlossary).
EvidenceOnlyGrows ==
    [][/\ IsPrefixOf(revisions, revisions')
       /\ IsPrefixOf(reviews, reviews')
       /\ \A r \in DOMAIN validationRuns :
             Len(validationRuns[r]) <= Len(validationRuns'[r])
       /\ \A v \in 0..glossaryVersion : TermsAt(v)' = TermsAt(v)]_vars

\* A recorded run keeps its findings, its rules and its glossary version: all
\* that may happen to it is that an open finding is closed, and only in the run
\* that is still valid (revisions.go updateValidationHistory).
SameButClosed(run, later) ==
    /\ [later EXCEPT !.findings = run.findings] = run
    /\ DOMAIN later.findings = DOMAIN run.findings
    /\ \A i \in DOMAIN run.findings :
          /\ later.findings[i].id = run.findings[i].id
          /\ later.findings[i].open => run.findings[i].open
FindingsOnlyClose ==
    [][\A r \in DOMAIN validationRuns : \A i \in DOMAIN validationRuns[r] :
         LET run == validationRuns[r][i]
             later == validationRuns'[r][i]
         IN  \/ later = run
             \/ /\ r = currentRevision /\ i = Len(validationRuns[r])
                /\ SameButClosed(run, later)]_vars

-----------------------------------------------------------------------------
(* Implementation of PublicationContract *)

Candidates == [content : Content, rules : Rule, glossary : SUBSET TermID,
               author : Person]

ASSUME CandidateAssumption == NoManifest \notin Candidates

\* What a freeze would publish of revision r.
CandidateOf(r) ==
    [content |-> revisions[r].content, rules |-> rules,
     glossary |-> TermsAt(revisions[r].glossaryVersion),
     author |-> revisions[r].submittedBy]

StageOf == CASE status = "in_review" -> "reviewing"
             [] status = "approved"  -> "approved"
             [] status = "frozen"    -> "published"
             [] OTHER                -> "editing"

CurrentCandidate ==
    IF currentRevision = 0 THEN NoManifest ELSE CandidateOf(currentRevision)

\* The person whose approval is in force.
Approver == IF status \in {"approved", "frozen"}
            THEN reviews[Len(reviews)].reviewer ELSE NoManifest

Published ==
    IF manifest = NoManifest THEN NoManifest
    ELSE [content |-> manifest.content, rules |-> manifest.rules,
          glossary |-> manifest.glossary,
          author |-> revisions[manifest.revision].submittedBy]

Contract == INSTANCE PublicationContract WITH
    Candidate <- Candidates,
    Clean     <- LAMBDA c : Findings(c.content, c.rules, c.glossary) = <<>>,
    Author    <- LAMBDA c : c.author,
    None      <- NoManifest,
    stage     <- StageOf,
    candidate <- CurrentCandidate,
    approver  <- Approver,
    published <- Published

\* What the workflow publishes is a candidate that passed inspection, did not
\* change while it was reviewed and approved, and was approved by someone who
\* did not submit it.
ImplementsContract == Contract!Spec

=============================================================================
