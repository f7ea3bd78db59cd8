# A formal model of stagecaption-finalizer

`stagecaption-finalizer` is a service in which a theatre's translators, reviewers
and caption managers bring the subtitles of a production to their final form. A
project gets a glossary and display rules, revisions of its cue list are submitted
and checked by a deterministic validation engine, a second person reviews them,
and the result is frozen with a manifest of digests, exported and verified. This
directory holds TLA+ modules of that service, TLC configurations that check them on
small instances, and TLAPS proofs, for every instance, of all the safety properties
that hold. All paths below are relative to `src/`.

## 1. The system

| Part | State | Operations | Talks to |
| --- | --- | --- | --- |
| Editorial commands, `internal/application` with `internal/domain` | the entries of `store.Snapshot` for a project: `CaptionProject` (status, version, rules, current revision, glossary version), terms, revisions, valid run and history of runs, reviews, manifest, idempotency records | CreateProject, AddTerm, ImportGlossary, UpdateProjectRules, SubmitRevision, Validate, ResolveFinding, ResolveFindings, SubmitForReview, Review, Freeze | one `Repository.Update` per command; the engine, inside the update |
| Validation engine, `internal/validation` | none | Engine.Validate: timing rules, glossary rules, identifiers of findings | called by Validate |
| Comparison, `internal/domain/cue.go`, `history_queries.go` | none | DiffCues, CompareValidationRuns, history and filters | `Repository.Read` |
| Store, `internal/store` | memory: state, events, head; disk: `audit.jsonl`, `projection.json`; locks: one mutex per project, one RWMutex | Open/recover, Read, Update, AuditHead, Events, VerifyAudit, VerifyAuditAnchor, VerifyProjection, Statistics | the file system |
| Exports and verification, `export.go`, `review_queries.go` | none | Export, ExportItem, Verify, FreezePreview | several lock sections of the store each |
| HTTP handler, `internal/web` | none | decode, call, encode; error to status code | the service |
| Workbench, `internal/web/assets/app.js` | the selected project, the last workspace, what its panes were filled from | select, create, load, filter, send a command and load again | the handler, asynchronously |
| Server and self-check, `cmd/server` | two goroutines, a channel with the address, a data directory that outlives them | start; a client that walks the whole workflow under fixed keys | the handler over HTTP; whoever else has the directory |

How they interact. Every command is a closure run by `Repository.Update` on a clone
of the snapshot of *all* projects, under the mutex of its project and then the
write lock. A closure that returns an error changes nothing; one that leaves the
clone equal to the state (the replay of an idempotency key) writes nothing.
Otherwise an event with the whole new snapshot is appended to the log and synced,
the projection is replaced, and only then do the assignments to memory follow.
Readers get a clone under the read lock.

What is hard about it:

* *Sequences of legal commands.* Review and freeze rely on evidence (a revision,
  a run, a decision) recorded several commands earlier, while rules and glossary
  have versions of their own. The guards that keep them still are spread over nine
  files.
* *Copies.* The valid run is kept beside its history; a glossary version is a copy
  of the previous one; a manifest repeats digests that Verify recomputes from live
  state.
* *Crashes, failed file operations and retries.* A client whose answer was lost
  sends its command again under the same key; the log may end in half a line.
* *Interleaving.* Freeze, FreezePreview, ExportItem and Verify are not one lock
  section; Export takes the read lock while holding it.
* *Callbacks.* Every event handler of the page is an asynchronous function over two
  globals; its requests overlap with those of the others, are answered in any order
  or not at all.
* *Two processes.* The self-check and a normal server have the same defaults for
  address and directory, and each appends to the log from its own memory.
* *Boundaries.* Differences of extreme times, cues that are out of order, numbers
  that repeat, phrases contained in one another, case folding.

What makes each part correct is the list of properties in section 4; every place
in the code where it could go wrong is in `PROJECT.json` under `hazards`, with
the properties that watch it.

## 2. Modules

```
PublicationContract <== CaptionWorkflow <-- CaptionWorkflowProofs <-- PublicationContractProofs
                              ^-- MCCaptionWorkflow
CommandLedger       <== AuditStore <-- MCAuditStore, AuditStoreProofs
                    RepositoryAccess <-- MCRepositoryAccess, RepositoryAccessProofs
                    CaptionValidation <-- MCCaptionValidation, CaptionValidationProofs
                    Workbench <-- MCWorkbench, WorkbenchProofs
                    Selfcheck <-- SelfcheckProofs
        (<== implements,  <-- extends)
```

The detailed modules are views of one program, cut where the code cuts
it. `CaptionWorkflow` takes a command as one step because `Update` holds the write
lock from clone to assignment; that the lock does this is what `RepositoryAccess`
checks (`UpdatesAreSerial`), and that a step is not lost or repeated by crashes is
what `AuditStore` checks (`AppliedOnce`, `ImplementsLedger`). The engine is the
operator `Findings` there and the subject of `CaptionValidation`. The two clients,
`Workbench` and `Selfcheck`, see the service as a version they must name and as
keys that are known or not. Operators named
`Bug...` beside a definition are plausible faults of that definition. No next-state
relation uses them; with one of them in place of the definition, the
property it is listed for in `PROJECT.json` fails.

### CaptionWorkflow: one project from creation to manifest

| Variable | In the code |
| --- | --- |
| `status`, `version`, `currentRevision`, `glossaryVersion` | fields of `CaptionProject` (`types.go`) |
| `rules` | the fields `RuleDigest` covers, as one value |
| `terms` | `Snapshot.Terms`: all terms of all versions, each with its version |
| `revisions`, `reviews` | `Snapshot.Revisions`, `Snapshot.Reviews`: append-only lists |
| `validations`, `validationRuns` | the valid run of a revision, and all runs of it |
| `manifest` | `Snapshot.Manifests` |
| `idempotency` | `Snapshot.Idempotency`, as pairs of operation and key |

There is one action per command. `Command(op, k)` is the head all of them share: the
key is new, the expected version is the present one, the version is incremented and
the key remembered. A refused command and a replayed one are stuttering steps,
which is what the code makes of them. Guards follow the code's early returns in
order where the order matters. A digest stands for what it is computed from, an
identifier for the position in the list it is appended to.

`PublicationContract` says what this is for, without versions and runs: what is
published is the candidate that was sent for review, unchanged, clean, and
approved by someone other than its author. The refinement mapping at the end of
`CaptionWorkflow` makes a candidate from the current revision, the rules, and the
terms of the revision's glossary version.

### AuditStore: disk, crashes, restarts

The log is a sequence of lines: the text of an event or a part of one (`Fragment`),
and whether its newline was written. `Update` is split at its file operations: `Begin`, `WriteEvent`, `SyncLog`,
`RenameProjection`, `SyncDirectory`, `Commit`. Three faults can meet it anywhere:

* `Crash`: the machine stops. The synced part of the log survives and any prefix of
  the rest, down to half an event.
* `Kill`: the process stops and the machine goes on. What was written stays in the
  file, synced or not, and the next process reads it; until something syncs the log
  a crash may still take it (`hasty` are the commands acknowledged on such ground).
* `WriteFails`, `LateStepFails`: a file operation returns an error. What had
  reached the disk stays there, the memory does not follow, as in the code.

The first may always happen; which of the others may is chosen for each behaviour
(`faults`), so that one run covers every combination and each property
can say under which it holds. `Open` succeeds exactly when `recover` accepts the
file: one event per line, sequence numbers and digests chained. The two readers of
the log differ as in the code: `recover` reads lines, `readPersistedEvents` a stream
of JSON values, so a newline that is missing between two events is an error to one
and nothing to the other. `CommandLedger` is the promise to clients: a growing list
that takes each command once and acknowledges only what it holds.

### RepositoryAccess: who holds which lock when

A request is a list of instructions (`Program`), executed one at a time. The
RWMutex behaves as documented by Go: `Lock` announces itself, later `RLock`s wait
behind the announcement, `Unlock` lets in all readers that wait. Project mutexes
are separate. Programs: an edit of another project, a freeze, its preview,
the bundle, one exported item, the verification. An error drops the rest of the
program except the deferred unlocks.

### CaptionValidation: what the engine and the comparisons compute

| Variable | In the code |
| --- | --- |
| `limits` | the display range of the project, which UpdateProjectRules changes |
| `terms` | the current glossary, in the order of its versions |
| `revisions` | the submitted cue lists, each with the glossary version of its submission |

The engine and the comparisons are pure functions, here operators. A run is what the
engine says of a revision under *its own* glossary version and the range of the day
(`RunOf`), as in `revisions.go`, so two runs that are compared may differ in
cues, glossary and range. A text is known by which texts occur in it (`Within`), what
it is in lower case, and which texts `EqualFold` takes for the same, of which
nothing is assumed but that it is reflexive: it is another relation than equality of
lower cases. Times are machine words whose difference wraps around (`Minus`); a
finding carries the place where it was raised beside the input of its
identifier, so that two findings with one identifier stay two. `DiffCues` goes
through a map from sequence number to cue, the last of equal numbers winning. What
a client sends is a list of cues, a range or a term, or the decoder refuses it. An
import is its terms one by one. Which status takes which of these commands is the
matter of `CaptionWorkflow`; here they come in any order.

### Workbench: the page and its event handlers

| Variable | In the code |
| --- | --- |
| `project`, `workspace` | the globals of `app.js` |
| `findings`, `downloads` | what the findings pane was rendered from, and the project in the download links |
| `call` | the activations of event handlers: what each waits for, or the answer that waits for it |
| `stale` | an observation: the load issued last was lost or overtaken |
| `late` | an observation: the findings pane is what an overtaken filter left in it |
| `server` | what GetWorkspace would answer of each project |

A handler is split at its awaits. `Select`, `Create`, `Send` and `Filter` run up to
the first one; `AnswerWorkspace`, `AnswerFindings`, `AnswerList`, `AnswerCreate`,
`Accept` and `Refuse` are the service; `ShowWorkspace`, `ShowFindings`,
`TakeCreated`, `TakeList`, `TakeAccepted` and `TakeRefused` go on after an answer;
`Lose` is a request or an answer that does not arrive; `Reload` starts the page
again, while what it had sent may still be executed (`Elsewhere`, which is every
other client too). A command carries the path of the project selected when it was
sent and the version of the workspace shown then, which need not be of one project.
`ShowWorkspace` includes the exception that a project without revisions
raises half-way through. `ShowFindings` fills the pane with the answer of a filter,
whichever project is selected or shown by then (`app.js:238`). The page is `Settled`
when no load is under way and the one issued last was shown last; commands and
filters may be on their way, and an overtaken filter does not unsettle it.

### Selfcheck: one process, two goroutines, a directory that stays

`Start`, `Open`, `Listen` and `ServerFails` are `runServer`; `AwaitAddress`, `Send`,
`Receive`, `Finish`, `ReceiveError` and `Timeout` are `runSelfcheck`; `Answer`,
`Write`, `Commit` and `Refuse` are the handler, with the log and the memory apart,
so that a timeout or a `Kill` may fall between them. `StartOther`, `OtherCommand`
and `StopOther` are a normal server on the same directory, before, after or beside,
and its users; `VisitorCommand` is a user of the self-check's own listener. Both may
send every command the service has, on other projects or on the self-check's own:
terms, rules, revisions, under the name of its reviewer too, validation, resolution,
sending, either review and the freeze. The directory keeps how far the workflow of the
self-check has come, and the next run replays that far; of the project it keeps what
the guards of commands ask (`Project`) and, as an observation, what others did to it
(`touched`).

## 3. Runs

| Run | Instance | Shows |
| --- | --- | --- |
| `workflow` | two contents, two rule sets, two terms with one source text, two people, two keys per operation, 12 commands (111,410 states) | the invariants and action properties of the workflow, and the refinement of `PublicationContract` |
| `workflow_stranded` | as above, 6 commands | **violated**, finding 1 |
| `audit_store` | 3 commands, 5 events, every combination of crashes, kills and failing file operations (567,461 states) | what is acknowledged survives, nothing is applied twice, crashes never look like tampering; refinement of `CommandLedger` |
| `audit_store_failed_write` | 3 events, file operations fail | **violated**, finding 2 |
| `audit_store_reopen` | 3 events, crashes only | **violated**, finding 3 |
| `repository_access` | two editors of one project, of whom one also freezes the other project, beside previews, downloads and verifications, 4 events (114,470 states) | no lost update; Verify never accuses; every request is answered, under fairness |
| `repository_downloads` | a freeze and two downloads | **violated**, finding 4 |
| `repository_bundle` | a freeze, an edit and a bundle | **violated**, finding 5 |
| `validation` | up to 3 cues anywhere in a 3-bit word under two display ranges; up to 2 cues of any texts with up to 2 terms of 96 inputs; pairs of revisions of up to 3 cues, a term before or between them, runs under any two ranges (1.10 million states) | the timing rules are exactly playability; identifiers; which terms can be honoured; diff and comparison |
| `workbench` | two projects, two handlers at a time, versions to 3 (6.44 million states) | once no load is under way, lost or overtaken, the page shows what is selected; commands act on what was seen |
| `selfcheck` | the seven commands and two events of others, one of them on its project (1.25 million states) | reruns are replayed and go on, unless others touched the project; success is real; it ends once it is served |
| `selfcheck_hangs` | the same | **violated**, finding 6 |

### Bounds, and why they are enough

* `Key = {1, 2}`: an operation can be accepted twice. The defects looked for need
  an operation before and after another one (validate, return, validate; review,
  return, review); `KeysInOrder` is a symmetry, since keys are only compared for
  equality within one operation. `MaxVersion = 12` lets a project be returned once
  and still be frozen: submit, validate, send, return, submit, validate, send,
  approve, freeze are nine commands.
* `Findings` is a table with the shapes that matter: one content that always fails
  and reports one identifier twice, another whose verdict changes with the rules
  and with one of the terms.
* `MaxEvents` in `AuditStore` leaves three commands two attempts that are lost. An
  event is formed anew in each attempt, so the bound counts attempts; a fault, the
  restart after it, an event on top of what it left and the restart after that are
  two events.
* In `RepositoryAccess` each goroutine serves requests of its kinds again and again,
  so a request may meet an earlier or later one of any kind; four events are the
  creation, a freeze and two edits, which meet in any order.
* Words of three bits contain every order of two ends of a cue, both extremes and
  every wrap-around; the rules only compare, subtract and test neighbours, so that
  three cues show all that a chain of neighbours can hide.
* What clients send may depend on the state (`CueList`, `RangeInput`, `TermInput`),
  which cuts an instance to size: any terms come before a single revision of worded
  cues, cues anywhere in time have no glossary, a second revision or a later term
  follows only a revision made for it, and the range changes only around timed cues.
  The properties are about states, and those about two runs quantify over every
  pair of ranges, so this is no loss.
* The glossary instance has texts that contain one another, that differ in case
  only, and the empty text; two terms suffice for every interplay of two terms.
* In `Workbench` two activations at a time are every pair of handlers that can
  meet, and either may end and begin again as another one. Version 3 is a project
  that was created, revised and frozen. The proofs of section 5 are for any number
  of both.
* In `Selfcheck` nine events are the seven of the self-check and two of others, before,
  between or after them. One of these may be a command on its project: each of them
  makes the version old, an added term the glossary, and the others the status. The
  safety properties were also checked once with two (7.46 million states), and are
  proved for any number.

Deadlock is checked except where the system may stop: a frozen project, a log that
no process can open, exhausted bounds, and the run whose subject is the deadlock.
It is checked in `repository_access`, `workbench` and both runs of the self-check.

### Fairness

`RepositoryAccess`: weak fairness of each request's next step stands for the Go
scheduler, which runs every goroutine that can run; between two locks a request
waits for nothing but the disk. `LockProject` and `Announce` acquire a `sync.Mutex`,
the one inside the RWMutex included, and are strongly fair because such a mutex is
handed to a waiter that has starved for a millisecond. No fairness is put on the
arrival of requests.

`Selfcheck`: weak fairness of the goroutine of `runServer` and of that of
`runSelfcheck`, the timeout of its HTTP client included, which is a timer. There is
none on the handler: that the self-check ends does not need it, and finding 5 says
that a request may indeed hang.

The workflow is driven by people, who owe it nothing, and so is the page: they
have no fairness and no liveness. `AuditStore` has none either, since after some
crashes no start succeeds.

### Findings

Each is a run whose only property states what a document, a test or a text of the
workbench says, and which TLC finds violated:

1. *Stranded projects* (`revisions.go:86`). If the glossary changes after a revision
   was submitted, Validate still inspects it against the glossary of its submission;
   a clean verdict makes the project `validated`, SubmitForReview refuses the run
   for its glossary version, `CanSubmitRevision` refuses a new revision in
   this status, and validating again repeats the same. `StrandedForever` is the
   general form, checked and proved: there is no way out.
2. *A failed write breaks the chain* (`repository.go:80`).
3. *A log that verifies but does not open* (`persistence.go:104`).
4. *Two downloads of frozen audit records differ* (`export.go:54`).
5. *Export can stop the whole service* (`export.go:46`): a read lock taken twice
   with a writer in between.
6. *A self-check that never ends* (`cmd/server/main.go:78`). It waits for the
   address of a server whose error nobody reads: with a server already running on
   the default address it hangs and prints nothing. (Built without cgo, the Go runtime
   may notice that all goroutines are asleep and abort it, which is no end by itself
   either.) `EndsOnceServed` is what remains.

Limits of the code that no document speaks against are not findings; the
properties name them as their exceptions, and `PROJECT.json` notes them at the
hazard: a page whose last load was lost or overtaken, a findings pane an overtaken
filter filled, panes of a project without revisions, a command formed from two
projects, a command a killed process had not synced, a self-check beside another
server or on a project others touched, the empty diff of a revision whose cues are not
numbered.

## 4. Properties

Workflow:
* `CommandsAreCounted` – each accepted command has its key and moves the version by
  one, a repeat does neither.
* `ValidRunIsLastOfHistory`, `FindingsOnlyClose` – the two copies of a run agree;
  history is never rewritten, except that open findings of the valid run are closed.
* `ReviewedRunIsValid`, `ApprovedCanFreeze` – from review on, the evidence is
  there and fresh, so an approval is never stranded.
* `PreviewIsFrozen` – what the lead saw in the preview is what the next command
  freezes, and no other command comes between.
* `FrozenVerifies`, `FrozenIsFinal` – a frozen project verifies for ever.
* `FindingsHoldRevision` – closing findings does not let a revision through.
* `EvidenceOnlyGrows` – in particular no glossary version that exists ever changes.
* `StrandedForever` – above.
* `ImplementsContract` – above.

Store:
* `AcknowledgedSurvive` – under every fault, but for commands acknowledged on an
  event that a killed process had not synced.
* `AppliedOnce` – one application per command, under every fault.
* `CrashesAreInnocent` – crashes and kills never make the checks of Verify fail;
  failing file operations do (`VerifyPasses`, finding 2).
* `AnchorsStay` – an audit head, once given out, is found in the log for ever; after
  a kill, once it is synced.
* `ImplementsLedger` – where only the machine fails.

Access: `UpdatesAreSerial`, `VerifyNeverAccuses`, `EveryRequestReturns`.

Validation:
* `PassedIsPlayable` – in both directions: what passes can be shown, what can be shown
  is not held up.
* `FindingsAreAddressable` – where cues are numbered and source texts distinct.
* `TermsCanBeHonoured` – a term, taken alone, can be honoured exactly if no forbidden
  phrase is inside the required one. Two terms that contradict each other are not
  excluded by the code, nor by this.
* `DiffRebuilds` – for any two numbered revisions, in either direction.
* `DiffExplainsComparison` – what two runs do not have in common is at a cue the diff
  names, an overlap with one, a duration judged by another range, or, among
  the added findings, of a term that was added between the two submissions.

Workbench:
* `SettledShowsSelected` – when no load is under way, and the one issued last was
  not lost or overtaken, the page shows the project that is selected.
* `SettledPanesAgree` – so do the links, if it is frozen, and the findings that can be
  ticked, unless the answer of an overtaken filter was the last thing put
  there: those may be another project's, on a page at rest.
* `AcceptedOnSight` – a command whose path and version are of one project is executed
  on the very state it was formed from, also when it was pressed twice. On a settled
  page they are of one project, and a batch closes the findings that were shown, with
  the same exception. Elsewhere a version can pass for that of the other project,
  and identifiers, which name no project (`engine.go:18`), for the other's findings.

Self-check:
* `StepsAreDoneOnce` – fixed keys make a rerun a replay, after a kill or timeout too.
* `RefusedOnlyIfDisturbed` – a step is refused only after others have touched the
  project of the self-check. If they only added terms, then only submit-review is, or
  the command whose version they made old between its GET and its POST. After any
  other command of theirs every later step may be refused, in every later run.
* `SuccessIsReal`, `EndsOnceServed`.

## 5. Proofs

### The workflow

`CaptionWorkflowProofs` and `PublicationContractProofs` prove with TLAPS, for all
sets of contents, rules, terms, people, keys and findings, every engine and every
bound, everything the run `workflow` checks:

| Theorem | Property |
| --- | --- |
| `TypeCorrect` | `TypeOK` |
| `CommandsCounted` | `CommandsAreCounted` |
| `ReviewIsOfValidRun` | `ReviewedRunIsValid` |
| `ApprovalCanBeFrozen` | `ApprovedCanFreeze` |
| `PreviewHolds` | `PreviewIsFrozen` |
| `FrozenProjectVerifies` | `FrozenVerifies` |
| `FindingsNeedNewRevision` | `FindingsHoldRevision` |
| `HistoryAgrees` | `ValidRunIsLastOfHistory` |
| `FrozenForEver` | `FrozenIsFinal` |
| `StrandedProjectsStay` | `StrandedForever` |
| `EvidenceIsAppendOnly` | `EvidenceOnlyGrows` |
| `RecordedRunsOnlyClose` | `FindingsOnlyClose` |
| `WorkflowImplementsContract` | `ImplementsContract` |

Assumptions: those of the module. Each term has a source text, the engine is a
function of content, rules and terms whose results are sequences of identifiers, the
bound is a positive number, `NoManifest` is neither a manifest nor a candidate. TLC
evaluates them on the instances.

Argument. None of the safety properties is inductive. What they say of reviewed and
frozen projects rests on a verdict given much earlier, so the invariant `IInv`
(theorem `InvariantHolds`) adds to the types: no term or revision has a glossary
version beyond the current one, so that a new version leaves older verdicts alone
(`GlossaryInv`); runs are filed under their own number and revision (`HistoryInv`);
the status determines what the engine *would say now* of the current revision, and
no run of it ever had a finding unless the status is `needs_fix` (`VerdictInv`);
from SubmitForReview on the revision's glossary version is the current one, and an
approved project's last decision approves its current revision (`ReviewInv`); the
manifest repeats all of it (`ManifestInv`). The proof that a step preserves
`IInv` goes action by action, conjunct by conjunct, on lemmas about `TermsAt` after
an addition and about closing findings. The action properties follow from `IInv`:
`StrandedForever` from the statuses each command accepts, `FindingsOnlyClose` from
`HistoryInv`, which makes the entry `updateValidationHistory` replaces the last one.
`CommandsAreCounted` counts: every command adds a key that was not there, so that
the cardinality of `idempotency` follows the version.

The refinement maps each command to an action of the contract or to nothing.
Commands on the glossary, runs and resolutions are invisible because the candidate
has the terms of the glossary version the revision was submitted with
(`GlossaryInv`). That the candidate sent for review is clean is `VerdictInv`, that
the reviewer is not its author is the guard of Review over `ReviewInv`, and that the
manifest is the candidate is `ManifestInv`.

### The page

`WorkbenchProofs` proves everything the run `workbench` checks, for any number of
projects, of handlers that overlap, and any bound:

| Theorem | Property |
| --- | --- |
| `TypeCorrect` | `TypeOK` |
| `PageShowsSelection` | `SettledShowsSelected` |
| `PanesAgree` | `SettledPanesAgree` |
| `CommandsActOnWhatWasSeen` | `AcceptedOnSight` |

Assumptions: `NoProject` is no project, `NoView` no view, the bound is positive.

Argument. A page that settles shows what loads did while it was not settled, so the
invariant speaks of the time before: unless `stale` is set, either a load is coming
that is still the last one issued and is of the selected project, or the page is right
already (`FreshInv`; that such a load is of the selected project, and that a filter
which saw no load cannot be older than the workspace, is `SelectionInv`). What `Fresh`
says of the findings pane it says unless `late` is set, which every load that shows a
project with revisions takes back. Every view in the page or under way is an older or
the present state of its project, and one of the present version *is* the present
state (`Seen`); with `CheckVersion` that gives `AcceptedOnSight`, where `Sure` carries
what the settled page showed, the ticked findings if they were not left by an
overtaken filter, from the press of a button to the execution. The lemmas `QuietStep`
and `LoadIsComing` say once what the many actions that touch one activation, and those
that issue a load, have in common.

### The store

`AuditStoreProofs` proves everything the run `audit_store` checks, for any commands,
any number of events and any choice of faults:

| Theorem | Property |
| --- | --- |
| `TypeCorrect` | `TypeOK` |
| `AcknowledgedStay` | `AcknowledgedSurvive` |
| `AppliesOnce` | `AppliedOnce` |
| `CrashesDoNotAccuse` | `CrashesAreInnocent` |
| `AnchorsAreKept` | `AnchorsStay` |
| `StoreIsLedger` | `ImplementsLedger` |

Assumptions: the faults are among the two the module knows, the bound is a number,
and the values for no event, a part of an event and no projection are none of the real
ones. Digests do not collide: an event carries the number under which it was formed.

Argument. A file can lose its end, gain half a line or the same sequence number
twice, and the memory of the next process is computed from what is left. So the
invariant `IInv` (confirmed by TLC on the instance of `audit_store` before it was
proved) does not begin with the file but with the events there are, readable or not:
a digest names one event, and an event extends by one new command the snapshot of
the event it names as predecessor (`KnownInv`). A chain that verifies has therefore
taken its commands one by one, whatever was lost on the way to it; `LastHasAll`
says so, by the first event of a chain for which it would fail, and gives what
`recover` rebuilds. The rest relates log, memory and call. The memory is a chain
that verifies, all of it in the log (`MemoryInv`). The event being written continues
the chain and is the end of the log from the write on (`CallInv`). Unless a process
was killed, what the memory holds is synced (`SafeInv`). Unless file operations
fail, log, memory and projection agree (`AgreeInv`). Where only the machine fails,
all is safe but the line being written, and a torn text is the end of the log
(`CleanInv`), which is what lets a torn event be forgotten without a trace.

The refinement maps the store to what would survive a crash: the state of the memory
until the sync, the snapshot of the event being written after it. `SyncLog` is
`Take`, `Commit` and `Replay` are `Acknowledge`, every other step stutters, `Crash`
included unless it happens to spare the event that was being written, when it too
is `Take` (`CrashIs`). With other faults the ledger is not claimed; the mapped state is then
constant, as the property says.

### The locks

`RepositoryAccessProofs` proves the safety properties of `repository_access`, for any
number of requests of any kinds:

| Theorem | Property |
| --- | --- |
| `TypeCorrect` | `TypeOK` |
| `UpdatesSerialize` | `UpdatesAreSerial` |
| `VerifyIsRight` | `VerifyNeverAccuses` |

Assumptions: each goroutine serves at least one kind of request, `None` is no request,
the bound is positive.

Argument. A request is always at one of the ends of its program, also after an error
(`CodeInv`), and which locks it holds follows from the instruction it comes to
next (`LockInv`: readers, the writer and who announced itself, the queue behind them,
the project mutexes). Only the nested read section of an export makes it
matter how much of the program is left. That a writer excludes readers and other
writers is part of `LockInv`. With it the disk, the history and the state differ
between the assignments of one writer only (`DataInv`), so that every event has its
change in the state; and what a reader has seen stays true, for the history only
grows (`ReadInv`), which is why the four sections of Verify can be apart.

### The engine and the comparisons

`CaptionValidationProofs` proves everything the run `validation` checks:

| Theorem | Property |
| --- | --- |
| `TypeCorrect` | `TypeOK` |
| `PassedPlays` | `PassedIsPlayable` |
| `FindingsHaveNames` | `FindingsAreAddressable` |
| `TermsAreHonoured` | `TermsCanBeHonoured` |
| `DiffIsComplete` | `DiffRebuilds` |
| `DiffAccounts` | `DiffExplainsComparison` |

Assumptions: containment of texts is reflexive, transitive and kept by lower case, and
every text equals itself under folding (`TextAssumption`); words are two's complement;
a display range starts above zero and fits a word, as `NewProject` and `UpdateRules`
demand; `NoCue` is no cue. The texts, the word size, the ranges and the numbers of
cues and terms are arbitrary.

Argument. The inductive invariant is `TypeOK`: the input is a list of cues, no term
`NewTerm` accepted requires a blank or forbidden phrase, and no later revision has an
earlier glossary, or one that does not exist yet. The rest is about pure operators.
Playability: where the order of the ends is right the difference that the rule
computes does not wrap around (`MinusIs`, `DurationIs`), and comparing neighbours is
comparing all pairs, by the first cue that would start before an earlier one ends
(`NeighboursSuffice`). Identifiers: the evidence of two findings of a rule differs
with their cue or their term (`Addressable`). Terms: the required phrase itself is the
witness in one direction, and transitivity of containment the contradiction in the
other (`Honoured`). The diff: the map by number of a numbered list is the list
(`NumberedIsMap`), so a change is recorded exactly where the two lists differ
(`DiffIs`), and patching repairs exactly that (`Rebuilds`). The comparison: the
glossary of the earlier revision is a part of the later one's (`GlossariesAre`), so
that a cue which neither changed nor follows a changed one gets the same findings with
the same identifiers in both runs, but for durations under another range and, in the
later one, for the new terms (`FindingShared`). What is in one list of the comparison
is therefore of the other kind (`OnlyThere`).

### The self-check

`SelfcheckProofs` proves the safety properties of `selfcheck`, for any number of
events and of edits by others:

| Theorem | Property |
| --- | --- |
| `TypeCorrect` | `TypeOK` |
| `DoneOnce` | `StepsAreDoneOnce` |
| `RefusalIsDisturbance` | `RefusedOnlyIfDisturbed` |
| `SuccessProves` | `SuccessIsReal` |

Assumptions: the bounds are numbers.

Argument. Two repositories may write one log from two memories. As long as the chain
holds, a repository that knows as many events as the log has knows the log, and each
step is in it as often as it should be (`LogInv`); an event written but not yet in
memory is the next step of the client (`WrittenInv`). Left alone, a project is where
the commands of the self-check have led it, and terms others added move it no further
than a validation that objects to them (`Lawful`): there every next command is taken
(`NextIsTaken`), but submit-review under a newer glossary. The client in turn knows
how far the memory of its server is (`ClientInv`) and its version, unless others
touched the project since (`VersionInv`). A server that is alone on its directory is
never behind the log (`AloneInv`), so that reaching the end is having executed every
step.

### Only model-checked

* `EveryRequestReturns` and `EndsOnceServed`: liveness under fairness is beyond the
  prover.
* The six violated properties: the counterexamples of TLC are the result.

## 6. Not modelled

* HTTP decoding, routing, static files, statistics and the mapping of errors to
  status codes beyond "an answer that is not ok": no state, each request is one call
  of the service.
* The queries that read one snapshot and format it (workspace, history, filters,
  summary, statistics, audit view), and the panes of the page that only show them:
  diff, comparison, review context, verification, preview.
* Wording, labels, sorting for display, SRT text. A translation with an empty line
  in it would end its SRT block early; no rule of the engine looks for that, and
  no document excludes it.
* `NormalizeCues`, `CueDigest`, `CaptionCue.Contains` and the like have no caller in
  the service.
* SHA-256 collisions and the exactness of JSON clones.
* A second process on the same directory is in `Selfcheck` only, with whole events;
  `AuditStore` has one process.

## 7. Plan

Done: the workflow with its contract, the store with its ledger under three kinds
of fault, the locks, the engine and the comparisons, the page and the self-check, each
checked, and each safety property of a passing run proved. To come:

1. The promises the abstract specifications make, as theorems about them
   (`CommandLedger`: nothing acknowledged is forgotten; `PublicationContract`: what is
   published was approved by another than its author), which the refinements then
   carry over to the code.
2. What the violated properties become where their cause is absent: that a log whose
   writes never failed verifies, that a project whose glossary rested is never
   stranded, that two downloads agree when no freeze lies between their sections.
3. More of the queries of `history_queries.go`, whose filters now count as formatting.
