------------------------------- MODULE Workbench -------------------------------
(***************************************************************************)
(* The workbench in the browser (internal/web/assets/app.js) and the       *)
(* handler that answers it (internal/web/handler.go).  The page keeps the  *)
(* selected project and the workspace that was loaded last, and every      *)
(* event handler is an asynchronous function: what it reads before an      *)
(* await may have changed after it, and its requests overlap with those of *)
(* other handlers, are answered in any order, or fail.                     *)
(*                                                                         *)
(* Abstractions.  A slot is one activation of an event handler.  What      *)
(* GetWorkspace answers is a view: the project, its version and whether it *)
(* has a revision or a manifest; commands that differ in none of these are *)
(* one kind.  Their other guards are module CaptionWorkflow, and here the  *)
(* service may refuse any command.  The keys of commands are fresh, so     *)
(* that no command is a replay.  The status line, the rules form and the   *)
(* terms are written from the workspace before anything can throw and show *)
(* what it is; of the panes below them those are kept that feed a command  *)
(* or a link.  The other users of the service are Elsewhere, which also    *)
(* stands for a request whose page was closed.                             *)
(***************************************************************************)
EXTENDS Integers

CONSTANTS
    Project,        \* identifiers of projects
    Slot,           \* activations of event handlers
    NoProject,      \* no project: null in project, links that are hidden
    NoView,         \* null in workspace, a pane that was never filled
    MaxVersion      \* bound on the version of a project

ASSUME NoProjectAssumption == NoProject \notin Project
ASSUME BoundAssumption == MaxVersion \in Nat \ {0}

VARIABLES
    server,         \* what GetWorkspace would answer of each project
    project,        \* the id of the global project
    workspace,      \* the global workspace
    findings,       \* what the findings pane was filled from
    downloads,      \* the project the download links name
    call,           \* where each activation is
    stale,          \* the load issued last was lost or overtaken
    late            \* the findings pane is what an overtaken filter left in it

page == <<project, workspace, findings, downloads>>
vars == <<server, page, call, stale, late>>

-----------------------------------------------------------------------------
\* What the page can know of a project; version 0 is one not created yet.
View == [project : Project, version : 0..MaxVersion, revised : BOOLEAN,
         frozen : BOOLEAN]

ASSUME NoViewAssumption == NoView \notin View

\* The commands, by what they do to a view: rules, terms, validate, submit-review
\* and review; revisions; findings/resolve-batch; freeze.
Command == {"edit", "revise", "resolve", "freeze"}

Loads   == {"load", "loaded"}
Filters == {"filter", "filtered"}
Creates == {"create", "created", "list", "listed"}
Posts   == {"post", "accepted", "refused"}

\* An activation: the request it waits for, or the answer that waits for it; the
\* project in its path; the command that was sent; the workspace, and for a load
\* or a filter the answer; the findings on the page when a command was sent;
\* whether the page was settled then; and whether the selection changed or a load
\* was issued after it, or for a filter under way before it.
Call == [step : {"idle"} \cup Loads \cup Filters \cup Creates \cup Posts,
         project : Project \cup {NoProject}, kind : Command \cup {"none"},
         view : View \cup {NoView}, ticked : View \cup {NoView},
         sure : BOOLEAN, old : BOOLEAN]

Idle == [step |-> "idle", project |-> NoProject, kind |-> "none", view |-> NoView,
         ticked |-> NoView, sure |-> FALSE, old |-> FALSE]

\* Every request names a project that exists, every answer is of the project
\* that was asked for, and a command was formed from a workspace.
TypeOK ==
    /\ server \in [Project -> View]
    /\ \A p \in Project : server[p].project = p
    /\ project \in {p \in Project : server[p].version > 0} \cup {NoProject}
    /\ {workspace, findings} \subseteq View \cup {NoView}
    /\ downloads \in Project \cup {NoProject}
    /\ call \in [Slot -> Call]
    /\ \A s \in Slot :
          /\ call[s].step \in Loads \cup Filters \cup {"created", "post", "accepted"} =>
                call[s].project # NoProject /\ server[call[s].project].version > 0
          /\ call[s].step \in {"loaded", "filtered"} =>
                call[s].view # NoView /\ call[s].view.project = call[s].project
          /\ call[s].step = "post" => call[s].view # NoView /\ call[s].kind # "none"
          /\ call[s].step \in {"list", "listed"} => project # NoProject
    /\ stale \in BOOLEAN /\ late \in BOOLEAN

\* No load is under way or about to be issued for a new project, and the one issued
\* last was shown last.
Settled == ~stale /\ \A s \in Slot : call[s].step \notin Loads \cup {"list", "listed"}

-----------------------------------------------------------------------------
(* Events of the page *)

Exists(p) == server[p].version > 0

\* An activation goes on, and the loads and filters of others are now behind it.
Overtake(s, next) ==
    call' = [t \in Slot |->
        IF t = s THEN next
        ELSE IF call[t].step \in Loads \cup Filters
             THEN [call[t] EXCEPT !.old = TRUE] ELSE call[t]]

\* loadWorkspace up to its await.
StartLoad(s, p, kind) ==
    Overtake(s, [Idle EXCEPT !.step = "load", !.project = p, !.kind = kind])

\* Another project is chosen in the list.
Select(s, p) ==
    /\ call[s].step = "idle"
    /\ Exists(p) /\ p # project
    /\ project' = p
    /\ StartLoad(s, p, "none")
    /\ UNCHANGED <<server, workspace, findings, downloads, stale, late>>

\* The form that creates a project is submitted.
Create(s) ==
    /\ call[s].step = "idle"
    /\ call' = [call EXCEPT ![s] = [Idle EXCEPT !.step = "create"]]
    /\ UNCHANGED <<server, page, stale, late>>

\* A button that sends a command: the path has the selected project, the expected
\* version is that of the workspace, and a batch of resolutions names the findings
\* ticked on the page.  Without a workspace versioned throws.
Send(s, kind) ==
    /\ call[s].step = "idle"
    /\ project # NoProject /\ workspace # NoView
    /\ call' = [call EXCEPT ![s] =
          [step |-> "post", project |-> project, kind |-> kind, view |-> workspace,
           ticked |-> IF kind = "resolve" THEN findings ELSE NoView,
           sure |-> Settled /\ (kind = "resolve" => ~late), old |-> FALSE]]
    /\ UNCHANGED <<server, page, stale, late>>

\* The findings are filtered.
Filter(s) ==
    /\ call[s].step = "idle"
    /\ project # NoProject
    /\ call' = [call EXCEPT ![s] =
          [Idle EXCEPT !.step = "filter", !.project = project,
                       !.old = \E t \in Slot : call[t].step \in Loads]]
    /\ UNCHANGED <<server, page, stale, late>>

\* The page is loaded anew.
Reload ==
    /\ project' = NoProject /\ workspace' = NoView /\ findings' = NoView
    /\ downloads' = NoProject
    /\ call' = [s \in Slot |-> Idle]
    /\ stale' = FALSE /\ late' = FALSE
    /\ UNCHANGED server

-----------------------------------------------------------------------------
(* The handler and the service behind it *)

\* Both read the snapshot once; the findings are those of the current run.
GetWorkspace(p) == server[p]
FilterFindings(p) == server[p]

AnswerWorkspace(s) ==
    /\ call[s].step = "load"
    /\ call' = [call EXCEPT ![s].step = "loaded",
                            ![s].view = GetWorkspace(call[s].project)]
    /\ UNCHANGED <<server, page, stale, late>>

AnswerFindings(s) ==
    /\ call[s].step = "filter"
    /\ call' = [call EXCEPT ![s].step = "filtered",
                            ![s].view = FilterFindings(call[s].project)]
    /\ UNCHANGED <<server, page, stale, late>>

\* GET of the list of projects.
AnswerList(s) ==
    /\ call[s].step = "list"
    /\ call' = [call EXCEPT ![s].step = "listed"]
    /\ UNCHANGED <<server, page, stale, late>>

NewProject(p) ==
    /\ ~Exists(p)
    /\ server' = [server EXCEPT ![p].version = 1]

AnswerCreate(s, p) ==
    /\ call[s].step = "create"
    /\ NewProject(p)
    /\ call' = [call EXCEPT ![s].step = "created", ![s].project = p]
    /\ UNCHANGED <<page, stale, late>>

\* What the service demands of a project before it executes a command.
Admits(view, kind) ==
    /\ ~view.frozen /\ view.version < MaxVersion
    /\ kind \in {"resolve", "freeze"} => view.revised

Execute(p, kind) ==
    /\ Exists(p) /\ Admits(server[p], kind)
    /\ server' = [server EXCEPT ![p].version = @ + 1,
                                ![p].revised = @ \/ kind = "revise",
                                ![p].frozen = kind = "freeze"]

BugVersionUnchecked(s) == TRUE

CheckVersion(s) == call[s].view.version = server[call[s].project].version

\* A command is executed; an error of any kind is a status beyond 299.
Accept(s) ==
    /\ call[s].step = "post"
    /\ CheckVersion(s)
    /\ Execute(call[s].project, call[s].kind)
    /\ call' = [call EXCEPT ![s] = [Idle EXCEPT !.step = "accepted",
                             !.project = call[s].project, !.kind = call[s].kind]]
    /\ UNCHANGED <<page, stale, late>>

Refuse(s) ==
    /\ call[s].step = "post"
    /\ call' = [call EXCEPT ![s] = [Idle EXCEPT !.step = "refused"]]
    /\ UNCHANGED <<server, page, stale, late>>

\* Another client of the service.
Elsewhere(p) ==
    /\ NewProject(p) \/ \E kind \in Command : Execute(p, kind)
    /\ UNCHANGED <<page, call, stale, late>>

-----------------------------------------------------------------------------
(* Answers that reach the page *)

BugPanesKept(s) ==
    /\ call[s].step = "loaded"
    /\ workspace' = call[s].view
    /\ stale' = call[s].old
    /\ call' = [call EXCEPT ![s] = Idle]
    /\ UNCHANGED <<server, project, findings, downloads, late>>

\* loadWorkspace after its await.  The revisions of a project without any are
\* null, and reading their length throws: nothing below that line is written.  The
\* links name the project that is selected by now; freeze shows them once more.
ShowWorkspace(s) ==
    /\ call[s].step = "loaded"
    /\ workspace' = call[s].view
    /\ IF call[s].view.revised
       THEN /\ findings' = call[s].view /\ late' = FALSE
            /\ downloads' = IF call[s].view.frozen \/ call[s].kind = "freeze"
                            THEN project ELSE downloads
       ELSE UNCHANGED <<findings, downloads, late>>
    /\ stale' = call[s].old
    /\ call' = [call EXCEPT ![s] = Idle]
    /\ UNCHANGED <<server, project>>

\* The pane is filled without a look at the project that is selected by now.
ShowFindings(s) ==
    /\ call[s].step = "filtered"
    /\ findings' = call[s].view
    /\ late' = call[s].old
    /\ call' = [call EXCEPT ![s] = Idle]
    /\ UNCHANGED <<server, project, workspace, downloads, stale>>

BugNotSelected(s) ==
    /\ call[s].step = "created"
    /\ Overtake(s, [call[s] EXCEPT !.step = "list"])
    /\ UNCHANGED <<server, page, stale, late>>

\* The new project is selected, and the list is asked for before its workspace.
TakeCreated(s) ==
    /\ call[s].step = "created"
    /\ project' = call[s].project
    /\ Overtake(s, [call[s] EXCEPT !.step = "list"])
    /\ UNCHANGED <<server, workspace, findings, downloads, stale, late>>

TakeList(s) ==
    /\ call[s].step = "listed"
    /\ StartLoad(s, project, "none")
    /\ UNCHANGED <<server, page, stale, late>>

BugLoadsPosted(s) ==
    /\ call[s].step = "accepted"
    /\ StartLoad(s, call[s].project, call[s].kind)
    /\ UNCHANGED <<server, page, stale, late>>

\* act loads the project that is selected by now.
TakeAccepted(s) ==
    /\ call[s].step = "accepted"
    /\ StartLoad(s, project, call[s].kind)
    /\ UNCHANGED <<server, page, stale, late>>

\* An answer that is not ok becomes an error on the status line.
TakeRefused(s) ==
    /\ call[s].step = "refused"
    /\ call' = [call EXCEPT ![s] = Idle]
    /\ UNCHANGED <<server, page, stale, late>>

\* A request or its answer is lost, which is an error as well: the handler ends.
Lose(s) ==
    /\ call[s].step # "idle"
    /\ stale' = (\/ stale
                 \/ call[s].step \in Loads /\ ~call[s].old
                 \/ call[s].step \in {"list", "listed"})
    /\ call' = [call EXCEPT ![s] = Idle]
    /\ UNCHANGED <<server, page, late>>

-----------------------------------------------------------------------------
Init ==
    /\ server = [p \in Project |-> [project |-> p, version |-> 0,
                                    revised |-> FALSE, frozen |-> FALSE]]
    /\ project = NoProject /\ workspace = NoView /\ findings = NoView
    /\ downloads = NoProject
    /\ call = [s \in Slot |-> Idle]
    /\ stale = FALSE /\ late = FALSE

Next ==
    \/ \E s \in Slot :
          \/ \E p \in Project : Select(s, p) \/ AnswerCreate(s, p)
          \/ \E kind \in Command : Send(s, kind)
          \/ Create(s) \/ Filter(s)
          \/ AnswerWorkspace(s) \/ AnswerFindings(s) \/ AnswerList(s)
          \/ Accept(s) \/ Refuse(s)
          \/ ShowWorkspace(s) \/ ShowFindings(s) \/ TakeCreated(s)
          \/ TakeList(s) \/ TakeAccepted(s) \/ TakeRefused(s)
          \/ Lose(s)
    \/ \E p \in Project : Elsewhere(p)
    \/ Reload

Spec == Init /\ [][Next]_vars

-----------------------------------------------------------------------------
(* Properties *)

\* Once the page has settled it shows the project that is selected, although
\* handlers change the selection while others wait for answers and each of them
\* writes the workspace without looking at the selection again (app.js
\* loadWorkspace, act).  A load that was lost or overtaken is the exception the
\* code does not exclude: the page then shows another project than the list.
SettledShowsSelected ==
    Settled /\ project # NoProject =>
        workspace # NoView /\ workspace.project = project

\* Once the page has settled on a project that has revisions, the findings that can be
\* ticked are of this project and no older than the version that would be sent with
\* them, and if it is frozen the links name it (app.js renderFindings, showDownloads).
\* For a project without revisions the panes keep what they showed before, and links
\* once shown are never hidden again.  The other exception is the answer of a filter
\* that comes after a later load: it leaves the findings of the project the filter was
\* for on the page, open to be ticked, whichever project is shown by then (app.js:238).
SettledPanesAgree ==
    Settled /\ workspace # NoView =>
        /\ workspace.revised /\ ~late => /\ findings # NoView
                                         /\ findings.project = project
                                         /\ findings.version >= workspace.version
        /\ workspace.frozen => downloads = project

\* A command whose path and version are of one project is executed on exactly the
\* state it was formed from: nothing another user did in between is overwritten unseen,
\* and a button pressed again, before or after a lost answer, is not executed twice.
\* They are of one project when the page had settled; then a batch also closes the
\* findings that were shown, unless an overtaken filter had put them there.  Otherwise
\* the path has one project and the version, or the ticked findings, may be another's,
\* and the service cannot tell (app.js versioned, act, resolveBatch; project.go
\* CheckVersion; engine.go:18, identifiers name no project).
AcceptedOnSight ==
    [][\A s \in Slot : call[s].step = "post" /\ call'[s].step = "accepted" =>
         /\ call[s].view.project = call[s].project =>
               call[s].view = server[call[s].project]
         /\ call[s].sure =>
               /\ call[s].view.project = call[s].project
               /\ call[s].kind = "resolve" => call[s].ticked = call[s].view]_vars

=============================================================================
