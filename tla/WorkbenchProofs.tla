---------------------------- MODULE WorkbenchProofs ----------------------------
(***************************************************************************)
(* Theorems about Workbench, for any number of projects and of event       *)
(* handlers that overlap.  What a settled page shows rests on loads that   *)
(* are still to come while it is not settled, and what a command closes on *)
(* views that may be old: the invariant says of every view in the page and *)
(* in every answer under way which state of the server it was.             *)
(***************************************************************************)
EXTENDS Workbench, TLAPS

-----------------------------------------------------------------------------
(* The inductive invariant *)

\* A view is a state its project was in: an older one, or the present one.
Seen(v) ==
    v # NoView =>
        /\ v.version <= server[v.project].version
        /\ v.version = server[v.project].version => v = server[v.project]
        /\ v.frozen => v.revised

ServerInv ==
    /\ server \in [Project -> View]
    /\ \A p \in Project : /\ server[p].project = p
                          /\ server[p].frozen => server[p].revised

PageInv ==
    /\ project \in {p \in Project : Exists(p)} \cup {NoProject}
    /\ {workspace, findings} \subseteq View \cup {NoView}
    /\ downloads \in Project \cup {NoProject}
    /\ stale \in BOOLEAN /\ late \in BOOLEAN
    /\ Seen(workspace) /\ Seen(findings)

\* A command that was formed on a settled page is about what the page showed.
Sure(c) ==
    c.step = "post" /\ c.sure =>
        /\ c.view.project = c.project
        /\ c.kind = "resolve" /\ c.view.revised =>
              /\ c.ticked # NoView
              /\ c.ticked.project = c.project
              /\ c.ticked.version >= c.view.version

CallOK(c) ==
    /\ c \in Call
    /\ c.step \in Loads \cup Filters \cup {"created", "post", "accepted"} =>
          c.project # NoProject /\ Exists(c.project)
    /\ c.step \in {"loaded", "filtered"} =>
          c.view # NoView /\ c.view.project = c.project
    /\ c.step = "post" => c.view # NoView /\ c.kind # "none"
    /\ c.step \in {"list", "listed"} => project # NoProject
    /\ Seen(c.view) /\ Seen(c.ticked)
    /\ Sure(c)

CallInv == call \in [Slot -> Call] /\ \A s \in Slot : CallOK(call[s])

\* Before a selection nothing is loaded; the load or filter issued last is of the
\* selected project, and a filter that is still the last one saw no load.
SelectionInv ==
    /\ project = NoProject =>
          /\ workspace = NoView
          /\ \A s \in Slot : call[s].step \in {"idle", "create", "created"}
    /\ \A s \in Slot :
          call[s].step \in Loads \cup Filters /\ ~call[s].old =>
              call[s].project = project
    /\ \A s \in Slot :
          call[s].step \in Filters /\ ~call[s].old =>
              /\ \A t \in Slot : call[t].step \notin Loads
              /\ (/\ call[s].step = "filtered"
                  /\ workspace # NoView /\ workspace.project = project) =>
                 call[s].view.version >= workspace.version

\* A load is coming that will show the selected project.
Covers(c) == \/ c.step \in Loads /\ ~c.old
             \/ c.step \in {"list", "listed"}
Covered == \E s \in Slot : Covers(call[s])

\* The page shows the selected project, and so do its panes, the findings unless an
\* overtaken filter left them.
Fresh ==
    /\ workspace # NoView /\ workspace.project = project
    /\ workspace.revised /\ ~late => /\ findings # NoView
                                     /\ findings.project = project
                                     /\ findings.version >= workspace.version
    /\ workspace.frozen => downloads = project

FreshInv == project = NoProject \/ stale \/ Covered \/ Fresh

IInv == ServerInv /\ PageInv /\ CallInv /\ SelectionInv /\ FreshInv

LEMMA InvariantImpliesTypes ==
    ASSUME IInv
    PROVE  TypeOK
  BY DEF IInv, ServerInv, PageInv, CallInv, CallOK, TypeOK, Exists

-----------------------------------------------------------------------------
(* What others do: the server *)

\* Each project is as it was or has a higher version.
Grows ==
    /\ ServerInv'
    /\ \A p \in Project : server'[p] = server[p]
                          \/ server'[p].version > server[p].version

LEMMA Unchanged ==
    ASSUME ServerInv, UNCHANGED server
    PROVE  Grows
  BY DEF Grows, ServerInv

LEMMA NewProjectGrows ==
    ASSUME ServerInv, NEW p \in Project, NewProject(p)
    PROVE  Grows
  <1>1. server[p] \in View /\ server[p].version = 0
    BY DEF ServerInv, NewProject, Exists, View
  <1>2. server' = [server EXCEPT ![p] = [server[p] EXCEPT !.version = 1]]
    BY DEF NewProject
  <1> QED
    BY <1>1, <1>2, BoundAssumption DEF Grows, ServerInv, View

LEMMA ExecuteGrows ==
    ASSUME ServerInv, NEW p \in Project, NEW kind \in Command, Execute(p, kind)
    PROVE  Grows
  <1>1. server[p] \in View /\ server[p].project = p
    BY DEF ServerInv
  <1>2. PICK revised \in BOOLEAN : revised = (server[p].revised \/ kind = "revise")
    OBVIOUS
  <1>3. PICK frozen \in BOOLEAN : frozen = (kind = "freeze")
    OBVIOUS
  <1> DEFINE n == server[p].version + 1
             next == [server[p] EXCEPT !.version = n, !.revised = revised,
                                       !.frozen = frozen]
  <1>4. server' = [server EXCEPT ![p].version = n, ![p].revised = revised,
                                 ![p].frozen = frozen]
    BY <1>2, <1>3 DEF Execute
  <1>5. n \in 0..MaxVersion /\ n > server[p].version /\ (frozen => revised)
    BY <1>1, <1>2, <1>3, BoundAssumption DEF Execute, Admits, View
  <1> HIDE DEF n
  <1>6. server' = [server EXCEPT ![p] = next]
    BY <1>4 DEF ServerInv
  <1>7. /\ next \in View
        /\ next.project = p /\ next.version = n
        /\ next.revised = revised /\ next.frozen = frozen
    BY <1>1, <1>5 DEF View
  <1> HIDE DEF next
  <1> QED
    BY <1>1, <1>5, <1>6, <1>7 DEF Grows, ServerInv, View

LEMMA SeenKept ==
    ASSUME ServerInv, Grows, NEW v \in View \cup {NoView}, Seen(v)
    PROVE  Seen(v)'
  BY DEF Seen, Grows, ServerInv, View

LEMMA CallKept ==
    ASSUME ServerInv, Grows, NEW c, CallOK(c),
           project # NoProject => project' # NoProject
    PROVE  CallOK(c)'
  <1>1. Seen(c.view)' /\ Seen(c.ticked)'
    BY SeenKept DEF CallOK, Call
  <1>2. c.project # NoProject /\ Exists(c.project) => Exists(c.project)'
    BY DEF CallOK, Call, Exists, Grows, ServerInv, View
  <1> QED
    BY <1>1, <1>2 DEF CallOK, Sure

-----------------------------------------------------------------------------
(* What the page does: activations *)

Aged(c) == [c EXCEPT !.old = TRUE]

\* Activation s goes on; the others stay, or are behind it from now on.
Moves(s) ==
    /\ call' \in [Slot -> Call]
    /\ CallOK(call[s])'
    /\ \A t \in Slot \ {s} : call'[t] \in {call[t], Aged(call[t])}

LEMMA CallsKept ==
    ASSUME ServerInv, CallInv, Grows, NEW s \in Slot, Moves(s),
           project # NoProject => project' # NoProject
    PROVE  CallInv'
  <1>1. ASSUME NEW t \in Slot \ {s}
        PROVE  CallOK(call[t])'
    <2>1. PICK c \in Call : c = call[t] /\ CallOK(c)
      BY DEF CallInv
    <2>2. CallOK(c)'
      BY <2>1, CallKept
    <2>3. call'[t] = c \/ call'[t] = Aged(c)
      BY <2>1 DEF Moves
    <2>4. Aged(c) \in Call
      BY DEF Aged, Call
    <2>5. /\ Aged(c).step = c.step /\ Aged(c).project = c.project
          /\ Aged(c).kind = c.kind /\ Aged(c).view = c.view
          /\ Aged(c).ticked = c.ticked /\ Aged(c).sure = c.sure
      BY DEF Aged, Call
    <2>6. CallOK(Aged(c))'
      BY <2>2, <2>4, <2>5 DEF CallOK, Sure
    <2> QED
      BY <2>2, <2>3, <2>6 DEF CallOK
  <1> QED
    BY <1>1 DEF Moves, CallInv

LEMMA IdleOK == /\ Idle \in Call /\ Idle.step = "idle"
                /\ Idle.view = NoView /\ Idle.ticked = NoView
  BY DEF Idle, Call

\* An activation goes on and leaves the others alone.
LEMMA OneMoves ==
    ASSUME CallInv, NEW s \in Slot, NEW c \in Call, call' = [call EXCEPT ![s] = c]
    PROVE  /\ call' \in [Slot -> Call]
           /\ call'[s] = c
           /\ \A t \in Slot \ {s} : call'[t] = call[t]
  BY DEF CallInv

LEMMA Overtakes ==
    ASSUME CallInv, NEW s \in Slot, NEW c \in Call, Overtake(s, c)
    PROVE  /\ call' \in [Slot -> Call]
           /\ call'[s] = c
           /\ \A t \in Slot \ {s} :
                 /\ call'[t] \in {call[t], Aged(call[t])}
                 /\ call[t].step \in Loads \cup Filters => call'[t] = Aged(call[t])
                 /\ call'[t].step = call[t].step
                 /\ call'[t].step \in Loads \cup Filters => call'[t].old
  <1>1. \A t \in Slot : call[t] \in Call
    BY DEF CallInv
  <1>2. \A t \in Slot : /\ Aged(call[t]) \in Call /\ Aged(call[t]).old
                       /\ Aged(call[t]).step = call[t].step
    BY <1>1 DEF Aged, Call
  <1>3. /\ \A t \in Slot : call'[t] = IF t = s THEN c
                           ELSE IF call[t].step \in Loads \cup Filters
                                THEN Aged(call[t]) ELSE call[t]
        /\ call' = [t \in Slot |-> call'[t]]
    BY DEF Overtake, Aged
  <1> QED
    BY <1>1, <1>2, <1>3

-----------------------------------------------------------------------------
(* What the page does: selection and panes *)

LEMMA PageKept ==
    ASSUME ServerInv, PageInv, Grows, UNCHANGED <<page, late>>, stale' \in BOOLEAN
    PROVE  PageInv'
  <1>1. PICK w \in View \cup {NoView}, f \in View \cup {NoView} :
           w = workspace /\ f = findings
    BY DEF PageInv
  <1>2. Seen(w)' /\ Seen(f)'
    BY <1>1, SeenKept DEF PageInv
  <1>3. project # NoProject => Exists(project)'
    BY DEF PageInv, Exists, Grows, ServerInv, View, page
  <1> QED
    BY <1>1, <1>2, <1>3 DEF PageInv, page, Seen

\* An activation goes on without a change of the page: it does not stop covering
\* it, issues no load, and a filter it becomes is of the selected project.
LEMMA QuietStep ==
    ASSUME IInv, NEW s \in Slot, NEW c \in Call, call' = [call EXCEPT ![s] = c],
           Grows, UNCHANGED <<page, stale, late>>, CallOK(call[s])',
           project = NoProject => c.step \in {"idle", "create", "created"},
           c.step \in Loads => call[s].step \in Loads,
           c.step \in Loads \cup Filters /\ ~c.old => c.project = project,
           c.step \in Filters /\ ~c.old =>
              /\ \A t \in Slot : call[t].step \notin Loads
              /\ (/\ c.step = "filtered"
                  /\ workspace # NoView /\ workspace.project = project) =>
                 c.view.version >= workspace.version,
           Covers(call[s]) => Covers(c)
    PROVE  IInv'
  <1>1. /\ call' \in [Slot -> Call] /\ call'[s] = c
        /\ \A t \in Slot \ {s} : call'[t] = call[t]
    BY OneMoves DEF IInv
  <1>2. ServerInv' /\ PageInv'
    BY PageKept DEF IInv, PageInv, Grows
  <1>3. CallInv'
    BY <1>1, CallsKept DEF IInv, Moves, page
  <1>4. SelectionInv'
    BY <1>1 DEF IInv, SelectionInv, page
  <1>5. FreshInv'
    <2>1. Covered => Covered'
      BY <1>1 DEF Covered, Covers
    <2>2. Fresh => Fresh'
      BY DEF Fresh, page
    <2> QED
      BY <2>1, <2>2 DEF IInv, FreshInv, page
  <1> QED
    BY <1>2, <1>3, <1>4, <1>5 DEF IInv

\* A load is issued, or the list after which one is, for the project selected now.
LEMMA LoadIsComing ==
    ASSUME IInv, NEW s \in Slot, NEW c \in Call, Overtake(s, c),
           UNCHANGED <<server, workspace, findings, downloads, stale, late>>,
           project' \in Project, Exists(project'), CallOK(call[s])',
           \/ c.step = "list"
           \/ c.step = "load" /\ ~c.old /\ c.project = project'
    PROVE  IInv'
  <1>1. /\ call' \in [Slot -> Call] /\ call'[s] = c
        /\ \A t \in Slot \ {s} :
              /\ call'[t] \in {call[t], Aged(call[t])}
              /\ call'[t].step \in Loads \cup Filters => call'[t].old
    BY Overtakes DEF IInv
  <1>2. ServerInv' /\ Grows
    BY Unchanged DEF IInv, Grows
  <1>3. PageInv'
    BY DEF IInv, PageInv, Seen, Exists
  <1>4. CallInv'
    BY <1>1, <1>2, CallsKept, NoProjectAssumption DEF IInv, Moves
  <1>5. SelectionInv'
    BY <1>1, NoProjectAssumption DEF SelectionInv, Loads, Filters
  <1>6. FreshInv'
    BY <1>1 DEF FreshInv, Covered, Covers, Loads
  <1> QED
    BY <1>2, <1>3, <1>4, <1>5, <1>6 DEF IInv

-----------------------------------------------------------------------------
(* Every step keeps the invariant *)

LEMMA SelectKeeps ==
    ASSUME IInv, NEW s \in Slot, NEW p \in Project, Select(s, p)
    PROVE  IInv'
  <1> DEFINE c == [Idle EXCEPT !.step = "load", !.project = p, !.kind = "none"]
  <1>1. /\ c \in Call /\ c.step = "load" /\ c.project = p /\ ~c.old
        /\ c.view = NoView /\ c.ticked = NoView
    BY DEF Idle, Call, Loads
  <1>2. /\ Exists(p) /\ project' = p /\ Overtake(s, c)
        /\ UNCHANGED <<server, workspace, findings, downloads, stale, late>>
    BY DEF Select, StartLoad
  <1> HIDE DEF c
  <1>3. CallOK(call[s])'
    BY <1>1, <1>2, Overtakes, NoProjectAssumption
       DEF IInv, CallOK, Exists, Seen, Sure, Filters
  <1> QED
    BY <1>1, <1>2, <1>3, LoadIsComing

LEMMA CreateKeeps ==
    ASSUME IInv, NEW s \in Slot, Create(s)
    PROVE  IInv'
  <1> DEFINE c == [Idle EXCEPT !.step = "create"]
  <1>1. /\ c \in Call /\ c.step = "create"
        /\ c.view = NoView /\ c.ticked = NoView
    BY DEF Idle, Call, Creates
  <1>2. /\ call[s].step = "idle" /\ call' = [call EXCEPT ![s] = c]
        /\ UNCHANGED <<server, page, stale, late>>
    BY DEF Create
  <1> HIDE DEF c
  <1>3. CallOK(call[s])'
    BY <1>1, <1>2, OneMoves DEF IInv, CallOK, Seen, Sure, Loads, Filters
  <1> QED
    BY <1>1, <1>2, <1>3, Unchanged, QuietStep DEF IInv, Loads, Filters, Covers

LEMMA SendKeeps ==
    ASSUME IInv, NEW s \in Slot, NEW kind \in Command, Send(s, kind)
    PROVE  IInv'
  <1>1. PICK sure \in BOOLEAN : sure = (Settled /\ (kind = "resolve" => ~late))
    OBVIOUS
  <1>2. PICK ticked \in View \cup {NoView} :
           ticked = IF kind = "resolve" THEN findings ELSE NoView
    BY DEF IInv, PageInv
  <1> DEFINE c == [step |-> "post", project |-> project, kind |-> kind,
                   view |-> workspace, ticked |-> ticked, sure |-> sure,
                   old |-> FALSE]
  <1>3. /\ call[s].step = "idle" /\ call' = [call EXCEPT ![s] = c]
        /\ project # NoProject /\ workspace # NoView
        /\ UNCHANGED <<server, page, stale, late>>
    BY <1>1, <1>2 DEF Send
  <1>4. /\ c \in Call /\ c.step = "post" /\ c.project = project /\ c.kind = kind
        /\ c.view = workspace /\ c.ticked = ticked /\ c.sure = sure
    BY <1>2 DEF Call, Posts, IInv, PageInv
  <1> HIDE DEF c
  <1>5. Sure(c)
    <2>1. Settled => Fresh
      BY <1>3 DEF Settled, IInv, FreshInv, Covered, Covers, Loads
    <2> QED
      BY <1>1, <1>2, <1>4, <2>1 DEF Sure, Fresh
  <1>6. CallOK(c)
    BY <1>2, <1>3, <1>4, <1>5
       DEF CallOK, IInv, PageInv, Seen, Loads, Filters, Command
  <1>7. CallOK(call[s])'
    BY <1>3, <1>4, <1>6, OneMoves DEF IInv, CallOK, Seen, Sure, Exists, page
  <1> QED
    BY <1>3, <1>4, <1>7, Unchanged, QuietStep DEF IInv, Loads, Filters, Covers

LEMMA FilterKeeps ==
    ASSUME IInv, NEW s \in Slot, Filter(s)
    PROVE  IInv'
  <1>1. PICK old \in BOOLEAN : old = (\E t \in Slot : call[t].step \in Loads)
    OBVIOUS
  <1> DEFINE c == [Idle EXCEPT !.step = "filter", !.project = project, !.old = old]
  <1>2. /\ call[s].step = "idle" /\ call' = [call EXCEPT ![s] = c]
        /\ project # NoProject
        /\ UNCHANGED <<server, page, stale, late>>
    BY <1>1 DEF Filter
  <1>3. /\ c \in Call /\ c.step = "filter" /\ c.project = project /\ c.old = old
        /\ c.view = NoView /\ c.ticked = NoView
    BY DEF Call, Filters, Idle, IInv, PageInv
  <1> HIDE DEF c
  <1>4. CallOK(call[s])'
    BY <1>2, <1>3, OneMoves
       DEF IInv, PageInv, CallOK, Exists, Seen, Sure, Loads, Filters, page
  <1> QED
    BY <1>1, <1>2, <1>3, <1>4, Unchanged, QuietStep DEF IInv, Loads, Filters, Covers

LEMMA MovedOK ==
    ASSUME UNCHANGED <<server, project>>, NEW s \in Slot, NEW c, CallOK(c),
           call'[s] = c
    PROVE  CallOK(call[s])'
  BY DEF CallOK, Seen, Sure, Exists

\* A view of the present state of a project that exists.
LEMMA PresentView ==
    ASSUME IInv, NEW s \in Slot, call[s].step \in Loads \cup Filters
    PROVE  LET p == call[s].project
           IN  /\ p \in Project /\ p # NoProject /\ Exists(p)
               /\ server[p] \in View /\ server[p] # NoView /\ server[p].project = p
               /\ Seen(server[p])
  <1>1. call[s].project \in Project /\ Exists(call[s].project)
    BY DEF IInv, CallInv, CallOK, Call
  <1> QED
    BY <1>1, NoProjectAssumption, NoViewAssumption DEF IInv, ServerInv, Seen, View

LEMMA AnswerWorkspaceKeeps ==
    ASSUME IInv, NEW s \in Slot, AnswerWorkspace(s)
    PROVE  IInv'
  <1> DEFINE c == [call[s] EXCEPT !.step = "loaded", !.view = server[call[s].project]]
  <1>1. /\ call[s].step = "load" /\ call' = [call EXCEPT ![s] = c]
        /\ UNCHANGED <<server, page, stale, late>>
    BY DEF AnswerWorkspace, GetWorkspace
  <1>2. call[s] \in Call /\ Seen(call[s].ticked)
    BY DEF IInv, CallInv, CallOK
  <1>3. /\ c \in Call /\ c.step = "loaded" /\ c.project = call[s].project
        /\ c.view = server[call[s].project] /\ c.old = call[s].old
        /\ c.ticked = call[s].ticked
    BY <1>1, <1>2, PresentView DEF Call, Loads
  <1> HIDE DEF c
  <1>4. CallOK(call[s])'
    <2>1. CallOK(c)
      BY <1>1, <1>2, <1>3, PresentView DEF CallOK, Sure, Seen, Loads, Filters
    <2> QED
      BY <1>1, <1>3, <2>1, OneMoves, MovedOK DEF IInv, page
  <1> QED
    BY <1>1, <1>3, <1>4, Unchanged, QuietStep
       DEF IInv, SelectionInv, Loads, Filters, Covers

LEMMA AnswerFindingsKeeps ==
    ASSUME IInv, NEW s \in Slot, AnswerFindings(s)
    PROVE  IInv'
  <1> DEFINE c == [call[s] EXCEPT !.step = "filtered",
                                  !.view = server[call[s].project]]
  <1>1. /\ call[s].step = "filter" /\ call' = [call EXCEPT ![s] = c]
        /\ UNCHANGED <<server, page, stale, late>>
    BY DEF AnswerFindings, FilterFindings
  <1>2. call[s] \in Call /\ Seen(call[s].ticked)
    BY DEF IInv, CallInv, CallOK
  <1>3. /\ c \in Call /\ c.step = "filtered" /\ c.project = call[s].project
        /\ c.view = server[call[s].project] /\ c.old = call[s].old
        /\ c.ticked = call[s].ticked
    BY <1>1, <1>2, PresentView DEF Call, Filters
  <1> HIDE DEF c
  <1>4. CallOK(call[s])'
    <2>1. CallOK(c)
      BY <1>1, <1>2, <1>3, PresentView DEF CallOK, Sure, Seen, Loads, Filters
    <2> QED
      BY <1>1, <1>3, <2>1, OneMoves, MovedOK DEF IInv, page
  <1>5. ~c.old => /\ call[s].project = project
                  /\ \A t \in Slot : call[t].step \notin Loads
    BY <1>1, <1>3 DEF IInv, SelectionInv, Filters
  <1>6. workspace # NoView /\ workspace.project = call[s].project =>
           c.view.version >= workspace.version
    BY <1>1, <1>3, PresentView DEF IInv, PageInv, Seen, View, Filters
  <1> QED
    BY <1>1, <1>3, <1>4, <1>5, <1>6, Unchanged, QuietStep
       DEF IInv, SelectionInv, Loads, Filters, Covers

LEMMA AnswerListKeeps ==
    ASSUME IInv, NEW s \in Slot, AnswerList(s)
    PROVE  IInv'
  <1> DEFINE c == [call[s] EXCEPT !.step = "listed"]
  <1>1. /\ call[s].step = "list" /\ call' = [call EXCEPT ![s] = c]
        /\ UNCHANGED <<server, page, stale, late>>
    BY DEF AnswerList
  <1>2. call[s] \in Call /\ CallOK(call[s])
    BY DEF IInv, CallInv, CallOK
  <1>3. /\ c \in Call /\ c.step = "listed" /\ c.view = call[s].view
        /\ c.ticked = call[s].ticked
    BY <1>2 DEF Call, Creates
  <1> HIDE DEF c
  <1>4. CallOK(call[s])'
    BY <1>1, <1>2, <1>3, OneMoves
       DEF IInv, CallOK, Seen, Sure, Loads, Filters, page
  <1> QED
    BY <1>1, <1>2, <1>3, <1>4, Unchanged, QuietStep
       DEF IInv, CallOK, Loads, Filters, Covers

LEMMA AnswerCreateKeeps ==
    ASSUME IInv, NEW s \in Slot, NEW p \in Project, AnswerCreate(s, p)
    PROVE  IInv'
  <1> DEFINE c == [call[s] EXCEPT !.step = "created", !.project = p]
  <1>1. /\ call[s].step = "create" /\ call' = [call EXCEPT ![s] = c]
        /\ NewProject(p)
        /\ UNCHANGED <<page, stale, late>>
    BY DEF AnswerCreate
  <1>2. call[s] \in Call /\ CallOK(call[s])
    BY DEF IInv, CallInv, CallOK
  <1>3. /\ c \in Call /\ c.step = "created" /\ c.project = p
        /\ c.view = call[s].view /\ c.ticked = call[s].ticked
    BY <1>2 DEF Call, Creates
  <1> HIDE DEF c
  <1>4. Grows /\ Exists(p)'
    <2>1. server'[p].version = 1
      BY <1>1 DEF IInv, NewProject, ServerInv, View
    <2> QED
      BY <1>1, <2>1, NewProjectGrows DEF IInv, Exists
  <1>5. CallOK(call[s])'
    <2>1. PICK v \in View \cup {NoView}, w \in View \cup {NoView} :
             v = call[s].view /\ w = call[s].ticked
      BY <1>2 DEF Call
    <2>2. Seen(v)' /\ Seen(w)'
      BY <1>2, <1>4, <2>1, SeenKept DEF IInv, CallOK
    <2> QED
      BY <1>1, <1>3, <1>4, <2>1, <2>2, OneMoves, NoProjectAssumption
         DEF IInv, CallOK, Seen, Sure, Exists, Loads, Filters
  <1> QED
    BY <1>1, <1>3, <1>4, <1>5, QuietStep DEF Loads, Filters, Covers

LEMMA AcceptKeeps ==
    ASSUME IInv, NEW s \in Slot, Accept(s)
    PROVE  IInv'
  <1> DEFINE p == call[s].project
             c == [Idle EXCEPT !.step = "accepted", !.project = p, !.kind = call[s].kind]
  <1>1. /\ call[s].step = "post" /\ call' = [call EXCEPT ![s] = c]
        /\ Execute(p, call[s].kind)
        /\ UNCHANGED <<page, stale, late>>
    BY DEF Accept
  <1>2. p \in Project /\ p # NoProject /\ call[s].kind \in Command /\ Exists(p)
    BY <1>1 DEF IInv, CallInv, CallOK, Call
  <1>3. /\ c \in Call /\ c.step = "accepted" /\ c.project = p
        /\ c.view = NoView /\ c.ticked = NoView
    BY <1>2 DEF Idle, Call, Posts
  <1> HIDE DEF c
  <1>4. Grows
    BY <1>1, <1>2, ExecuteGrows DEF IInv
  <1>5. Exists(p)'
    <2>1. PICK q \in Project : q = p
      BY <1>2
    <2>2. server'[q].version > 0
      BY <1>2, <1>4, <2>1 DEF Grows, Exists, IInv, ServerInv, View
    <2>3. call'[s].project = q
      BY <1>1, <1>3, <2>1, OneMoves DEF IInv
    <2> QED
      BY <2>2, <2>3 DEF Exists
  <1>6. CallOK(call[s])'
    BY <1>1, <1>2, <1>3, <1>5, OneMoves
       DEF IInv, CallOK, Seen, Sure, Exists, Loads, Filters
  <1> QED
    <2>1. project # NoProject
      BY <1>1 DEF IInv, SelectionInv
    <2> QED
      BY <1>1, <1>3, <1>4, <1>6, <2>1, QuietStep DEF Loads, Filters, Covers

LEMMA RefuseKeeps ==
    ASSUME IInv, NEW s \in Slot, Refuse(s)
    PROVE  IInv'
  <1> DEFINE c == [Idle EXCEPT !.step = "refused"]
  <1>1. c \in Call /\ c.step = "refused" /\ c.view = NoView /\ c.ticked = NoView
    BY DEF Idle, Call, Posts
  <1>2. /\ call[s].step = "post" /\ call' = [call EXCEPT ![s] = c]
        /\ UNCHANGED <<server, page, stale, late>>
    BY DEF Refuse
  <1> HIDE DEF c
  <1>3. CallOK(call[s])'
    BY <1>1, <1>2, OneMoves DEF IInv, CallOK, Seen, Sure, Loads, Filters
  <1>4. project # NoProject
    BY <1>2 DEF IInv, SelectionInv
  <1> QED
    BY <1>1, <1>2, <1>3, <1>4, Unchanged, QuietStep DEF IInv, Loads, Filters, Covers

LEMMA TakeRefusedKeeps ==
    ASSUME IInv, NEW s \in Slot, TakeRefused(s)
    PROVE  IInv'
  <1>1. /\ call[s].step = "refused" /\ call' = [call EXCEPT ![s] = Idle]
        /\ UNCHANGED <<server, page, stale, late>>
    BY DEF TakeRefused
  <1>2. CallOK(call[s])'
    BY <1>1, IdleOK, OneMoves DEF IInv, CallOK, Seen, Sure, Loads, Filters
  <1> QED
    BY <1>1, <1>2, IdleOK, Unchanged, QuietStep DEF IInv, Loads, Filters, Covers

LEMMA ElsewhereKeeps ==
    ASSUME IInv, NEW p \in Project, Elsewhere(p)
    PROVE  IInv'
  <1>1. Grows /\ UNCHANGED <<page, call, stale, late>>
    BY NewProjectGrows, ExecuteGrows DEF Elsewhere, IInv
  <1>2. ServerInv' /\ PageInv'
    BY <1>1, PageKept DEF IInv, PageInv, Grows
  <1>3. ASSUME NEW s \in Slot
        PROVE  CallOK(call[s])'
    <2>1. PICK c \in Call : c = call[s] /\ CallOK(c)
      BY DEF IInv, CallInv, CallOK
    <2>2. CallOK(c)'
      BY <1>1, <2>1, CallKept DEF IInv, page
    <2> QED
      BY <1>1, <2>1, <2>2 DEF CallOK
  <1>4. CallInv' /\ SelectionInv' /\ FreshInv'
    BY <1>1, <1>3
       DEF IInv, CallInv, SelectionInv, FreshInv, Fresh, Covered, Covers, page
  <1> QED
    BY <1>2, <1>4 DEF IInv

LEMMA TakeCreatedKeeps ==
    ASSUME IInv, NEW s \in Slot, TakeCreated(s)
    PROVE  IInv'
  <1> DEFINE c == [call[s] EXCEPT !.step = "list"]
  <1>1. /\ call[s].step = "created" /\ project' = call[s].project /\ Overtake(s, c)
        /\ UNCHANGED <<server, workspace, findings, downloads, stale, late>>
    BY DEF TakeCreated
  <1>2. call[s] \in Call /\ CallOK(call[s])
    BY DEF IInv, CallInv, CallOK
  <1>3. /\ c \in Call /\ c.step = "list"
        /\ c.view = call[s].view /\ c.ticked = call[s].ticked
    BY <1>2 DEF Call, Creates
  <1> HIDE DEF c
  <1>4. project' \in Project /\ Exists(project') /\ project' # NoProject
    BY <1>1, <1>2 DEF CallOK, Call
  <1>5. CallOK(call[s])'
    BY <1>1, <1>2, <1>3, <1>4, Overtakes DEF IInv, CallOK, Seen, Sure, Loads, Filters
  <1> QED
    BY <1>1, <1>3, <1>4, <1>5, LoadIsComing

\* act and the creation of a project load what is selected by now.
LEMMA SelectedIsLoaded ==
    ASSUME IInv, NEW s \in Slot, NEW kind \in Command \cup {"none"},
           project # NoProject, StartLoad(s, project, kind),
           UNCHANGED <<server, page, stale, late>>
    PROVE  IInv'
  <1> DEFINE c == [Idle EXCEPT !.step = "load", !.project = project, !.kind = kind]
  <1>1. project \in Project /\ Exists(project)
    BY DEF IInv, PageInv
  <1>2. /\ c \in Call /\ c.step = "load" /\ c.project = project /\ ~c.old
        /\ c.view = NoView /\ c.ticked = NoView
    BY <1>1 DEF Idle, Call, Loads
  <1>3. /\ Overtake(s, c) /\ project' = project
        /\ UNCHANGED <<server, workspace, findings, downloads, stale, late>>
    BY DEF StartLoad, page
  <1> HIDE DEF c
  <1>4. CallOK(c)
    BY <1>1, <1>2, NoProjectAssumption DEF CallOK, Seen, Sure, Filters
  <1>5. CallOK(call[s])'
    BY <1>3, <1>2, <1>4, Overtakes, MovedOK DEF IInv
  <1> QED
    BY <1>1, <1>2, <1>3, <1>5, LoadIsComing

LEMMA TakeListKeeps ==
    ASSUME IInv, NEW s \in Slot, TakeList(s)
    PROVE  IInv'
  <1>1. project # NoProject
    BY DEF TakeList, IInv, CallInv, CallOK
  <1> QED
    BY <1>1, SelectedIsLoaded DEF TakeList

LEMMA TakeAcceptedKeeps ==
    ASSUME IInv, NEW s \in Slot, TakeAccepted(s)
    PROVE  IInv'
  <1>1. project # NoProject /\ call[s].kind \in Command \cup {"none"}
    BY DEF TakeAccepted, IInv, CallInv, CallOK, Call, SelectionInv
  <1> QED
    BY <1>1, SelectedIsLoaded DEF TakeAccepted

\* An activation ends.
LEMMA EndOfCall ==
    ASSUME IInv, NEW s \in Slot, call' = [call EXCEPT ![s] = Idle],
           UNCHANGED <<server, project>>
    PROVE  /\ ServerInv' /\ CallInv'
           /\ call'[s].step = "idle"
           /\ \A t \in Slot \ {s} : call'[t] = call[t]
  <1>1. /\ call' \in [Slot -> Call] /\ call'[s] = Idle
        /\ \A t \in Slot \ {s} : call'[t] = call[t]
    BY IdleOK, OneMoves DEF IInv
  <1>2. CallOK(call[s])'
    BY <1>1, IdleOK DEF CallOK, Seen, Sure, Loads, Filters
  <1>3. Grows
    BY Unchanged DEF IInv
  <1> QED
    BY <1>1, <1>2, <1>3, IdleOK, CallsKept DEF IInv, Moves, Grows

LEMMA ShowWorkspaceKeeps ==
    ASSUME IInv, NEW s \in Slot, ShowWorkspace(s)
    PROVE  IInv'
  <1>1. PICK c \in Call : c = call[s] /\ CallOK(c)
    BY DEF IInv, CallInv, CallOK
  <1>2. /\ c.step = "loaded" /\ workspace' = c.view /\ stale' = c.old
        /\ c.view.revised => /\ findings' = c.view
                             /\ c.view.frozen => downloads' = project
        /\ findings' \in {findings, c.view} /\ downloads' \in {downloads, project}
        /\ late' \in {late, FALSE}
        /\ call' = [call EXCEPT ![s] = Idle]
        /\ UNCHANGED <<server, project>>
    BY <1>1 DEF ShowWorkspace
  <1>3. /\ c.view \in View /\ c.view # NoView /\ Seen(c.view)
        /\ c.view.project = c.project /\ c.old \in BOOLEAN
    BY <1>1, <1>2 DEF CallOK, Call
  <1>4. /\ ServerInv' /\ CallInv'
        /\ call'[s].step = "idle"
        /\ \A t \in Slot \ {s} : call'[t] = call[t]
    BY <1>2, EndOfCall
  <1>5. PageInv'
    BY <1>2, <1>3 DEF IInv, PageInv, Seen, Exists
  <1>6. project # NoProject
    BY <1>1, <1>2 DEF IInv, SelectionInv
  <1>7. SelectionInv'
    <2>1. \A t \in Slot : call[t].step \in Filters => call[t].old
      BY <1>1, <1>2 DEF IInv, SelectionInv, Loads
    <2> QED
      BY <1>2, <1>4, <1>6, <2>1 DEF IInv, SelectionInv, Loads, Filters
  <1>8. FreshInv'
    <2>1. ~c.old => c.project = project
      BY <1>1, <1>2 DEF IInv, SelectionInv, Loads
    <2>2. c.view.frozen => c.view.revised
      BY <1>3 DEF Seen
    <2> QED
      BY <1>2, <1>3, <2>1, <2>2 DEF FreshInv, Fresh, View
  <1> QED
    BY <1>4, <1>5, <1>7, <1>8 DEF IInv

LEMMA ShowFindingsKeeps ==
    ASSUME IInv, NEW s \in Slot, ShowFindings(s)
    PROVE  IInv'
  <1>1. PICK c \in Call : c = call[s] /\ CallOK(c)
    BY DEF IInv, CallInv, CallOK
  <1>2. /\ c.step = "filtered" /\ findings' = c.view /\ late' = c.old
        /\ call' = [call EXCEPT ![s] = Idle]
        /\ UNCHANGED <<server, project, workspace, downloads, stale>>
    BY <1>1 DEF ShowFindings
  <1>3. /\ c.view \in View /\ c.view # NoView /\ Seen(c.view)
        /\ c.view.project = c.project /\ c.old \in BOOLEAN
    BY <1>1, <1>2 DEF CallOK, Call
  <1>4. /\ ServerInv' /\ CallInv'
        /\ call'[s].step = "idle"
        /\ \A t \in Slot \ {s} : call'[t] = call[t]
    BY <1>2, EndOfCall
  <1>5. PageInv'
    BY <1>2, <1>3 DEF IInv, PageInv, Seen, Exists
  <1>6. SelectionInv'
    BY <1>2, <1>4 DEF IInv, SelectionInv, Loads, Filters
  <1>7. FreshInv'
    <2>1. Covered => Covered'
      BY <1>1, <1>2, <1>4 DEF Covered, Covers, Loads
    <2>2. CASE c.old
      <3>1. Fresh => Fresh'
        BY <1>2, <2>2 DEF Fresh
      <3> QED
        BY <1>2, <2>1, <3>1 DEF IInv, FreshInv
    <2>3. CASE ~c.old
      <3>1. /\ c.project = project
            /\ workspace # NoView /\ workspace.project = project =>
                  c.view.version >= workspace.version
        BY <1>1, <1>2, <2>3 DEF IInv, SelectionInv, Filters
      <3>2. Fresh => Fresh'
        BY <1>2, <1>3, <3>1 DEF Fresh
      <3> QED
        BY <1>2, <2>1, <3>2 DEF IInv, FreshInv
    <2> QED
      BY <2>2, <2>3
  <1> QED
    BY <1>4, <1>5, <1>6, <1>7 DEF IInv

LEMMA LoseKeeps ==
    ASSUME IInv, NEW s \in Slot, Lose(s)
    PROVE  IInv'
  <1>1. PICK c \in Call : c = call[s]
    BY DEF IInv, CallInv, CallOK
  <1>2. /\ stale' = (stale \/ Covers(c))
        /\ call' = [call EXCEPT ![s] = Idle]
        /\ UNCHANGED <<server, page, late>>
    BY <1>1 DEF Lose, Covers
  <1>3. /\ ServerInv' /\ CallInv'
        /\ call'[s].step = "idle"
        /\ \A t \in Slot \ {s} : call'[t] = call[t]
    BY <1>2, EndOfCall DEF page
  <1>4. PageInv'
    BY <1>2, Unchanged, PageKept DEF IInv, PageInv
  <1>5. SelectionInv'
    BY <1>2, <1>3 DEF IInv, SelectionInv, Loads, Filters, page
  <1>6. FreshInv'
    <2>1. CASE Covers(c)
      BY <1>2, <2>1 DEF FreshInv
    <2>2. CASE ~Covers(c)
      <3>1. Covered => Covered'
        BY <1>1, <1>3, <2>2 DEF Covered, Covers
      <3>2. Fresh => Fresh'
        BY <1>2 DEF Fresh, page
      <3> QED
        BY <1>2, <3>1, <3>2 DEF IInv, FreshInv, page
    <2> QED
      BY <2>1, <2>2
  <1> QED
    BY <1>3, <1>4, <1>5, <1>6 DEF IInv

LEMMA ReloadKeeps ==
    ASSUME IInv, Reload
    PROVE  IInv'
  <1>1. ServerInv' /\ PageInv'
    BY DEF IInv, ServerInv, PageInv, Seen, Reload
  <1>2. CallInv'
    BY IdleOK DEF Reload, CallInv, CallOK, Seen, Sure, Loads, Filters
  <1>3. SelectionInv' /\ FreshInv'
    BY IdleOK DEF Reload, SelectionInv, FreshInv, Loads, Filters
  <1> QED
    BY <1>1, <1>2, <1>3 DEF IInv

-----------------------------------------------------------------------------
(* The theorems *)

LEMMA InitIsFine ==
    ASSUME Init
    PROVE  IInv
  <1>1. ServerInv
    BY BoundAssumption DEF Init, ServerInv, View
  <1>2. PageInv
    BY DEF Init, PageInv, Seen
  <1>3. CallInv
    BY IdleOK DEF Init, CallInv, CallOK, Seen, Sure, Loads, Filters
  <1>4. SelectionInv /\ FreshInv
    BY IdleOK DEF Init, SelectionInv, FreshInv, Loads, Filters
  <1> QED
    BY <1>1, <1>2, <1>3, <1>4 DEF IInv

LEMMA StutteringIsFine ==
    ASSUME IInv, UNCHANGED vars
    PROVE  IInv'
  BY DEF IInv, ServerInv, PageInv, CallInv, CallOK, Seen, Sure, SelectionInv,
         FreshInv, Fresh, Covered, Exists, vars, page

LEMMA StepIsFine ==
    ASSUME IInv, [Next]_vars
    PROVE  IInv'
  <1>1. ASSUME NEW s \in Slot, NEW p \in Project, Select(s, p) \/ AnswerCreate(s, p)
        PROVE  IInv'
    BY <1>1, SelectKeeps, AnswerCreateKeeps
  <1>2. ASSUME NEW s \in Slot, NEW kind \in Command, Send(s, kind)
        PROVE  IInv'
    BY <1>2, SendKeeps
  <1>3. ASSUME NEW s \in Slot,
               \/ Create(s) \/ Filter(s)
               \/ AnswerWorkspace(s) \/ AnswerFindings(s) \/ AnswerList(s)
               \/ Accept(s) \/ Refuse(s)
        PROVE  IInv'
    BY <1>3, CreateKeeps, FilterKeeps, AnswerWorkspaceKeeps, AnswerFindingsKeeps,
       AnswerListKeeps, AcceptKeeps, RefuseKeeps
  <1>4. ASSUME NEW s \in Slot,
               \/ ShowWorkspace(s) \/ ShowFindings(s) \/ TakeCreated(s)
               \/ TakeList(s) \/ TakeAccepted(s) \/ TakeRefused(s) \/ Lose(s)
        PROVE  IInv'
    BY <1>4, ShowWorkspaceKeeps, ShowFindingsKeeps, TakeCreatedKeeps, TakeListKeeps,
       TakeAcceptedKeeps, TakeRefusedKeeps, LoseKeeps
  <1> QED
    BY <1>1, <1>2, <1>3, <1>4, ElsewhereKeeps, ReloadKeeps, StutteringIsFine DEF Next

\* The invariant holds of every state that can be reached.
THEOREM InvariantHolds == Spec => []IInv
  <1>1. Init => IInv
    BY InitIsFine
  <1>2. IInv /\ [Next]_vars => IInv'
    BY StepIsFine
  <1> QED
    BY <1>1, <1>2, PTL DEF Spec

\* Every request names a project that exists, and every answer is of the project
\* that was asked for (app.js, handler.go).
THEOREM TypeCorrect == Spec => []TypeOK
  <1>1. IInv => TypeOK
    BY InvariantImpliesTypes
  <1> QED
    BY <1>1, InvariantHolds, PTL

LEMMA SettledIsFresh ==
    ASSUME IInv, Settled, project # NoProject
    PROVE  Fresh
  BY DEF IInv, FreshInv, Settled, Covered, Covers, Loads

\* However many handlers overlap, lose their answers or get them in another order,
\* a settled page shows the project that is selected (app.js loadWorkspace, act).
THEOREM PageShowsSelection == Spec => []SettledShowsSelected
  <1>1. IInv => SettledShowsSelected
    BY SettledIsFresh DEF SettledShowsSelected, Fresh
  <1> QED
    BY <1>1, InvariantHolds, PTL

\* However many handlers overlap, once no load is under way, lost or overtaken the
\* links of a frozen project name it, and the findings shown for a project with
\* revisions are its own and no older than the version sent with them, unless the
\* answer of a filter came after a later load (app.js renderFindings, showDownloads,
\* and line 238, which shows that answer under whichever project is selected by then).
THEOREM PanesAgree == Spec => []SettledPanesAgree
  <1>1. IInv => SettledPanesAgree
    <2>1. IInv /\ workspace # NoView => project # NoProject
      BY DEF IInv, SelectionInv
    <2> QED
      BY <2>1, SettledIsFresh DEF SettledPanesAgree, Fresh
  <1> QED
    BY <1>1, InvariantHolds, PTL

\* A command leaves an activation only by Accept.
LEMMA OnlyAcceptAccepts ==
    ASSUME IInv, [Next]_vars, NEW s \in Slot,
           call[s].step = "post", call'[s].step = "accepted"
    PROVE  Accept(s)
  <1>1. call \in [Slot -> Call] /\ \A t \in Slot : call[t] \in Call
    BY DEF IInv, CallInv
  <1>2. ASSUME NEW t \in Slot, NEW c, call' = [call EXCEPT ![t] = c]
        PROVE  t = s /\ call'[s] = c
    BY <1>1, <1>2
  <1>3. ASSUME NEW t \in Slot, NEW c, Overtake(t, c)
        PROVE  t = s
    BY <1>1, <1>3 DEF Overtake, Call
  <1>4. ASSUME NEW t \in Slot, NEW p \in Project, Select(t, p) \/ AnswerCreate(t, p)
        PROVE  FALSE
    BY <1>2, <1>3, <1>4 DEF Select, StartLoad, AnswerCreate
  <1>5. ASSUME NEW t \in Slot, NEW kind \in Command, Send(t, kind)
        PROVE  FALSE
    BY <1>2, <1>5 DEF Send
  <1>6. ASSUME NEW t \in Slot,
               \/ Create(t) \/ Filter(t)
               \/ AnswerWorkspace(t) \/ AnswerFindings(t) \/ AnswerList(t)
        PROVE  FALSE
    BY <1>2, <1>6 DEF Create, Filter, AnswerWorkspace, AnswerFindings, AnswerList
  <1>7. ASSUME NEW t \in Slot,
               \/ ShowWorkspace(t) \/ ShowFindings(t) \/ TakeCreated(t)
               \/ TakeList(t) \/ TakeAccepted(t) \/ TakeRefused(t)
        PROVE  FALSE
    BY <1>2, <1>3, <1>7
       DEF ShowWorkspace, ShowFindings, TakeCreated, TakeList, TakeAccepted,
           StartLoad, TakeRefused
  <1>8. ASSUME NEW t \in Slot, Refuse(t) \/ Lose(t)
        PROVE  FALSE
    <2>1. call'[s].step \in {"idle", "refused"}
      BY <1>2, <1>8, IdleOK DEF Refuse, Lose, Idle
    <2> QED
      BY <2>1
  <1>9. ASSUME UNCHANGED call \/ Reload
        PROVE  FALSE
    BY <1>9, IdleOK DEF Reload
  <1> QED
    <2>1. ASSUME NEW t \in Slot, Accept(t)
          PROVE  t = s
      BY <1>2, <2>1 DEF Accept
    <2>2. ~UNCHANGED vars
      BY <1>9 DEF vars
    <2>3. \A p \in Project : ~Elsewhere(p)
      BY <1>9 DEF Elsewhere
    <2> QED
      BY <1>4, <1>5, <1>6, <1>7, <1>8, <1>9, <2>1, <2>2, <2>3 DEF Next

LEMMA AcceptedAsSeen ==
    ASSUME IInv, NEW s \in Slot, Accept(s)
    PROVE  /\ call[s].view.project = call[s].project =>
                 call[s].view = server[call[s].project]
           /\ call[s].sure =>
                 /\ call[s].view.project = call[s].project
                 /\ call[s].kind = "resolve" => call[s].ticked = call[s].view
  <1>1. PICK c \in Call : c = call[s] /\ CallOK(c)
    BY DEF IInv, CallInv, CallOK
  <1>2. /\ c.step = "post" /\ c.view.version = server[c.project].version
        /\ c.kind = "resolve" => server[c.project].revised
    BY <1>1 DEF Accept, CheckVersion, Execute, Admits
  <1>3. c.view \in View /\ c.project \in Project
    BY <1>1, <1>2 DEF CallOK, Call
  <1>4. c.view.project = c.project => c.view = server[c.project]
    BY <1>1, <1>2, <1>3, NoViewAssumption DEF CallOK, Seen
  <1>5. c.sure => c.view.project = c.project
    BY <1>1, <1>2 DEF CallOK, Sure
  <1>6. ASSUME c.sure, c.kind = "resolve"
        PROVE  c.ticked = c.view
    <2>1. c.view = server[c.project] /\ c.view.revised
      BY <1>2, <1>4, <1>5, <1>6
    <2>2. /\ c.ticked # NoView /\ c.ticked.project = c.project
          /\ c.ticked.version >= c.view.version
      BY <1>1, <1>2, <1>6, <2>1 DEF CallOK, Sure
    <2>3. c.ticked \in View
      BY <2>2 DEF Call
    <2>4. c.ticked.version = server[c.project].version
      BY <1>1, <1>3, <2>1, <2>2, <2>3 DEF CallOK, Seen, View
    <2> QED
      BY <1>1, <2>1, <2>2, <2>4 DEF CallOK, Seen
  <1> QED
    BY <1>1, <1>4, <1>5, <1>6

\* A command whose path and version are of one project is executed on exactly the state
\* it was formed from.  They are of one project if no load was under way, lost or
\* overtaken when it was sent; a batch then also closes the findings that were shown,
\* unless an overtaken filter had left them.  Of any other command nothing is said: the
\* service cannot tell that its version or its findings are of another project (app.js
\* versioned, act, resolveBatch; project.go CheckVersion; engine.go:18).
THEOREM CommandsActOnWhatWasSeen == Spec => AcceptedOnSight
  <1>1. ASSUME IInv, [Next]_vars
        PROVE  [\A s \in Slot :
                  call[s].step = "post" /\ call'[s].step = "accepted" =>
                    /\ call[s].view.project = call[s].project =>
                          call[s].view = server[call[s].project]
                    /\ call[s].sure =>
                          /\ call[s].view.project = call[s].project
                          /\ call[s].kind = "resolve" =>
                                call[s].ticked = call[s].view]_vars
    BY <1>1, OnlyAcceptAccepts, AcceptedAsSeen
  <1> QED
    BY <1>1, InvariantHolds, PTL DEF Spec, AcceptedOnSight

=============================================================================
