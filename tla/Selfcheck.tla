------------------------------- MODULE Selfcheck -------------------------------
(***************************************************************************)
(* cmd/server with -selfcheck: one process with two goroutines.  The first *)
(* opens the data directory, listens and serves; the second waits for the  *)
(* address on a channel, then sends the commands of a whole workflow under *)
(* keys that never change, each after a GET of the version, and ends the   *)
(* process with the first error or after the last answer.                  *)
(*                                                                         *)
(* The directory outlives the process.  Earlier runs may have been killed  *)
(* or timed out at any point, and a normal server may use the same         *)
(* directory at the same time or in between: -data and -addr have the same *)
(* defaults for both.                                                      *)
(*                                                                         *)
(* Abstractions.  A snapshot is how many of the self-check's commands it   *)
(* has executed, and the project they were about: what the guards of       *)
(* commands ask of one.  Events are counted; a process that appends to a   *)
(* log with other events than its own breaks the chain, and a broken log   *)
(* is not opened.  Files that fail or are torn are module AuditStore.      *)
(* Users of either server may send any command to the self-check's project,*)
(* under keys of their own, and do as they please with other projects.     *)
(* What the engine says of a revision is a choice once others have touched *)
(* the project.                                                            *)
(***************************************************************************)
EXTENDS Integers

CONSTANTS
    MaxEvents,      \* bound on the events in the log
    MaxEdits        \* bound on the edits of the self-check's project by others

ASSUME BoundAssumption == MaxEvents \in Nat /\ MaxEdits \in Nat

VARIABLES
    disk,           \* the snapshot of the last event, and the number of events
    intact,         \* the digest chain of audit.jsonl holds
    times,          \* how often each command of the self-check is in the log
    server,         \* the goroutine of runServer
    memory,         \* what its repository holds
    ready,          \* the address is in the channel
    client,         \* the goroutine of runSelfcheck
    request,        \* its request
    pending,        \* the event the handler of the request has written
    result,         \* how the last self-check ended
    other,          \* a server without -selfcheck: off, or by its address
    others,         \* what its repository holds
    alone           \* it was off since the self-check began

dataDir == <<disk, intact, times>>
process == <<server, memory, ready, client, request, pending>>
normal  == <<other, others>>
vars    == <<dataDir, process, result, normal, alone>>

-----------------------------------------------------------------------------
\* The commands of runSelfcheck in their order.
Commands == <<"create", "terms", "revisions", "validate", "submit-review", "review",
              "freeze">>
Steps == 1..7

\* What others may send to the same project; a review either approves or returns.
Others == {"terms", "rules", "revisions", "validate", "resolve", "submit-review",
           "review", "return", "freeze"}

\* The project of the self-check: whether it has a revision, one older than its
\* glossary, and one submitted under the name of the self-check's reviewer.  touched
\* is an observation: what others did to it.
Project == [status : {"none", "draft", "validated", "needs_fix", "in_review", "returned",
                      "approved", "frozen"},
            version : Nat, revised : BOOLEAN, stale : BOOLEAN, theirs : BOOLEAN,
            touched : {"nothing", "terms", "more"}]

NoProject == [status |-> "none", version |-> 0, revised |-> FALSE, stale |-> FALSE,
              theirs |-> FALSE, touched |-> "nothing"]

Store == [done : 0..7, project : Project, events : Nat]

Empty == [done |-> 0, project |-> NoProject, events |-> 0]

\* Where the client is: waiting for the address; reading the version before a
\* command, or sending it; asking for the verification and for the export.
Client == [at : {"off", "wait", "verify", "export"}, step : {0}, expected : {0}]
          \cup [at : {"get", "post"}, step : Steps, expected : Nat]

Off == [at |-> "off", step |-> 0, expected |-> 0]

\* The client never runs ahead of the address, and no repository knows more events
\* than the log has.
TypeOK ==
    /\ {disk, memory, others, pending} \subseteq Store
    /\ intact \in BOOLEAN
    /\ times \in [Steps -> Nat]
    /\ server \in {"off", "opening", "opened", "serving", "failed"}
    /\ ready \in BOOLEAN
    /\ client \in Client
    /\ request \in {"none", "sent", "written", "answered", "refused"}
    /\ result \in {"none", "ok", "refused", "timeout"}
    /\ other \in {"off", "same", "different"}
    /\ alone \in BOOLEAN
    /\ (server = "off") = (client = Off)
    /\ server # "serving" => client.at \in {"off", "wait"} /\ ~ready
    /\ client.at = "wait" => request = "none"
    /\ memory.events <= disk.events /\ others.events <= disk.events

-----------------------------------------------------------------------------
(* The service *)

\* Which commands the project takes, besides that the version has to be its own.
Editable == {"draft", "validated", "needs_fix", "returned"}
Takes(p, kind) ==
    CASE kind = "create"        -> TRUE
      [] kind = "terms"         -> p.status \in Editable
      [] kind = "rules"         -> p.status \in {"draft", "returned"}
      [] kind = "revisions"     -> p.status \in {"draft", "needs_fix", "returned"}
      [] kind = "validate"      -> p.status \in Editable /\ p.revised
      [] kind = "resolve"       -> p.status = "needs_fix" /\ ~p.stale
      [] kind = "submit-review" -> p.status = "validated" /\ ~p.stale
      [] kind \in {"review", "return"} -> p.status = "in_review"
      [] kind = "freeze"        -> p.status = "approved"

\* The statuses a command may lead to.  The self-check's cue passes, unless others
\* have changed what it is inspected against.
StatusAfter(p, kind) ==
    CASE kind \in {"create", "revisions"} -> {"draft"}
      [] kind = "validate"      -> {"validated"} \cup
                                   IF p.touched = "nothing" THEN {} ELSE {"needs_fix"}
      [] kind = "submit-review" -> {"in_review"}
      [] kind = "review"        -> {"approved"}
      [] kind = "return"        -> {"returned"}
      [] kind = "freeze"        -> {"frozen"}
      [] OTHER                  -> {p.status}

\* What a command makes of the project.
Results(p, kind) ==
    {[p EXCEPT !.status = status, !.version = @ + 1,
               !.revised = @ \/ kind = "revisions",
               !.stale = IF kind = "terms" THEN p.revised ELSE @ /\ kind # "revisions",
               !.theirs = @ /\ kind # "revisions"] : status \in StatusAfter(p, kind)}

-----------------------------------------------------------------------------
(* Repository.Update of either process *)

\* The event a process with this memory appends for a command of the self-check.
OwnEvents(held, step) ==
    {[done |-> step, project |-> p, events |-> held.events + 1] :
        p \in Results(held.project, Commands[step])}

\* What a command of others makes of the project.  They may submit under the name of
\* the self-check's reviewer.
Touched(p, kind) == IF kind = "terms" /\ p.touched # "more" THEN "terms" ELSE "more"

Submitters(p, kind) == IF kind = "revisions" THEN BOOLEAN ELSE {p.theirs}

Disturbed(p, kind) ==
    UNION {{[q EXCEPT !.touched = Touched(p, kind), !.theirs = theirs] :
               q \in Results(p, kind)} : theirs \in Submitters(p, kind)}

TakenOfOthers(held) ==
    {k \in Others : Takes(held.project, k) /\ held.project.version < held.done + MaxEdits}

\* The event of a command of others, on this project or on another one.
ForeignEvents(held) ==
    {[held EXCEPT !.events = @ + 1]}
    \cup {[held EXCEPT !.events = @ + 1, !.project = p] :
             p \in UNION {Disturbed(held.project, kind) : kind \in TakenOfOthers(held)}}

\* It goes to the end of the log, whatever other processes have put there.
AppendEvent(held, event) ==
    /\ disk.events < MaxEvents
    /\ disk' = [event EXCEPT !.events = disk.events + 1]
    /\ intact' = (intact /\ held.events = disk.events)

-----------------------------------------------------------------------------
(* runServer *)

Start ==
    /\ server = "off"
    /\ server' = "opening"
    /\ client' = [Off EXCEPT !.at = "wait"]
    /\ result' = "none"
    /\ alone' = (other = "off")
    /\ UNCHANGED <<dataDir, memory, ready, request, pending, normal>>

BugAnnouncedEarly ==
    /\ server = "opening" /\ intact
    /\ server' = "opened" /\ ready' = TRUE
    /\ memory' = disk
    /\ UNCHANGED <<dataDir, client, request, pending, result, normal, alone>>

\* buildHandler, which fails on a log that is damaged.
Open ==
    /\ server = "opening" /\ intact
    /\ server' = "opened"
    /\ memory' = disk
    /\ UNCHANGED <<dataDir, ready, client, request, pending, result, normal, alone>>

\* netListen, which fails when the address is in use; the address goes to the
\* channel before Serve is called.
Listen ==
    /\ server = "opened" /\ other # "same"
    /\ server' = "serving"
    /\ ready' = TRUE
    /\ UNCHANGED <<dataDir, memory, client, request, pending, result, normal, alone>>

\* runServer returns its error to the goroutine, which discards it.
ServerFails ==
    /\ \/ server = "opening" /\ ~intact
       \/ server = "opened" /\ other = "same"
    /\ server' = "failed"
    /\ UNCHANGED <<dataDir, memory, ready, client, request, pending, result, normal, alone>>

-----------------------------------------------------------------------------
(* runSelfcheck *)

\* The process ends, and both goroutines with it.
End(how) ==
    /\ server' = "off" /\ memory' = Empty /\ ready' = FALSE
    /\ client' = Off /\ request' = "none" /\ pending' = Empty
    /\ result' = how
    /\ UNCHANGED <<dataDir, normal, alone>>

\* The address arrives, and the first command needs no version.
AwaitAddress ==
    /\ client.at = "wait" /\ ready
    /\ ready' = FALSE
    /\ client' = [at |-> "post", step |-> 1, expected |-> 0]
    /\ UNCHANGED <<dataDir, server, memory, request, pending, result, normal, alone>>

Send ==
    /\ client.at \in {"get", "post", "verify", "export"} /\ request = "none"
    /\ request' = "sent"
    /\ UNCHANGED <<dataDir, server, memory, ready, client, pending, result, normal, alone>>

\* The version the command before this one was sent with.
BugVersionKept(c) ==
    CASE c.at = "get" -> [c EXCEPT !.at = "post", !.expected = memory.project.version - 1]
      [] c.at = "post" -> IF c.step < 7
                          THEN [at |-> "get", step |-> c.step + 1, expected |-> 0]
                          ELSE [Off EXCEPT !.at = "verify"]
      [] OTHER -> [Off EXCEPT !.at = "export"]

\* What the client does after an answer that is no error.
After(c) ==
    CASE c.at = "get" -> [c EXCEPT !.at = "post", !.expected = memory.project.version]
      [] c.at = "post" -> IF c.step < 7
                          THEN [at |-> "get", step |-> c.step + 1, expected |-> 0]
                          ELSE [Off EXCEPT !.at = "verify"]
      [] OTHER -> [Off EXCEPT !.at = "export"]

\* Whether the verification found everything valid is not looked at.
Receive ==
    /\ request = "answered" /\ client.at # "export"
    /\ client' = After(client)
    /\ request' = "none"
    /\ UNCHANGED <<dataDir, server, memory, ready, pending, result, normal, alone>>

Finish == request = "answered" /\ client.at = "export" /\ End("ok")

\* A status beyond 299.
ReceiveError == request = "refused" /\ End("refused")

BugNoTimeout == FALSE

\* The client's timeout; the server may be anywhere in its work.
Timeout == request \in {"sent", "written"} /\ End("timeout")

Kill == server # "off" /\ End("none")

-----------------------------------------------------------------------------
(* The handler *)

BugKeysIgnored == FALSE

\* The key of the command is known.
Replays == client.at = "post" /\ memory.done >= client.step

\* The version is the project's and the project takes the command; nobody may review
\* what was submitted under his own name.
Admitted ==
    /\ client.at = "post" /\ ~Replays
    /\ client.step = 1 \/ memory.done = client.step - 1
    /\ client.step > 1 => client.expected = memory.project.version
    /\ Takes(memory.project, Commands[client.step])
    /\ client.step = 6 => ~memory.project.theirs

\* A query, or a replay; verification and export demand a frozen project.
Answer ==
    /\ request = "sent"
    /\ \/ client.at = "get" \/ Replays
       \/ client.at \in {"verify", "export"} /\ memory.project.status = "frozen"
    /\ request' = "answered"
    /\ UNCHANGED <<dataDir, server, memory, ready, client, pending, result, normal, alone>>

\* The event of a command is in the log.
Write ==
    /\ request = "sent" /\ Admitted
    /\ \E event \in OwnEvents(memory, client.step) :
          AppendEvent(memory, event) /\ pending' = event
    /\ times' = [times EXCEPT ![client.step] = @ + 1]
    /\ request' = "written"
    /\ UNCHANGED <<server, memory, ready, client, result, normal, alone>>

BugHeadNotMoved ==
    /\ request = "written"
    /\ memory' = [pending EXCEPT !.events = memory.events]
    /\ pending' = Empty
    /\ request' = "answered"
    /\ UNCHANGED <<dataDir, server, ready, client, result, normal, alone>>

\* The memory follows, and the client is answered.
Commit ==
    /\ request = "written"
    /\ memory' = pending /\ pending' = Empty
    /\ request' = "answered"
    /\ UNCHANGED <<dataDir, server, ready, client, result, normal, alone>>

Refuse ==
    /\ request = "sent"
    /\ \/ client.at = "post" /\ ~Replays /\ ~Admitted
       \/ client.at \in {"verify", "export"} /\ memory.project.status # "frozen"
    /\ request' = "refused"
    /\ UNCHANGED <<dataDir, server, memory, ready, client, pending, result, normal, alone>>

-----------------------------------------------------------------------------
(* Others: a normal server on the same directory, and users of either server *)

StartOther(address) ==
    /\ other = "off" /\ intact
    /\ address = "same" => server # "serving"
    /\ other' = address
    /\ others' = disk
    /\ alone' = FALSE
    /\ UNCHANGED <<dataDir, process, result>>

StopOther ==
    /\ other # "off"
    /\ other' = "off" /\ others' = Empty
    /\ UNCHANGED <<dataDir, process, result, alone>>

\* A command of its users.
OtherCommand ==
    /\ other # "off"
    /\ \E event \in ForeignEvents(others) : AppendEvent(others, event) /\ others' = event
    /\ UNCHANGED <<times, process, result, other, alone>>

\* A command that reached the listener of the self-check, between two of Update.
VisitorCommand ==
    /\ server = "serving" /\ request # "written"
    /\ \E event \in ForeignEvents(memory) : AppendEvent(memory, event) /\ memory' = event
    /\ UNCHANGED <<times, server, ready, client, request, pending, result, normal, alone>>

-----------------------------------------------------------------------------
Init ==
    /\ disk = Empty /\ intact = TRUE /\ times = [k \in Steps |-> 0]
    /\ server = "off" /\ memory = Empty /\ ready = FALSE
    /\ client = Off /\ request = "none" /\ pending = Empty
    /\ result = "none"
    /\ other = "off" /\ others = Empty
    /\ alone = FALSE

ServerStep == Open \/ Listen \/ ServerFails
ClientStep == AwaitAddress \/ Send \/ Receive \/ Finish \/ ReceiveError \/ Timeout

Next ==
    \/ Start \/ ServerStep \/ ClientStep \/ Kill
    \/ Answer \/ Write \/ Commit \/ Refuse
    \/ \E address \in {"same", "different"} : StartOther(address)
    \/ StopOther \/ OtherCommand \/ VisitorCommand

\* The goroutines run; that the handler ever answers is not assumed.
Fairness == WF_vars(ServerStep) /\ WF_vars(ClientStep)

Spec == Init /\ [][Next]_vars /\ Fairness

-----------------------------------------------------------------------------
(* Properties *)

\* However often the self-check was interrupted, between the log and the answer
\* too, and started again, each of its commands is executed once (main.go fixed
\* keys; service.go replay).
StepsAreDoneOnce == intact => \A k \in Steps : times[k] <= 1

\* A rerun is replayed up to where the last one stopped, and goes on from there.  It is
\* refused only after others have touched its project.  If they have only added terms,
\* before its GET, they may stop submit-review alone: a revision older than its glossary,
\* or one the terms object to, is not taken.  After any other command of theirs every
\* later step may be refused, in every later run too (main.go, the GET before each
\* command; service.go replay before project.go CheckVersion; review.go).
RefusedOnlyIfDisturbed ==
    request = "refused" =>
        /\ client.at = "post"
        /\ memory.project.touched # "nothing"
        /\ memory.project.touched = "terms" =>
              client.step = 5 \/ client.expected # memory.project.version

\* A self-check that reports success has left the whole workflow in the log, and a
\* log that is intact unless another server used the directory meanwhile.  Then it
\* may not be: the self-check asks for the verification and ignores what it says,
\* and prints that it passed (main.go:149 and 156).
SuccessIsReal ==
    result = "ok" =>
        /\ \A k \in Steps : times[k] > 0
        /\ alone => intact

\* From the address on the self-check ends, even if the handler never answers
\* (main.go, the client's Timeout).
EndsOnceServed == client.at \notin {"off", "wait"} ~> client.at = "off"

\* It always ends, as README.md promises ("within a limited time ... and then exits
\* by itself").  It does not hold: when runServer fails, nothing is ever sent to the
\* channel (main.go:77 and 78).
SelfcheckEnds == client.at # "off" ~> client.at = "off"

=============================================================================
