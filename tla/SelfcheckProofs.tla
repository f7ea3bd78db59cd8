---------------------------- MODULE SelfcheckProofs ----------------------------
(***************************************************************************)
(* Theorems about Selfcheck, for any number of events and of edits by      *)
(* others.  A repository only knows its own events: what it may conclude   *)
(* about the log when it holds as many events as the log has is half of    *)
(* the invariant, what the client may conclude about the memory of its     *)
(* own server is the other half.                                           *)
(***************************************************************************)
EXTENDS Selfcheck, TLAPS

-----------------------------------------------------------------------------
(* The inductive invariant *)

\* The status the commands of the self-check lead to.
Reached(done) ==
    IF done = 0 THEN "none" ELSE IF done \in 1..3 THEN "draft"
    ELSE IF done = 4 THEN "validated" ELSE IF done = 5 THEN "in_review"
    ELSE IF done = 6 THEN "approved" ELSE "frozen"

\* A project is where its commands have led it as long as others have left it alone or
\* have only added terms; those are what the validation may object to.
Lawful(held) ==
    LET p == held.project
    IN  /\ held.done = 0 => p.touched = "nothing"
        /\ held.done = 7 => p.status = "frozen"
        /\ p.touched = "nothing" => ~p.stale
        /\ p.touched # "more" =>
              /\ p.revised <=> held.done >= 3
              /\ ~p.theirs
              /\ \/ p.status = Reached(held.done)
                 \/ p.touched = "terms" /\ held.done = 4 /\ p.status = "needs_fix"

\* What a repository holds was executed.
Executed(held) == \A k \in Steps : k <= held.done => times[k] > 0

\* As long as the chain holds, each command was executed once, and a repository
\* that knows all events knows the log.
LogInv ==
    /\ disk.events = 0 => disk = Empty
    /\ Lawful(disk) /\ Lawful(memory) /\ Lawful(others)
    /\ Executed(disk) /\ Executed(memory) /\ Executed(others)
    /\ intact => /\ \A k \in Steps : times[k] = IF k <= disk.done THEN 1 ELSE 0
                 /\ memory.events = disk.events => memory = disk
                 /\ others.events = disk.events => others = disk

\* The event of a command is in the log and the memory does not know it yet.
WrittenInv ==
    request = "written" =>
        /\ client.at = "post" /\ memory.done = client.step - 1
        /\ times[client.step] > 0
        /\ memory.events < disk.events
        /\ pending.done = client.step /\ pending.events = memory.events + 1
        /\ Lawful(pending)
        /\ intact /\ pending.events = disk.events => disk = pending

\* A version that is no longer the project's is an old one, and others made it so.
VersionInv ==
    client.at = "post" /\ client.step > 1 /\ request \in {"none", "sent", "refused"} =>
        /\ client.expected <= memory.project.version
        /\ memory.project.touched = "nothing" => client.expected = memory.project.version

\* The memory of the server never falls behind the client.
ClientInv ==
    /\ request # "none" => client.at \in {"get", "post", "verify", "export"}
    /\ client.at \in {"get", "post"} => memory.done >= client.step - 1
    /\ client.at = "post" /\ request = "answered" => memory.done >= client.step
    /\ client.at \in {"verify", "export"} => memory.done = 7
    /\ request = "refused" => client.step > 1
    /\ VersionInv
    /\ RefusedOnlyIfDisturbed

\* Alone on its directory a server knows the log.
AloneInv ==
    /\ alone => other = "off"
    /\ result = "ok" => server = "off" /\ \A k \in Steps : times[k] > 0
    /\ alone /\ (server \in {"opened", "serving"} \/ result = "ok") => intact
    /\ alone /\ server \in {"opened", "serving"} =>
          disk.events = IF request = "written" THEN memory.events + 1
                        ELSE memory.events

IInv == TypeOK /\ LogInv /\ WrittenInv /\ ClientInv /\ AloneInv

-----------------------------------------------------------------------------
(* The operators *)

LEMMA EmptyType ==
    /\ Empty \in Store /\ Empty.done = 0 /\ Empty.events = 0
    /\ Lawful(Empty)
    /\ Off \in Client /\ Off.at = "off"
  <1>1. NoProject \in Project
    BY DEF NoProject, Project
  <1>2. Empty \in Store
    BY <1>1 DEF Empty, Store
  <1>3. Lawful(Empty)
    <2>1. Empty.done = 0 /\ Empty.project = NoProject
      BY DEF Empty
    <2>2. /\ NoProject.status = "none" /\ NoProject.touched = "nothing"
          /\ ~NoProject.stale /\ ~NoProject.revised /\ ~NoProject.theirs
      BY DEF NoProject
    <2> QED
      BY <2>1, <2>2 DEF Lawful, Reached
  <1>4. Off \in Client /\ Off.at = "off"
    BY DEF Off, Client
  <1> QED
    BY <1>2, <1>3, <1>4 DEF Empty

\* What a command leaves of a project.
LEMMA ResultIs ==
    ASSUME NEW p \in Project, NEW kind, NEW q \in Results(p, kind)
    PROVE  /\ q \in Project
           /\ q.status \in StatusAfter(p, kind)
           /\ q.version = p.version + 1
           /\ q.revised <=> p.revised \/ kind = "revisions"
           /\ q.stale => p.stale \/ (p.revised /\ kind = "terms")
           /\ q.theirs <=> p.theirs /\ kind # "revisions"
           /\ q.touched = p.touched
  <1>1. PICK status \in StatusAfter(p, kind) :
           q = [p EXCEPT !.status = status, !.version = @ + 1,
                         !.revised = @ \/ kind = "revisions",
                         !.stale = IF kind = "terms" THEN p.revised
                                   ELSE @ /\ kind # "revisions",
                         !.theirs = @ /\ kind # "revisions"]
    BY DEF Results
  <1>2. status \in {"none", "draft", "validated", "needs_fix", "in_review", "returned",
                    "approved", "frozen"}
    BY DEF StatusAfter, Project
  <1>3. q = [status |-> status, version |-> p.version + 1,
             revised |-> p.revised \/ kind = "revisions",
             stale |-> IF kind = "terms" THEN p.revised
                       ELSE p.stale /\ kind # "revisions",
             theirs |-> p.theirs /\ kind # "revisions", touched |-> p.touched]
    BY <1>1 DEF Project
  <1>4. PICK revised \in BOOLEAN : revised = (p.revised \/ kind = "revisions")
    OBVIOUS
  <1>5. PICK stale \in BOOLEAN : stale = IF kind = "terms" THEN p.revised
                                         ELSE p.stale /\ kind # "revisions"
    BY DEF Project
  <1>6. PICK theirs \in BOOLEAN : theirs = (p.theirs /\ kind # "revisions")
    OBVIOUS
  <1>7. q = [status |-> status, version |-> p.version + 1, revised |-> revised,
             stale |-> stale, theirs |-> theirs, touched |-> p.touched]
    BY <1>3, <1>4, <1>5, <1>6, Zenon
  <1>8. q \in Project
    BY <1>2, <1>7 DEF Project
  <1>9. /\ q.status = status /\ q.version = p.version + 1 /\ q.revised = revised
        /\ q.stale = stale /\ q.theirs = theirs /\ q.touched = p.touched
    BY <1>7
  <1>10. stale => p.stale \/ (p.revised /\ kind = "terms")
    BY <1>5
  <1> QED
    BY <1>4, <1>6, <1>8, <1>9, <1>10

\* The event of a command that the project takes leads it one step further.
LEMMA OwnEventIs ==
    ASSUME NEW held \in Store, Lawful(held), NEW step \in Steps, held.done = step - 1,
           Takes(held.project, Commands[step]), NEW event \in OwnEvents(held, step)
    PROVE  /\ event \in Store /\ event.done = step /\ event.events = held.events + 1
           /\ Lawful(event)
  <1> DEFINE p == held.project
  <1>1. PICK q \in Results(p, Commands[step]) :
           event = [done |-> step, project |-> q, events |-> held.events + 1]
    BY DEF OwnEvents
  <1>2. p \in Project /\ held.events \in Nat /\ step \in 1..7
    BY DEF Store, Steps
  <1>3. /\ q \in Project
        /\ q.status \in StatusAfter(p, Commands[step])
        /\ q.revised <=> p.revised \/ Commands[step] = "revisions"
        /\ q.stale => p.stale \/ (p.revised /\ Commands[step] = "terms")
        /\ q.theirs <=> p.theirs /\ Commands[step] # "revisions"
        /\ q.touched = p.touched
    BY <1>1, <1>2, ResultIs
  <1>4. /\ Commands[1] = "create" /\ Commands[2] = "terms" /\ Commands[3] = "revisions"
        /\ Commands[4] = "validate" /\ Commands[5] = "submit-review"
        /\ Commands[6] = "review" /\ Commands[7] = "freeze"
    BY DEF Commands
  <1>5. event \in Store /\ event.done = step /\ event.events = held.events + 1
    BY <1>1, <1>2, <1>3 DEF Store
  <1>6. Lawful(event)
    <2>1. /\ event.project = q /\ event.done = step
          /\ p.touched # "more" =>
                /\ p.revised <=> step - 1 >= 3
                /\ ~p.theirs
                /\ \/ p.status = Reached(step - 1)
                   \/ p.touched = "terms" /\ step - 1 = 4 /\ p.status = "needs_fix"
          /\ p.touched = "nothing" => ~p.stale
          /\ step - 1 = 0 => p.touched = "nothing"
      BY <1>1 DEF Lawful
    <2> HIDE DEF p
    <2>2. CASE step = 1
      BY <1>3, <1>4, <2>1, <2>2 DEF Lawful, Reached, StatusAfter
    <2>3. CASE step = 2
      BY <1>3, <1>4, <2>1, <2>3 DEF Lawful, Reached, StatusAfter
    <2>4. CASE step = 3
      BY <1>3, <1>4, <2>1, <2>4 DEF Lawful, Reached, StatusAfter
    <2>5. CASE step = 4
      <3>1. /\ q.status \in {"validated", "needs_fix"}
            /\ p.touched = "nothing" => q.status = "validated"
            /\ q.touched \in {"nothing", "terms", "more"}
        BY <1>3, <1>4, <2>5 DEF StatusAfter, Project
      <3> QED
        BY <1>3, <1>4, <2>1, <2>5, <3>1 DEF Lawful, Reached
    <2>6. CASE step = 5
      BY <1>3, <1>4, <2>1, <2>6 DEF Lawful, Reached, StatusAfter
    <2>7. CASE step = 6
      BY <1>3, <1>4, <2>1, <2>7 DEF Lawful, Reached, StatusAfter
    <2>8. CASE step = 7
      BY <1>3, <1>4, <2>1, <2>8 DEF Lawful, Reached, StatusAfter
    <2> QED
      BY <1>2, <2>2, <2>3, <2>4, <2>5, <2>6, <2>7, <2>8
  <1> QED
    BY <1>5, <1>6

\* A project that does not exist, or is frozen, takes no command of others.
LEMMA TakesNothing ==
    ASSUME NEW p \in Project, NEW kind \in Others, Takes(p, kind)
    PROVE  p.status # "none" /\ p.status # "frozen"
  BY DEF Takes, Editable, Others

\* An event of others is about another project, or touches this one.
LEMMA ForeignEventIs ==
    ASSUME NEW held \in Store, Lawful(held), NEW event \in ForeignEvents(held)
    PROVE  /\ event \in Store /\ event.done = held.done
           /\ event.events = held.events + 1
           /\ Lawful(event)
           /\ \/ event.project = held.project
              \/ /\ event.project.version = held.project.version + 1
                 /\ event.project.touched # "nothing"
                 /\ held.project.touched = "more" => event.project.touched = "more"
  <1> DEFINE p == held.project
  <1>1. CASE event = [held EXCEPT !.events = @ + 1]
    BY <1>1 DEF Store, Lawful
  <1>2. ASSUME NEW kind \in Others, Takes(p, kind), NEW q \in Results(p, kind),
               NEW theirs \in Submitters(p, kind),
               event = [held EXCEPT !.events = @ + 1,
                           !.project = [q EXCEPT !.touched = Touched(p, kind),
                                                 !.theirs = theirs]]
        PROVE  /\ event \in Store /\ event.done = held.done
               /\ event.events = held.events + 1
               /\ Lawful(event)
               /\ event.project.version = p.version + 1
               /\ event.project.touched # "nothing"
               /\ p.touched = "more" => event.project.touched = "more"
    <2> DEFINE r == [q EXCEPT !.touched = Touched(p, kind), !.theirs = theirs]
    <2>1. p \in Project /\ held.events \in Nat /\ held.done \in 0..7
      BY DEF Store
    <2>2. /\ q \in Project
          /\ q.status \in StatusAfter(p, kind)
          /\ q.version = p.version + 1
          /\ q.revised <=> p.revised \/ kind = "revisions"
      BY <1>2, <2>1, ResultIs
    <2>3. theirs \in BOOLEAN /\ Touched(p, kind) \in {"terms", "more"}
      BY <2>1 DEF Project, Touched, Submitters
    <2>4. /\ r \in Project /\ r.status = q.status /\ r.version = q.version
          /\ r.revised = q.revised /\ r.theirs = theirs
          /\ r.touched = Touched(p, kind)
      BY <2>2, <2>3 DEF Project
    <2>5. event = [done |-> held.done, project |-> r, events |-> held.events + 1]
      BY <1>2 DEF Store
    <2> HIDE DEF r, p
    <2>6. /\ event \in Store /\ event.done = held.done
          /\ event.events = held.events + 1 /\ event.project = r
      BY <2>1, <2>4, <2>5 DEF Store
    <2>7. p.status # "none" /\ p.status # "frozen"
      BY <1>2, <2>1, TakesNothing
    <2>8. held.done # 0 /\ held.done # 7
      BY <2>7 DEF Lawful, Reached, p
    <2>9. Lawful(event)
      <3>1. CASE r.touched = "more"
        BY <2>6, <2>8, <3>1 DEF Lawful
      <3>2. CASE r.touched # "more"
        <4>1. kind = "terms" /\ p.touched # "more" /\ r.touched = "terms"
          BY <2>4, <3>2 DEF Touched
        <4>2. /\ r.revised = p.revised /\ r.theirs = p.theirs /\ r.status = p.status
          BY <1>2, <2>1, <2>2, <2>4, <4>1 DEF StatusAfter, Submitters, Project
        <4> QED
          BY <2>6, <2>8, <4>1, <4>2 DEF Lawful, p
      <3> QED
        BY <3>1, <3>2
    <2>10. p.touched = "more" => r.touched = "more"
      BY <2>4 DEF Touched
    <2> QED
      BY <2>2, <2>3, <2>4, <2>6, <2>9, <2>10 DEF p
  <1>3. CASE event # [held EXCEPT !.events = @ + 1]
    <2>1. PICK r \in UNION {Disturbed(held.project, kind) :
                              kind \in TakenOfOthers(held)} :
             event = [held EXCEPT !.events = @ + 1, !.project = r]
      BY <1>3 DEF ForeignEvents
    <2>2. PICK kind \in Others :
             Takes(held.project, kind) /\ r \in Disturbed(held.project, kind)
      BY <2>1 DEF TakenOfOthers
    <2>3. PICK theirs \in Submitters(held.project, kind) :
             r \in {[q EXCEPT !.touched = Touched(held.project, kind),
                             !.theirs = theirs] : q \in Results(held.project, kind)}
      BY <2>2 DEF Disturbed
    <2>4. PICK q \in Results(held.project, kind) :
             r = [q EXCEPT !.touched = Touched(held.project, kind), !.theirs = theirs]
      BY <2>3
    <2> QED
      BY <1>2, <2>1, <2>2, <2>4
  <1> QED
    BY <1>1, <1>3

\* An event that is appended where its repository believes the end of the log to be.
LEMMA AppendType ==
    ASSUME TypeOK, NEW held \in Store, NEW event \in Store, AppendEvent(held, event),
           held.events <= disk.events
    PROVE  /\ disk' \in Store /\ disk'.done = event.done
           /\ disk'.events = disk.events + 1
           /\ intact' \in BOOLEAN
           /\ intact' = (intact /\ held.events = disk.events)
           /\ event.events = disk.events + 1 => disk' = event
           /\ Lawful(event) => Lawful(disk')
  <1>1. disk' = [event EXCEPT !.events = disk.events + 1]
    BY DEF AppendEvent
  <1>2. disk.events + 1 \in Nat
    BY DEF TypeOK, Store
  <1>3. disk'.done = event.done /\ disk'.project = event.project
    BY <1>1 DEF Store
  <1>4. Lawful(event) => Lawful(disk')
    BY <1>3 DEF Lawful
  <1> QED
    BY <1>1, <1>2, <1>4 DEF AppendEvent, Store

-----------------------------------------------------------------------------
(* Every step keeps the invariant *)

\* What does not touch a repository keeps what is known of the log.
LEMMA LogKept ==
    ASSUME IInv, UNCHANGED <<dataDir, memory, others>>
    PROVE  LogInv'
  BY DEF IInv, LogInv, Executed, dataDir

LEMMA StartKeeps ==
    ASSUME IInv, Start
    PROVE  IInv'
  <1>1. /\ server = "off" /\ server' = "opening"
        /\ client' = [Off EXCEPT !.at = "wait"]
        /\ result' = "none" /\ alone' = (other = "off")
        /\ UNCHANGED <<dataDir, memory, ready, request, pending, normal>>
    BY DEF Start
  <1>2. /\ client' \in Client /\ client'.at = "wait" /\ client' # Off
        /\ client = Off /\ client.at = "off"
    BY <1>1, EmptyType DEF IInv, TypeOK, Off, Client
  <1>3. request = "none"
    BY <1>2 DEF IInv, ClientInv, TypeOK
  <1>4. TypeOK'
    BY <1>1, <1>2, <1>3 DEF IInv, TypeOK, dataDir, normal
  <1>5. LogInv'
    BY <1>1, LogKept DEF normal
  <1>6. WrittenInv' /\ ClientInv' /\ AloneInv'
    BY <1>1, <1>2, <1>3
       DEF IInv, WrittenInv, ClientInv, VersionInv, RefusedOnlyIfDisturbed, AloneInv,
           dataDir, normal
  <1> QED
    BY <1>4, <1>5, <1>6 DEF IInv

LEMMA OpenKeeps ==
    ASSUME IInv, Open
    PROVE  IInv'
  <1>1. /\ server = "opening" /\ intact /\ server' = "opened" /\ memory' = disk
        /\ UNCHANGED <<dataDir, ready, client, request, pending, result, normal, alone>>
    BY DEF Open
  <1>2. client.at = "wait" /\ request = "none"
    BY <1>1, EmptyType DEF IInv, TypeOK, Off, Client
  <1>3. TypeOK'
    BY <1>1, <1>2 DEF IInv, TypeOK, Store, dataDir, normal
  <1>4. LogInv'
    BY <1>1 DEF IInv, LogInv, Executed, dataDir, normal
  <1>5. WrittenInv' /\ ClientInv' /\ AloneInv'
    BY <1>1, <1>2
       DEF IInv, WrittenInv, ClientInv, VersionInv, RefusedOnlyIfDisturbed, AloneInv,
           dataDir, normal
  <1> QED
    BY <1>3, <1>4, <1>5 DEF IInv

LEMMA ListenKeeps ==
    ASSUME IInv, Listen \/ ServerFails
    PROVE  IInv'
  <1>1. /\ server \in {"opening", "opened"} /\ server' \in {"serving", "failed"}
        /\ server' = "serving" => server = "opened"
        /\ UNCHANGED <<disk, intact, times, memory, client, request, pending, result, other,
                       others, alone>>
    BY DEF Listen, ServerFails, dataDir, normal
  <1>2. client.at = "wait" /\ client # Off /\ request = "none" /\ ~ready
    BY <1>1, EmptyType DEF IInv, TypeOK, Off, Client
  <1>3. TypeOK'
    <2>1. ready' \in BOOLEAN /\ (ready' => server' = "serving")
      <3>1. CASE Listen
        BY <3>1 DEF Listen
      <3>2. CASE ServerFails
        <4>1. ready' = FALSE
          BY <1>2, <3>2 DEF IInv, TypeOK, ServerFails
        <4> QED
          BY <4>1
      <3> QED
        BY <3>1, <3>2
    <2> QED
      BY <1>1, <1>2, <2>1 DEF IInv, TypeOK
  <1>4. LogInv'
    BY <1>1, LogKept DEF dataDir
  <1>5. WrittenInv' /\ ClientInv'
    BY <1>1, <1>2 DEF WrittenInv, ClientInv, VersionInv, RefusedOnlyIfDisturbed
  <1>6. AloneInv'
    BY <1>1, <1>2 DEF IInv, AloneInv
  <1> QED
    BY <1>3, <1>4, <1>5, <1>6 DEF IInv

LEMMA AwaitAddressKeeps ==
    ASSUME IInv, AwaitAddress
    PROVE  IInv'
  <1>1. /\ client.at = "wait" /\ ready /\ ready' = FALSE
        /\ client' = [at |-> "post", step |-> 1, expected |-> 0]
        /\ UNCHANGED <<dataDir, server, memory, request, pending, result, normal, alone>>
    BY DEF AwaitAddress
  <1>2. /\ client' \in Client /\ client' # Off /\ client # Off
        /\ client'.at = "post" /\ client'.step = 1
    BY <1>1 DEF Client, Off, Steps
  <1>3. server = "serving" /\ request = "none" /\ memory.done >= 0
    BY <1>1 DEF IInv, TypeOK, Store
  <1>4. TypeOK'
    BY <1>1, <1>2, <1>3 DEF IInv, TypeOK, dataDir, normal
  <1>5. LogInv'
    BY <1>1, LogKept DEF normal
  <1>6. WrittenInv' /\ ClientInv' /\ AloneInv'
    BY <1>1, <1>2, <1>3
       DEF IInv, WrittenInv, ClientInv, VersionInv, RefusedOnlyIfDisturbed, AloneInv,
           dataDir, normal
  <1> QED
    BY <1>4, <1>5, <1>6 DEF IInv

LEMMA SendKeeps ==
    ASSUME IInv, Send \/ Answer
    PROVE  IInv'
  <1>1. client.at \in {"get", "post", "verify", "export"}
    BY DEF Send, Answer, Replays
  <1>2. /\ client' = client /\ memory' = memory
        /\ UNCHANGED <<dataDir, server, ready, pending, result, normal, alone>>
    BY DEF Send, Answer
  <1>3. TypeOK'
    BY <1>1, <1>2 DEF IInv, TypeOK, Send, Answer, dataDir, normal
  <1>4. LogInv'
    BY <1>2, LogKept DEF normal
  <1>5. WrittenInv' /\ ClientInv' /\ AloneInv'
    BY <1>1, <1>2 DEF IInv, WrittenInv, ClientInv, VersionInv, RefusedOnlyIfDisturbed,
           AloneInv, Send, Answer, Replays, dataDir, normal
  <1> QED
    BY <1>3, <1>4, <1>5 DEF IInv

\* The process ends, and how it ended is true.
LEMMA EndKeeps ==
    ASSUME IInv, NEW how \in {"none", "ok", "refused", "timeout"}, End(how),
           server # "off",
           how = "ok" => /\ client.at = "export"
                         /\ memory.done = 7
    PROVE  IInv'
  <1>1. /\ server' = "off" /\ memory' = Empty /\ ready' = FALSE /\ client' = Off
        /\ request' = "none" /\ pending' = Empty /\ result' = how
        /\ UNCHANGED <<dataDir, normal, alone>>
    BY DEF End
  <1>2. TypeOK'
    <2>1. /\ client' \in Client /\ client'.at = "off" /\ client' = Off
          /\ memory' \in Store /\ memory'.events = 0 /\ disk.events \in Nat
      BY <1>1, EmptyType DEF IInv, TypeOK, Store
    <2>2. /\ disk' = disk /\ intact' = intact /\ times' = times /\ other' = other
          /\ others' = others /\ alone' = alone /\ ready' = FALSE
      BY <1>1 DEF dataDir, normal
    <2>3. (server' = "off") = (client' = Off)
      BY <1>1
    <2>4. /\ {disk', memory', others', pending'} \subseteq Store
          /\ memory'.events <= disk'.events
      BY <1>1, <2>1, <2>2, EmptyType DEF IInv, TypeOK
    <2> QED
      BY <1>1, <2>1, <2>2, <2>3, <2>4 DEF IInv, TypeOK
  <1>3. LogInv'
    BY <1>1, EmptyType DEF IInv, TypeOK, LogInv, Executed, Store, Steps, dataDir, normal
  <1>4. WrittenInv' /\ ClientInv'
    BY <1>1, EmptyType DEF WrittenInv, ClientInv, VersionInv, RefusedOnlyIfDisturbed
  <1>5. AloneInv'
    <2>1. how = "ok" => server = "serving" /\ \A k \in Steps : times[k] > 0
      BY DEF IInv, TypeOK, LogInv, Executed, Steps
    <2> QED
      BY <1>1, <2>1 DEF IInv, AloneInv, dataDir, normal
  <1> QED
    BY <1>2, <1>3, <1>4, <1>5 DEF IInv

LEMMA EndsKeep ==
    ASSUME IInv, Finish \/ ReceiveError \/ Timeout \/ Kill
    PROVE  IInv'
  <1>1. request # "none" => server # "off"
    BY EmptyType DEF IInv, ClientInv, TypeOK
  <1>2. CASE Finish
    BY <1>1, <1>2, EndKeeps DEF Finish, IInv, ClientInv
  <1>3. CASE ReceiveError
    BY <1>1, <1>3, EndKeeps DEF ReceiveError
  <1>4. CASE Timeout
    BY <1>1, <1>4, EndKeeps DEF Timeout
  <1>5. CASE Kill
    BY <1>5, EndKeeps DEF Kill
  <1> QED
    BY <1>2, <1>3, <1>4, <1>5

LEMMA ReceiveKeeps ==
    ASSUME IInv, Receive
    PROVE  IInv'
  <1>1. /\ request = "answered" /\ client.at # "export" /\ client' = After(client)
        /\ request' = "none"
        /\ UNCHANGED <<dataDir, server, memory, ready, pending, result, normal, alone>>
    BY DEF Receive
  <1>2. /\ client \in Client /\ memory \in Store /\ client # Off
        /\ client.at \in {"get", "post", "verify"} /\ server = "serving"
    BY <1>1, EmptyType DEF IInv, ClientInv, TypeOK
  <1>3. CASE client.at = "get"
    <2>1. /\ client' = [client EXCEPT !.at = "post", !.expected = memory.project.version]
          /\ client.step \in Steps
      BY <1>1, <1>2, <1>3 DEF After, Client
    <2>2. /\ client' \in Client /\ client'.at = "post" /\ client'.step = client.step
          /\ client'.expected = memory.project.version
      <3>1. /\ memory.project.version \in Nat
            /\ client = [at |-> "get", step |-> client.step, expected |-> client.expected]
        BY <1>2, <1>3 DEF Client, Store, Project
      <3>2. client' = [at |-> "post", step |-> client.step,
                       expected |-> memory.project.version]
        BY <2>1, <3>1
      <3> QED
        BY <2>1, <3>1, <3>2 DEF Client
    <2>3. memory.project.version <= memory.project.version /\ memory' = memory
      BY <1>1, <1>2 DEF Store, Project
    <2>4. VersionInv'
      BY <2>2, <2>3 DEF VersionInv
    <2> QED
      BY <1>1, <1>2, <1>3, <2>2, <2>4, LogKept, EmptyType
         DEF IInv, TypeOK, WrittenInv, ClientInv, RefusedOnlyIfDisturbed, AloneInv,
             dataDir, normal
  <1>4. CASE client.at = "post" /\ client.step < 7
    <2>1. client' = [at |-> "get", step |-> client.step + 1, expected |-> 0]
      BY <1>1, <1>4 DEF After
    <2>2. /\ client' \in Client /\ client'.at = "get" /\ client'.step = client.step + 1
          /\ client.step \in Steps
      BY <1>2, <1>4, <2>1 DEF Client, Steps
    <2>3. memory.done >= client'.step - 1
      BY <1>1, <1>2, <1>4, <2>2 DEF IInv, ClientInv, Store, Steps
    <2> QED
      BY <1>1, <1>2, <2>2, <2>3, LogKept, EmptyType
         DEF IInv, TypeOK, WrittenInv, ClientInv, VersionInv, RefusedOnlyIfDisturbed,
             AloneInv, dataDir, normal
  <1>5. CASE client.at = "post" /\ client.step >= 7
    <2>1. client' = [Off EXCEPT !.at = "verify"]
      BY <1>1, <1>2, <1>5 DEF After, Client, Steps
    <2>2. client' \in Client /\ client'.at = "verify"
      BY <2>1 DEF Client, Off
    <2>3. memory.done = 7
      BY <1>1, <1>2, <1>5 DEF IInv, ClientInv, Store, Client, Steps
    <2> QED
      BY <1>1, <1>2, <2>2, <2>3, LogKept, EmptyType
         DEF IInv, TypeOK, WrittenInv, ClientInv, VersionInv, RefusedOnlyIfDisturbed,
             AloneInv, dataDir, normal
  <1>6. CASE client.at = "verify"
    <2>1. client' = [Off EXCEPT !.at = "export"]
      BY <1>1, <1>6 DEF After
    <2>2. client' \in Client /\ client'.at = "export"
      BY <2>1 DEF Client, Off
    <2> QED
      BY <1>1, <1>2, <1>6, <2>2, LogKept, EmptyType
         DEF IInv, TypeOK, WrittenInv, ClientInv, VersionInv, RefusedOnlyIfDisturbed,
             AloneInv, dataDir, normal
  <1> QED
    BY <1>2, <1>3, <1>4, <1>5, <1>6 DEF Client, Steps

\* The server that admits a command knows what was executed before it; with the
\* whole log in its memory it writes the next command, and otherwise the chain
\* breaks.
LEMMA WriteKeeps ==
    ASSUME IInv, Write
    PROVE  IInv'
  <1>0. PICK event \in OwnEvents(memory, client.step) :
           AppendEvent(memory, event) /\ pending' = event
    BY DEF Write
  <1>1. /\ request = "sent" /\ client.at = "post" /\ ~(memory.done >= client.step)
        /\ client.step = 1 \/ memory.done = client.step - 1
        /\ Takes(memory.project, Commands[client.step])
        /\ times' = [times EXCEPT ![client.step] = @ + 1]
        /\ request' = "written"
        /\ UNCHANGED <<server, memory, ready, client, result, normal, alone>>
    BY DEF Write, Admitted, Replays
  <1>2. /\ client.step \in Steps /\ memory \in Store /\ disk \in Store /\ others \in Store
        /\ memory.events <= disk.events /\ others.events <= disk.events
        /\ times \in [Steps -> Nat]
    BY <1>1 DEF IInv, TypeOK, Client
  <1>3. memory.done = client.step - 1
    BY <1>1, <1>2 DEF IInv, ClientInv, Store, Steps
  <1>4. /\ event \in Store /\ event.done = client.step
        /\ event.events = memory.events + 1
        /\ Lawful(event)
    BY <1>0, <1>1, <1>2, <1>3, OwnEventIs DEF IInv, LogInv
  <1>5. /\ disk' \in Store /\ disk'.done = client.step
        /\ disk'.events = disk.events + 1
        /\ intact' \in BOOLEAN /\ intact' = (intact /\ memory.events = disk.events)
        /\ event.events = disk.events + 1 => disk' = event
        /\ Lawful(disk')
    BY <1>0, <1>2, <1>4, AppendType DEF IInv
  <1>6. /\ times' \in [Steps -> Nat] /\ times'[client.step] = times[client.step] + 1
        /\ \A k \in Steps : times'[k] >= times[k]
        /\ \A k \in Steps \ {client.step} : times'[k] = times[k]
    BY <1>1, <1>2
  <1>7. server = "serving" /\ client # Off
    BY <1>1, EmptyType DEF IInv, TypeOK
  <1>8. TypeOK'
    BY <1>0, <1>1, <1>2, <1>4, <1>5, <1>6, <1>7 DEF IInv, TypeOK, Store, normal
  <1>9. LogInv'
    <2>1. disk'.events # 0 /\ memory'.events # disk'.events /\ others'.events # disk'.events
      BY <1>1, <1>2, <1>5 DEF Store, normal
    <2>2. Executed(memory)' /\ Executed(others)'
      BY <1>1, <1>2, <1>6 DEF IInv, LogInv, Executed, normal
    <2>3. Executed(disk)'
      BY <1>2, <1>3, <1>5, <1>6 DEF IInv, LogInv, Executed, Steps, Store
    <2>4. ASSUME intact', NEW k \in Steps
          PROVE  times'[k] = IF k <= disk'.done THEN 1 ELSE 0
      <3>1. intact /\ memory = disk
        BY <1>5, <2>4 DEF IInv, LogInv
      <3>2. times[k] = IF k <= client.step - 1 THEN 1 ELSE 0
        BY <1>3, <3>1 DEF IInv, LogInv
      <3>3. CASE k = client.step
        BY <1>2, <1>5, <1>6, <3>2, <3>3 DEF Steps
      <3>4. CASE k # client.step
        BY <1>2, <1>5, <1>6, <3>2, <3>4 DEF Steps
      <3> QED
        BY <3>3, <3>4
    <2> QED
      BY <1>1, <1>5, <2>1, <2>2, <2>3, <2>4 DEF IInv, LogInv, normal
  <1>10. WrittenInv'
    <2>1. /\ pending' = event /\ client' = client /\ memory' = memory
          /\ client'.at = "post" /\ memory'.done = client'.step - 1
      BY <1>0, <1>1, <1>3
    <2>2. memory'.events < disk'.events /\ times'[client.step] > 0
      BY <1>1, <1>2, <1>5, <1>6 DEF Store
    <2>3. event.events = disk'.events => disk' = event
      BY <1>2, <1>4, <1>5 DEF Store
    <2> QED
      BY <1>4, <2>1, <2>2, <2>3 DEF WrittenInv
  <1>11. ClientInv'
    BY <1>1, <1>2 DEF IInv, ClientInv, VersionInv, RefusedOnlyIfDisturbed
  <1>12. AloneInv'
    BY <1>1, <1>2, <1>5, <1>6, <1>7 DEF IInv, AloneInv, normal, Store
  <1> QED
    BY <1>8, <1>9, <1>10, <1>11, <1>12 DEF IInv

LEMMA CommitKeeps ==
    ASSUME IInv, Commit
    PROVE  IInv'
  <1>1. /\ request = "written" /\ memory' = pending /\ pending' = Empty
        /\ request' = "answered"
        /\ UNCHANGED <<dataDir, server, ready, client, result, normal, alone>>
    BY DEF Commit
  <1>2. /\ client.at = "post" /\ memory.done = client.step - 1
        /\ times[client.step] > 0 /\ memory.events < disk.events
        /\ pending.done = client.step /\ pending.events = memory.events + 1
        /\ Lawful(pending)
        /\ intact /\ pending.events = disk.events => disk = pending
    BY <1>1 DEF IInv, WrittenInv
  <1>3. /\ client.step \in Steps /\ memory \in Store /\ disk \in Store
        /\ client # Off /\ server = "serving"
    BY <1>2, EmptyType DEF IInv, TypeOK, Client
  <1>4. pending \in Store /\ Empty \in Store
    BY EmptyType DEF IInv, TypeOK
  <1>5. TypeOK'
    BY <1>1, <1>2, <1>3, <1>4 DEF IInv, TypeOK, Store, dataDir, normal
  <1>6. LogInv'
    <2>1. Executed(memory)'
      BY <1>1, <1>2, <1>3 DEF IInv, LogInv, Executed, Steps, dataDir
    <2> QED
      BY <1>1, <1>2, <1>4, <2>1 DEF IInv, LogInv, Executed, dataDir, normal
  <1>7. WrittenInv' /\ ClientInv'
    BY <1>1, <1>2, <1>3, <1>4
       DEF IInv, WrittenInv, ClientInv, VersionInv, RefusedOnlyIfDisturbed, Steps
  <1>8. AloneInv'
    BY <1>1, <1>2, <1>3 DEF IInv, AloneInv, dataDir, normal, Store
  <1> QED
    BY <1>5, <1>6, <1>7, <1>8 DEF IInv

\* When a project takes the commands of the self-check.
LEMMA TakesIs ==
    ASSUME NEW p
    PROVE  /\ Takes(p, "create")
           /\ Takes(p, "terms") <=> p.status \in Editable
           /\ Takes(p, "revisions") <=> p.status \in {"draft", "needs_fix", "returned"}
           /\ Takes(p, "validate") <=> (p.status \in Editable /\ p.revised)
           /\ Takes(p, "submit-review") <=> (p.status = "validated" /\ ~p.stale)
           /\ Takes(p, "review") <=> p.status = "in_review"
           /\ Takes(p, "freeze") <=> p.status = "approved"
  BY DEF Takes

\* A project that others have left alone, or only added terms to, takes the next
\* command, but for submit-review.
LEMMA NextIsTaken ==
    ASSUME NEW held \in Store, Lawful(held), NEW step \in Steps, held.done = step - 1,
           held.project.touched # "more",
           ~Takes(held.project, Commands[step]) \/ (step = 6 /\ held.project.theirs)
    PROVE  step = 5 /\ held.project.touched = "terms"
  <1> DEFINE p == held.project
  <1>1. /\ Commands[1] = "create" /\ Commands[2] = "terms" /\ Commands[3] = "revisions"
        /\ Commands[4] = "validate" /\ Commands[5] = "submit-review"
        /\ Commands[6] = "review" /\ Commands[7] = "freeze"
    BY DEF Commands
  <1>2. /\ p.revised <=> step - 1 >= 3
        /\ ~p.theirs
        /\ \/ p.status = Reached(step - 1)
           \/ p.touched = "terms" /\ step - 1 = 4 /\ p.status = "needs_fix"
        /\ p.touched = "nothing" => ~p.stale
        /\ p.touched \in {"nothing", "terms", "more"} /\ p.touched # "more"
        /\ step \in 1..7
    BY DEF Lawful, Store, Project, Steps
  <1>3. ~Takes(p, Commands[step])
    BY <1>2
  <1> HIDE DEF p
  <1>4. CASE step = 1
    BY <1>1, <1>3, <1>4, TakesIs
  <1>5. CASE step \in {2, 3}
    BY <1>1, <1>2, <1>3, <1>5, TakesIs DEF Editable, Reached
  <1>6. CASE step = 4
    BY <1>1, <1>2, <1>3, <1>6, TakesIs DEF Editable, Reached
  <1>7. CASE step = 5
    BY <1>1, <1>2, <1>3, <1>7, TakesIs DEF Reached, p
  <1>8. CASE step \in {6, 7}
    BY <1>1, <1>2, <1>3, <1>8, TakesIs DEF Reached
  <1> QED
    BY <1>2, <1>4, <1>5, <1>6, <1>7, <1>8

\* The client has followed its server, so a refusal is the doing of others.
LEMMA RefuseKeeps ==
    ASSUME IInv, Refuse
    PROVE  IInv'
  <1>1. /\ request = "sent" /\ request' = "refused"
        /\ UNCHANGED <<dataDir, server, memory, ready, client, pending, result, normal,
                       alone>>
    BY DEF Refuse
  <1>2. client.at = "post" /\ ~Replays /\ ~Admitted
    BY DEF Refuse, IInv, ClientInv, LogInv, Lawful
  <1>3. client.step \in Steps /\ memory \in Store
    BY <1>2 DEF IInv, TypeOK, Client
  <1>4. memory.done = client.step - 1
    BY <1>2, <1>3 DEF Replays, IInv, ClientInv, Store, Steps
  <1>5. /\ memory.project.touched # "nothing"
        /\ memory.project.touched = "terms" =>
              client.step = 5 \/ client.expected # memory.project.version
        /\ client.step > 1
    <2>1. CASE client.step > 1 /\ client.expected # memory.project.version
      BY <1>1, <1>2, <2>1 DEF IInv, ClientInv, VersionInv
    <2>2. CASE ~(client.step > 1 /\ client.expected # memory.project.version)
      <3>1. \/ ~Takes(memory.project, Commands[client.step])
            \/ client.step = 6 /\ memory.project.theirs
        BY <1>2, <1>4, <2>2 DEF Admitted
      <3>2. /\ Lawful(memory)
            /\ memory.project.touched # "more" =>
                  client.step = 5 /\ memory.project.touched = "terms"
        BY <1>3, <1>4, <3>1, NextIsTaken DEF IInv, LogInv
      <3>3. client.step # 1
        BY <1>4, <3>2 DEF Lawful
      <3> QED
        BY <1>3, <3>2, <3>3 DEF Steps
    <2> QED
      BY <2>1, <2>2
  <1>6. TypeOK'
    BY <1>1, <1>2 DEF IInv, TypeOK, dataDir, normal
  <1>7. LogInv'
    BY <1>1, LogKept DEF normal
  <1>8. WrittenInv' /\ ClientInv' /\ AloneInv'
    BY <1>1, <1>2, <1>5
       DEF IInv, WrittenInv, ClientInv, VersionInv, RefusedOnlyIfDisturbed, AloneInv,
           dataDir, normal
  <1> QED
    BY <1>6, <1>7, <1>8 DEF IInv

LEMMA StartOtherKeeps ==
    ASSUME IInv, NEW address \in {"same", "different"}, StartOther(address)
    PROVE  IInv'
  <1>1. /\ other' = address /\ others' = disk /\ alone' = FALSE
        /\ UNCHANGED <<dataDir, process, result>>
    BY DEF StartOther
  <1>2. TypeOK'
    <2>1. /\ disk' = disk /\ memory' = memory /\ disk \in Store /\ memory \in Store
          /\ disk.events <= disk.events
      BY <1>1 DEF IInv, TypeOK, Store, dataDir, process
    <2>2. alone' \in BOOLEAN /\ other' \in {"off", "same", "different"}
      BY <1>1
    <2> QED
      BY <1>1, <2>1, <2>2 DEF IInv, TypeOK, dataDir, process
  <1>3. LogInv'
    BY <1>1 DEF IInv, LogInv, Executed, dataDir, process
  <1>4. WrittenInv' /\ ClientInv' /\ AloneInv'
    BY <1>1 DEF IInv, WrittenInv, ClientInv, VersionInv, RefusedOnlyIfDisturbed,
           AloneInv, dataDir, process
  <1> QED
    BY <1>2, <1>3, <1>4 DEF IInv

LEMMA StopOtherKeeps ==
    ASSUME IInv, StopOther
    PROVE  IInv'
  <1>1. /\ other # "off" /\ other' = "off" /\ others' = Empty
        /\ UNCHANGED <<dataDir, process, result, alone>>
    BY DEF StopOther
  <1>2. /\ others' \in Store /\ others'.done = 0 /\ others'.events = 0 /\ Lawful(others')
        /\ disk.events \in Nat
    BY <1>1, EmptyType DEF IInv, TypeOK, Store
  <1>3. TypeOK'
    BY <1>1, <1>2 DEF IInv, TypeOK, dataDir, process
  <1>4. LogInv'
    BY <1>1, <1>2 DEF IInv, LogInv, Executed, Steps, dataDir, process
  <1>5. WrittenInv' /\ ClientInv' /\ AloneInv'
    BY <1>1 DEF IInv, WrittenInv, ClientInv, VersionInv, RefusedOnlyIfDisturbed,
           AloneInv, dataDir, process
  <1> QED
    BY <1>3, <1>4, <1>5 DEF IInv

\* The other server writes no command of the self-check, and if it has not read all
\* of the log the chain breaks.
LEMMA OtherCommandKeeps ==
    ASSUME IInv, OtherCommand
    PROVE  IInv'
  <1>0. PICK event \in ForeignEvents(others) :
           AppendEvent(others, event) /\ others' = event
    BY DEF OtherCommand
  <1>1. /\ other # "off" /\ others' = event
        /\ UNCHANGED <<times, process, result, other, alone>>
    BY <1>0 DEF OtherCommand
  <1>2. /\ others \in Store /\ disk \in Store /\ memory \in Store
        /\ others.events <= disk.events /\ memory.events <= disk.events
        /\ alone = FALSE
    BY <1>1 DEF IInv, TypeOK, AloneInv
  <1>3. /\ event \in Store /\ event.done = others.done
        /\ event.events = others.events + 1
        /\ Lawful(event)
    BY <1>0, <1>2, ForeignEventIs DEF IInv, LogInv
  <1>4. /\ disk' \in Store /\ disk'.done = others.done
        /\ disk'.events = disk.events + 1
        /\ intact' \in BOOLEAN /\ intact' = (intact /\ others.events = disk.events)
        /\ event.events = disk.events + 1 => disk' = event
        /\ Lawful(disk')
    BY <1>0, <1>2, <1>3, AppendType DEF IInv
  <1>5. TypeOK'
    BY <1>1, <1>2, <1>3, <1>4 DEF IInv, TypeOK, Store, process
  <1>6. LogInv'
    <2>1. /\ disk'.events # 0 /\ memory'.events # disk'.events
          /\ others'.events = disk'.events => others' = disk'
      BY <1>1, <1>2, <1>3, <1>4 DEF Store, process
    <2>2. Executed(disk)' /\ Executed(memory)' /\ Executed(others)'
      BY <1>1, <1>3, <1>4 DEF IInv, LogInv, Executed, process
    <2>3. ASSUME intact', NEW k \in Steps
          PROVE  times'[k] = IF k <= disk'.done THEN 1 ELSE 0
      <3>1. intact /\ others = disk
        BY <1>4, <2>3 DEF IInv, LogInv
      <3> QED
        BY <1>1, <1>4, <3>1 DEF IInv, LogInv
    <2> QED
      BY <1>1, <1>3, <1>4, <2>1, <2>2, <2>3 DEF IInv, LogInv, process
  <1>7. WrittenInv'
    <2>1. /\ memory' = memory /\ client' = client /\ request' = request
          /\ times' = times /\ pending' = pending
      BY <1>1 DEF process
    <2>2. /\ memory.events \in Nat /\ disk.events \in Nat
          /\ memory.events < disk.events =>
                 memory.events < disk'.events /\ memory.events + 1 # disk'.events
      BY <1>2, <1>4 DEF Store
    <2> QED
      BY <2>1, <2>2 DEF IInv, WrittenInv
  <1>8. ClientInv' /\ AloneInv'
    BY <1>1, <1>2 DEF IInv, ClientInv, VersionInv, RefusedOnlyIfDisturbed, AloneInv, process
  <1> QED
    BY <1>5, <1>6, <1>7, <1>8 DEF IInv

\* A visitor's event is in the memory of the server at once, and all it can do to the
\* client is to make its version an old one.
LEMMA VisitorCommandKeeps ==
    ASSUME IInv, VisitorCommand
    PROVE  IInv'
  <1>0. PICK event \in ForeignEvents(memory) :
           AppendEvent(memory, event) /\ memory' = event
    BY DEF VisitorCommand
  <1>1. /\ server = "serving" /\ request # "written" /\ memory' = event
        /\ UNCHANGED <<times, server, ready, client, request, pending, result, normal,
                       alone>>
    BY <1>0 DEF VisitorCommand
  <1>2. /\ memory \in Store /\ disk \in Store /\ others \in Store
        /\ others.events <= disk.events /\ memory.events <= disk.events
    BY DEF IInv, TypeOK
  <1>3. /\ event \in Store /\ event.done = memory.done
        /\ event.events = memory.events + 1
        /\ Lawful(event)
        /\ \/ event.project = memory.project
           \/ /\ event.project.version = memory.project.version + 1
              /\ event.project.touched # "nothing"
              /\ memory.project.touched = "more" => event.project.touched = "more"
    BY <1>0, <1>2, ForeignEventIs DEF IInv, LogInv
  <1>4. /\ disk' \in Store /\ disk'.done = memory.done
        /\ disk'.events = disk.events + 1
        /\ intact' \in BOOLEAN /\ intact' = (intact /\ memory.events = disk.events)
        /\ event.events = disk.events + 1 => disk' = event
        /\ Lawful(disk')
    BY <1>0, <1>2, <1>3, AppendType DEF IInv
  <1>5. TypeOK'
    BY <1>1, <1>2, <1>3, <1>4 DEF IInv, TypeOK, Store, normal
  <1>6. LogInv'
    <2>1. /\ disk'.events # 0 /\ others'.events # disk'.events
          /\ memory'.events = disk'.events => memory' = disk'
      BY <1>1, <1>2, <1>3, <1>4 DEF Store, normal
    <2>2. Executed(disk)' /\ Executed(memory)' /\ Executed(others)'
      BY <1>1, <1>3, <1>4 DEF IInv, LogInv, Executed, normal
    <2>3. ASSUME intact', NEW k \in Steps
          PROVE  times'[k] = IF k <= disk'.done THEN 1 ELSE 0
      <3>1. intact /\ memory = disk
        BY <1>4, <2>3 DEF IInv, LogInv
      <3> QED
        BY <1>1, <1>4, <3>1 DEF IInv, LogInv
    <2> QED
      BY <1>1, <1>3, <1>4, <2>1, <2>2, <2>3 DEF IInv, LogInv, normal
  <1>7. WrittenInv'
    BY <1>1 DEF WrittenInv
  <1>8. ClientInv'
    <2>1. /\ memory.project.version \in Nat
          /\ memory.project.touched \in {"nothing", "terms", "more"}
          /\ client.at = "post" => client.expected \in Nat /\ client.step \in Steps
      BY <1>2 DEF Store, Project, IInv, TypeOK, Client
    <2>2. VersionInv'
      BY <1>1, <1>3, <2>1 DEF IInv, ClientInv, VersionInv
    <2>3. RefusedOnlyIfDisturbed'
      <3>1. CASE request # "refused"
        BY <1>1, <3>1 DEF RefusedOnlyIfDisturbed
      <3>2. CASE request = "refused"
        <4>1. /\ client.at = "post" /\ memory.project.touched # "nothing"
              /\ memory.project.touched = "terms" =>
                    client.step = 5 \/ client.expected # memory.project.version
          BY <3>2 DEF IInv, ClientInv, RefusedOnlyIfDisturbed
        <4>2. client.expected <= memory.project.version
          BY <3>2, <4>1 DEF IInv, ClientInv, VersionInv
        <4> QED
          BY <1>1, <1>3, <2>1, <4>1, <4>2 DEF RefusedOnlyIfDisturbed, Steps
      <3> QED
        BY <3>1, <3>2
    <2> QED
      BY <1>1, <1>3, <2>2, <2>3 DEF IInv, ClientInv
  <1>9. AloneInv'
    BY <1>1, <1>2, <1>3, <1>4 DEF IInv, AloneInv, normal, Store
  <1> QED
    BY <1>5, <1>6, <1>7, <1>8, <1>9 DEF IInv

-----------------------------------------------------------------------------
(* The theorems *)

LEMMA InitIsFine ==
    ASSUME Init
    PROVE  IInv
  <1>1. TypeOK
    <2>1. /\ {disk, memory, others, pending} \subseteq Store /\ times \in [Steps -> Nat]
          /\ memory.events <= disk.events /\ others.events <= disk.events
      BY EmptyType DEF Init
    <2>2. (server = "off") = (client = Off)
      BY DEF Init
    <2>3. intact \in BOOLEAN /\ ready \in BOOLEAN /\ alone \in BOOLEAN /\ ~ready
      BY DEF Init
    <2> QED
      BY <2>1, <2>2, <2>3, EmptyType DEF Init, TypeOK
  <1>2. LogInv
    BY EmptyType DEF Init, LogInv, Executed, Steps
  <1>3. WrittenInv /\ ClientInv /\ AloneInv
    BY EmptyType DEF Init, WrittenInv, ClientInv, VersionInv, RefusedOnlyIfDisturbed,
           AloneInv
  <1> QED
    BY <1>1, <1>2, <1>3 DEF IInv

LEMMA StutteringKeeps ==
    ASSUME IInv, UNCHANGED vars
    PROVE  IInv'
  <1>1. UNCHANGED <<disk, intact, times, server, memory, ready, client, request, pending,
                    result, other, others, alone>>
    BY DEF vars, dataDir, process, normal
  <1>2. TypeOK'
    BY <1>1 DEF IInv, TypeOK
  <1>3. LogInv' /\ AloneInv'
    BY <1>1 DEF IInv, LogInv, Executed, AloneInv
  <1>4. WrittenInv' /\ ClientInv'
    BY <1>1 DEF IInv, WrittenInv, ClientInv, VersionInv, RefusedOnlyIfDisturbed
  <1> QED
    BY <1>2, <1>3, <1>4 DEF IInv

LEMMA StepKeeps ==
    ASSUME IInv, [Next]_vars
    PROVE  IInv'
  <1>1. CASE Start
    BY <1>1, StartKeeps
  <1>2. CASE ServerStep
    BY <1>2, OpenKeeps, ListenKeeps DEF ServerStep
  <1>3. CASE ClientStep
    BY <1>3, AwaitAddressKeeps, SendKeeps, ReceiveKeeps, EndsKeep DEF ClientStep
  <1>4. CASE Kill
    BY <1>4, EndsKeep
  <1>5. CASE Answer
    BY <1>5, SendKeeps
  <1>6. CASE Write
    BY <1>6, WriteKeeps
  <1>7. CASE Commit
    BY <1>7, CommitKeeps
  <1>8. CASE Refuse
    BY <1>8, RefuseKeeps
  <1>9. CASE \E address \in {"same", "different"} : StartOther(address)
    BY <1>9, StartOtherKeeps
  <1>10. CASE StopOther
    BY <1>10, StopOtherKeeps
  <1>11. CASE OtherCommand
    BY <1>11, OtherCommandKeeps
  <1>12. CASE VisitorCommand
    BY <1>12, VisitorCommandKeeps
  <1>13. CASE UNCHANGED vars
    BY <1>13, StutteringKeeps
  <1> QED
    BY <1>1, <1>2, <1>3, <1>4, <1>5, <1>6, <1>7, <1>8, <1>9, <1>10, <1>11, <1>12,
       <1>13 DEF Next

\* Whatever was interrupted and whoever else used the directory, the invariant of the
\* self-check holds.
THEOREM InvariantHolds == Spec => []IInv
  BY InitIsFine, StepKeeps, PTL DEF Spec

\* The variables keep their types, and no repository knows more than the log.
THEOREM TypeCorrect == Spec => []TypeOK
  <1>1. IInv => TypeOK
    BY DEF IInv
  <1> QED
    BY <1>1, InvariantHolds, PTL

\* While the chain holds, no command of the self-check is executed twice, however
\* often it was interrupted and run again under its fixed keys.
THEOREM DoneOnce == Spec => []StepsAreDoneOnce
  <1>1. IInv => StepsAreDoneOnce
    BY DEF IInv, LogInv, StepsAreDoneOnce
  <1> QED
    BY <1>1, InvariantHolds, PTL

\* A rerun is refused only after others touched its project, and by terms alone only at
\* submit-review or when they came between its GET and its command.
THEOREM RefusalIsDisturbance == Spec => []RefusedOnlyIfDisturbed
  <1>1. IInv => RefusedOnlyIfDisturbed
    BY DEF IInv, ClientInv
  <1> QED
    BY <1>1, InvariantHolds, PTL

\* A self-check that passed has executed all its commands, in a log that is intact
\* when no other server ran meanwhile.
THEOREM SuccessProves == Spec => []SuccessIsReal
  <1>1. IInv => SuccessIsReal
    BY DEF IInv, AloneInv, SuccessIsReal
  <1> QED
    BY <1>1, InvariantHolds, PTL

=============================================================================
