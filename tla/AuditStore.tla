------------------------------ MODULE AuditStore ------------------------------
(***************************************************************************)
(* What store.Repository keeps on disk and in memory, step by step: the    *)
(* append-only log audit.jsonl, the projection projection.json, and the    *)
(* copies a running process holds of both.  An Update appends an event,    *)
(* syncs the log, replaces the projection and only then changes the        *)
(* memory.  Between any two of these steps the machine may crash; where    *)
(* the behaviour's faults allow it, the process alone may be killed, and a *)
(* step may fail and return an error to the client.  Open rebuilds         *)
(* everything from the log.                                                *)
(*                                                                         *)
(* Abstractions.  A snapshot is the sequence of commands that made it: a   *)
(* command is one idempotency key, so a command that is already in the     *)
(* snapshot is the replay that leaves it alone.  The digest of an event is *)
(* the number of events formed before it (SHA-256 taken as injective, and  *)
(* OccurredAt tells equal events apart); whole events are never altered,   *)
(* so recomputing a digest always succeeds.  The log is a sequence of      *)
(* entries, one for each write: the JSON text of an event or a proper      *)
(* prefix of it, and whether the newline after it was written.  An entry   *)
(* without one runs on into the next.  One process uses the directory.  A  *)
(* crash of the machine keeps everything synced and any prefix of the      *)
(* rest; a kill keeps all that was written, synced or not.  The other      *)
(* locks and readers of the repository are module RepositoryAccess.        *)
(***************************************************************************)
EXTENDS Integers, Sequences, FiniteSets, SequencesExt

CONSTANTS
    Command,        \* the commands clients send, each under its own key
    Fragment,       \* a proper prefix of the JSON text of an event
    NoEvent,        \* nothing is being written
    NoProjection,   \* projection.json does not exist
    FaultModes,     \* what may happen besides a crash of the machine
    MaxEvents       \* bound on the events formed

\* "io": file operations may fail; "kill": the process may stop, the machine not.
ASSUME FaultAssumption == FaultModes \subseteq SUBSET {"io", "kill"}
ASSUME BoundAssumption == MaxEvents \in Nat

VARIABLES
    log,            \* audit.jsonl as the next reader sees it
    synced,         \* how many of its entries survive a crash for certain
    projection,     \* projection.json
    up,             \* a process has the directory open
    state,          \* Repository.state
    events,         \* Repository.events
    head,           \* Repository.head, 0 when empty
    pc,             \* where Update is, "idle" outside of it
    pending,        \* the event Update is writing
    formed,         \* the events formed so far, the source of digests
    acked,          \* the commands whose success a client was told
    hasty,          \* those of them that could still be lost then
    faults          \* what may happen here besides a crash of the machine

disk   == <<log, synced, projection>>
memory == <<state, events, head>>
call   == <<pc, pending>>
told   == <<acked, hasty, faults>>
vars   == <<disk, up, memory, call, formed, told>>

-----------------------------------------------------------------------------
Snapshot == Seq(Command)
Event == [sequence : Nat \ {0}, previous : Nat, digest : Nat \ {0},
          projection : Snapshot]
Entry == [text : Event \cup {Fragment}, ended : BOOLEAN]

ASSUME NoEventAssumption == {Fragment, NoEvent} \cap Event = {}
ASSUME NoProjectionAssumption == NoProjection \notin Snapshot

\* Nothing is written while the process is down, memory is what its last
\* event says, and digests come from the events formed.
TypeOK ==
    /\ log \in Seq(Entry)
    /\ synced \in 0..Len(log)
    /\ projection \in Snapshot \cup {NoProjection}
    /\ up \in BOOLEAN
    /\ state \in Snapshot
    /\ events \in Seq(Event)
    /\ head \in 0..formed
    /\ pc \in {"idle", "append", "sync", "project", "dirsync", "commit"}
    /\ pending \in Event \cup {NoEvent}
    /\ (pc = "idle") = (pending = NoEvent)
    /\ ~up => pc = "idle"
    /\ formed \in 0..MaxEvents
    /\ hasty \subseteq acked /\ acked \subseteq Command
    /\ hasty # {} => "kill" \in faults
    /\ faults \in FaultModes

-----------------------------------------------------------------------------
(* Reading the log.  recover reads it line by line, VerifyAudit as a stream  *)
(* of JSON values: newlines matter to the first only.                        *)

IsEvent(text) == text # Fragment

\* Whether a stream decoder reaches the end, and the events it finds then.
Decodes == \A i \in DOMAIN log : IsEvent(log[i].text)
PersistedEvents == [i \in DOMAIN log |-> log[i].text]

\* Every line holds exactly one event; the last need not be terminated.
IsLineByLine == Decodes /\ \A i \in 1..(Len(log) - 1) : log[i].ended

DigestBefore(chain, i) == IF i = 1 THEN 0 ELSE chain[i - 1].digest

\* verifyEvents, and the same test in recover.
VerifyEvents(chain) ==
    \A i \in DOMAIN chain : /\ chain[i].sequence = i
                            /\ chain[i].previous = DigestBefore(chain, i)

Recoverable == IsLineByLine /\ VerifyEvents(PersistedEvents)

VerifyAudit == Decodes /\ VerifyEvents(PersistedEvents)

VerifyAuditAnchor(digest) ==
    /\ VerifyAudit
    /\ IF digest = 0 THEN PersistedEvents = <<>>
       ELSE \E i \in DOMAIN PersistedEvents : PersistedEvents[i].digest = digest

VerifyProjection == projection = state

-----------------------------------------------------------------------------
(* Update *)

NewEvent(command) ==
    [sequence |-> Len(events) + 1, previous |-> head, digest |-> formed + 1,
     projection |-> Append(state, command)]

\* What survives a crash of the machine.
IsSafe(event) == \E i \in 1..synced : log[i].text = event
IsDurable(command) == \E i \in 1..synced : /\ IsEvent(log[i].text)
                                           /\ command \in Range(log[i].text.projection)

\* The command is in the snapshot: nothing changes and the call succeeds with
\* the remembered response, whether or not the log was synced since the event
\* was written.
Replay(command) ==
    /\ up /\ pc = "idle"
    /\ command \in Range(state)
    /\ acked' = acked \cup {command}
    /\ hasty' = IF command \in acked \/ IsDurable(command)
                THEN hasty ELSE hasty \cup {command}
    /\ UNCHANGED <<disk, up, memory, call, formed, faults>>

BugKeyIgnored(command) ==
    /\ up /\ pc = "idle"
    /\ formed < MaxEvents
    /\ pc' = "append"
    /\ pending' = NewEvent(command)
    /\ formed' = formed + 1
    /\ UNCHANGED <<disk, up, memory, told>>

\* The command is accepted: its event is formed under the write lock.
Begin(command) ==
    /\ up /\ pc = "idle"
    /\ command \notin Range(state)
    /\ formed < MaxEvents
    /\ pc' = "append"
    /\ pending' = NewEvent(command)
    /\ formed' = formed + 1
    /\ UNCHANGED <<disk, up, memory, told>>

Line(event) == [text |-> event, ended |-> TRUE]

BugLogTruncated ==
    /\ pc = "append"
    /\ log' = <<Line(pending)>>
    /\ synced' = IF synced > 1 THEN 1 ELSE synced
    /\ pc' = "sync"
    /\ UNCHANGED <<projection, up, memory, pending, formed, told>>

\* appendEvent: the whole line is written.
WriteEvent ==
    /\ pc = "append"
    /\ log' = Append(log, Line(pending))
    /\ pc' = "sync"
    /\ UNCHANGED <<synced, projection, up, memory, pending, formed, told>>

BugNotSynced ==
    /\ pc = "sync"
    /\ pc' = "project"
    /\ UNCHANGED <<disk, up, memory, pending, formed, told>>

\* File.Sync and File.Close.
SyncLog ==
    /\ pc = "sync"
    /\ synced' = Len(log)
    /\ pc' = "project"
    /\ UNCHANGED <<log, projection, up, memory, pending, formed, told>>

BugProjectionKept ==
    /\ pc = "project"
    /\ pc' = "dirsync"
    /\ UNCHANGED <<disk, up, memory, pending, formed, told>>

\* writeProjection: the new file is complete and synced before the rename.
RenameProjection ==
    /\ pc = "project"
    /\ projection' = pending.projection
    /\ pc' = "dirsync"
    /\ UNCHANGED <<log, synced, up, memory, pending, formed, told>>

SyncDirectory ==
    /\ pc = "dirsync"
    /\ pc' = "commit"
    /\ UNCHANGED <<disk, up, memory, pending, formed, told>>

BugCallNotEnded ==
    /\ pc = "commit"
    /\ state' = pending.projection
    /\ events' = Append(events, pending)
    /\ head' = pending.digest
    /\ acked' = acked \cup {Last(pending.projection)}
    /\ pc' = "idle" /\ UNCHANGED pending
    /\ UNCHANGED <<disk, up, formed, hasty, faults>>

\* The memory follows the disk, the lock is released, the client is answered.
Commit ==
    /\ pc = "commit"
    /\ state' = pending.projection
    /\ events' = Append(events, pending)
    /\ head' = pending.digest
    /\ acked' = acked \cup {Last(pending.projection)}
    /\ pc' = "idle" /\ pending' = NoEvent
    /\ UNCHANGED <<disk, up, formed, hasty, faults>>

-----------------------------------------------------------------------------
(* File operations that fail: Update returns an error, the memory is as it   *)
(* was, and what reached the disk stays there.                               *)

Fail == /\ "io" \in faults
        /\ pc' = "idle" /\ pending' = NoEvent
        /\ UNCHANGED <<up, memory, formed, told>>

\* An entry that stops short: a part of the text, or all of it but the newline.
Cut(text) == {[text |-> part, ended |-> FALSE] : part \in {Fragment, text}}

\* What the log may be after a write that stops short.
ShortWrites(event) == {log} \cup {Append(log, entry) : entry \in Cut(event)}

WriteFails ==
    /\ pc = "append" /\ Fail
    /\ log' \in ShortWrites(pending)
    /\ UNCHANGED <<synced, projection>>

\* The line is written and Sync or Close fails; or the temporary projection
\* cannot be made, written, synced or renamed; or the directory is not synced.
LateStepFails ==
    /\ pc \in {"sync", "project", "dirsync"} /\ Fail
    /\ UNCHANGED disk

-----------------------------------------------------------------------------
(* Crash and restart *)

\* What may be left of this log: what was synced and any prefix of the rest,
\* which may end inside an entry.
Remains(written) ==
    {SubSeq(written, 1, n) : n \in synced..Len(written)}
    \cup UNION {{Append(SubSeq(written, 1, n), entry) : entry \in Cut(written[n + 1].text)} :
                   n \in synced..(Len(written) - 1)}

MemoryLost ==
    /\ up' = FALSE
    /\ pc' = "idle" /\ pending' = NoEvent
    /\ state' = <<>> /\ events' = <<>> /\ head' = 0
    /\ UNCHANGED <<projection, formed, told>>

\* The machine stops; a line that is being written may be there in part.
Crash ==
    /\ up \/ synced < Len(log)
    /\ log' \in Remains(IF pc = "append" THEN Append(log, Line(pending)) ELSE log)
    /\ synced' = Len(log')
    /\ MemoryLost

\* The process stops and the machine goes on: what was written stays, synced
\* or not.
Kill ==
    /\ up /\ "kill" \in faults
    /\ log' \in IF pc = "append" THEN ShortWrites(pending) ELSE {log}
    /\ UNCHANGED synced
    /\ MemoryLost

\* The snapshot of the last of these events.
Rebuilt(chain) == IF chain = <<>> THEN <<>> ELSE Last(chain).projection

BugStateFromProjection ==
    /\ ~up /\ Recoverable
    /\ up' = TRUE
    /\ events' = PersistedEvents
    /\ head' = DigestBefore(PersistedEvents, Len(PersistedEvents) + 1)
    /\ state' = IF projection = NoProjection THEN <<>> ELSE projection
    /\ UNCHANGED <<disk, call, formed, told>>

\* Open succeeds: recover reads the log and writes the projection again.  A log
\* recover refuses is an error of Open, and the process does not start.
Open ==
    /\ ~up /\ Recoverable
    /\ up' = TRUE
    /\ events' = PersistedEvents
    /\ head' = DigestBefore(PersistedEvents, Len(PersistedEvents) + 1)
    /\ state' = Rebuilt(PersistedEvents)
    /\ projection' = IF PersistedEvents = <<>> THEN projection
                     ELSE Rebuilt(PersistedEvents)
    /\ UNCHANGED <<log, synced, call, formed, told>>

-----------------------------------------------------------------------------
\* An empty directory.
Init ==
    /\ log = <<>> /\ synced = 0 /\ projection = NoProjection
    /\ up = FALSE
    /\ state = <<>> /\ events = <<>> /\ head = 0
    /\ pc = "idle" /\ pending = NoEvent
    /\ formed = 0
    /\ acked = {} /\ hasty = {}
    /\ faults \in FaultModes

Next ==
    \/ \E command \in Command : Replay(command) \/ Begin(command)
    \/ WriteEvent \/ SyncLog \/ RenameProjection \/ SyncDirectory \/ Commit
    \/ WriteFails \/ LateStepFails
    \/ Crash \/ Kill \/ Open

Spec == Init /\ [][Next]_vars

-----------------------------------------------------------------------------
(* Properties *)

\* What a client was told to have succeeded is on the disk for good and, while
\* a process runs, in its state: whatever crashes, kills, restarts, failed writes
\* and retries under the same key lie between (repository.go Update,
\* persistence.go appendEvent and recover).  The exception is a command whose
\* event a killed process had written and not synced: recover serves it without
\* a sync, a retry is told of its success, and a crash of the machine may still
\* take it.
AcknowledgedSurvive ==
    /\ \A command \in acked \ hasty : IsDurable(command)
    /\ up => acked \ hasty \subseteq Range(state)

\* A running process has applied each command once, one with each event of its
\* history, although clients retry commands whose answer a crash swallowed and
\* the projection may be older than the log (service.go replay, persistence.go
\* recover).
AppliedOnce ==
    up => /\ state = Rebuilt(events)
          /\ \A i \in DOMAIN events :
                LET before == Rebuilt(SubSeq(events, 1, i - 1)) IN
                \E command \in Command \ Range(before) :
                    events[i].projection = Append(before, command)

\* Between calls the three integrity checks of Verify pass: nothing the service
\* did itself, crashes included, looks like tampering (repository.go
\* VerifyAudit, VerifyAuditAnchor, VerifyProjection).  With failing file
\* operations it does not hold: an event that was written stays in the log
\* although Update reported an error, and the next event repeats its sequence
\* number (repository.go Update).
VerifyPasses ==
    up /\ pc = "idle" =>
        /\ VerifyAudit
        /\ VerifyAuditAnchor(head)
        /\ events # <<>> => VerifyProjection

\* Crashes, kills and restarts alone never make the checks of Verify fail
\* (persistence.go recover, repository.go VerifyAudit).
CrashesAreInnocent == "io" \notin faults => VerifyPasses

\* A log that passes verification between calls can be opened again.  It fails:
\* recover accepts a last line that lost its newline in a crash, the next event
\* is glued to it, VerifyAudit reads both and the next recover refuses the line
\* (persistence.go recover against readPersistedEvents).
VerifiedLogReopens == up /\ pc = "idle" /\ VerifyAudit => Recoverable

\* Whatever a process has in its history stays in the log, so the audit head a
\* freeze manifest carries can be found for ever (review.go Freeze, repository.go
\* AuditHead and VerifyAuditAnchor).  After a kill this is so from the next sync
\* of the log on.
AnchorsStay ==
    [][\A i \in DOMAIN events :
         ("kill" \in faults => IsSafe(events[i]))
         => \E j \in DOMAIN log' : log'[j].text = events[i]]_vars

-----------------------------------------------------------------------------
(* Implementation of CommandLedger *)

\* The commands in what is certain to survive: an event counts from the sync of
\* its line, or from the crash that happened to spare it.
DurableCommands ==
    LET durable == {i \in 1..synced : IsEvent(log[i].text)}
    IN IF durable = {} THEN <<>> ELSE log[Max(durable)].text.projection

\* With other faults than a crash of the machine nothing is promised.
Ledger == INSTANCE CommandLedger WITH
              ledger <- IF faults = {} THEN DurableCommands ELSE <<>>,
              acked <- IF faults = {} THEN acked ELSE {}

\* Where only the machine fails, the store is a ledger that takes each command
\* once, never loses or reorders one, and acknowledges only what it holds
\* (repository.go Update and Open).
ImplementsLedger == Ledger!Spec

=============================================================================
