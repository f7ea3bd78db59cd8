--------------------------- MODULE RepositoryAccess ---------------------------
(***************************************************************************)
(* Requests that share one store.Repository: which lock each of them takes *)
(* in which order, and what it reads or writes in each section.  Two       *)
(* projects matter: the subject, approved and then frozen, and any other   *)
(* one, whose edits run beside it.                                         *)
(*                                                                         *)
(* A request that starts gets the instructions of Program and executes one *)
(* per step; an error replaces the rest of them by the deferred unlocks.   *)
(* Repository.mu is a sync.RWMutex: Lock announces itself, after which new *)
(* RLocks queue, and waits for the readers there are; Unlock lets in every *)
(* reader in the queue.  The mutex of a project is a sync.Mutex.           *)
(*                                                                         *)
(* Abstractions.  The state is whether the subject is frozen, the audit    *)
(* anchor of its manifest, and the number of edits the other project got.  *)
(* The digest of an event is its sequence number.  The steps a write takes *)
(* on disk, and their failures, are module AuditStore.                     *)
(***************************************************************************)
EXTENDS Integers, Sequences, FiniteSets

CONSTANTS
    Request,        \* the goroutines that serve requests
    Serves,         \* the kinds of request each of them serves
    None,           \* no request
    MaxEvents       \* bound on the audit events

Kind == {"edit", "freeze", "preview", "export", "item", "verify"}

ASSUME KindAssumption == Serves \in [Request -> (SUBSET Kind) \ {{}}]
ASSUME NoneAssumption == None \notin Request
ASSUME BoundAssumption == MaxEvents \in Nat \ {0}

VARIABLES
    todo,           \* the instructions each request has left
    projectLock,    \* Repository.projectLocks, holder by project
    writer,         \* holder of Repository.mu for writing
    announced,      \* the request inside Lock that waits for the readers
    readers,        \* how many read locks each request holds
    queue,          \* requests inside RLock that wait for the writer
    state,          \* Repository.state
    events,         \* Repository.events
    stored,         \* projection.json and audit.jsonl
    local           \* the latest request of each goroutine and what it read so far

locks == <<projectLock, writer, announced, readers, queue>>
data  == <<state, events, stored>>
vars  == <<todo, locks, data, local>>

-----------------------------------------------------------------------------
(* The code of each request.  Operators named Bug... are faults the code     *)
(* might have had.                                                           *)

Transaction == <<"project lock", "lock", "run", "store", "commit", "unlock",
                 "project unlock">>

BugUnlockedTransaction(kind) ==
    CASE kind = "edit"    -> <<"project lock", "run", "store", "commit", "project unlock">>
      [] kind = "freeze"  -> <<"rlock", "head", "runlock">> \o Transaction
      [] kind = "verify"  -> <<"rlock", "snapshot", "runlock", "rlock", "audit", "runlock",
                               "rlock", "anchor", "runlock", "rlock", "projection", "runlock">>
      [] OTHER            -> <<"rlock", "snapshot", "runlock">>

BugVerifyUnlocked(kind) ==
    CASE kind = "edit"    -> Transaction
      [] kind = "freeze"  -> <<"rlock", "head", "runlock">> \o Transaction
      [] kind = "verify"  -> <<"rlock", "snapshot", "runlock", "audit", "anchor", "projection">>
      [] OTHER            -> <<"rlock", "snapshot", "runlock">>

BugEventsInsideRead(kind) ==
    CASE kind = "edit"    -> Transaction
      [] kind = "freeze"  -> <<"rlock", "head", "runlock">> \o Transaction
      [] kind = "item"    -> <<"rlock", "snapshot", "rlock", "events", "runlock", "runlock">>
      [] kind = "verify"  -> <<"rlock", "snapshot", "runlock", "rlock", "audit", "runlock",
                               "rlock", "anchor", "runlock", "rlock", "projection", "runlock">>
      [] OTHER            -> <<"rlock", "snapshot", "runlock">>

\* Freeze and FreezePreview take the audit head, ExportItem the events, before
\* the snapshot; Export takes the events inside the function it gives to Read;
\* Verify reads the snapshot and then the disk three times.
Program(kind) ==
    CASE kind = "edit"    -> Transaction
      [] kind = "freeze"  -> <<"rlock", "head", "runlock", "project lock", "lock", "run",
                               "store", "commit", "unlock", "project unlock">>
      [] kind = "preview" -> <<"rlock", "head", "runlock", "rlock", "snapshot", "runlock">>
      [] kind = "export"  -> <<"rlock", "snapshot", "rlock", "events", "runlock", "runlock">>
      [] kind = "item"    -> <<"rlock", "events", "runlock", "rlock", "snapshot", "runlock">>
      [] kind = "verify"  -> <<"rlock", "snapshot", "runlock", "rlock", "audit", "runlock",
                               "rlock", "anchor", "runlock", "rlock", "projection", "runlock">>

Instruction == {"project lock", "project unlock", "lock", "unlock", "rlock", "runlock",
                "run", "store", "commit", "head", "events", "snapshot", "audit",
                "anchor", "projection"}

At(r, instruction) == todo[r] # <<>> /\ Head(todo[r]) = instruction
Continue(r) == todo' = [todo EXCEPT ![r] = Tail(@)]
Idle(r) == todo[r] = <<>>
Project == {"subject", "other"}
KindOf(r) == local[r].kind
Writer == {r \in Request : Serves[r] \cap {"edit", "freeze"} # {}}
ProjectOf(r) == IF KindOf(r) = "freeze" THEN "subject" ELSE "other"

-----------------------------------------------------------------------------
Snapshot == [frozen : BOOLEAN, anchor : 0..MaxEvents, edits : 0..MaxEvents]
Event == [sequence : 1..(MaxEvents + 1), type : {"edit", "frozen"}]
Local == [kind : Kind \cup {"none"}, head : 0..MaxEvents, snapshot : Snapshot, events : SUBSET Event,
          checks : BOOLEAN, result : {"none", "ok", "refused"}]

Created == [sequence |-> 1, type |-> "edit"]
Unfrozen == [frozen |-> FALSE, anchor |-> 0, edits |-> 1]
Fresh(kind) == [kind |-> kind, head |-> 0, snapshot |-> Unfrozen, events |-> {}, checks |-> TRUE,
          result |-> "none"]

\* A writer excludes readers, and a goroutine that is idle holds nothing.
TypeOK ==
    /\ todo \in [Request -> Seq(Instruction)]
    /\ projectLock \in [Project -> Request \cup {None}]
    /\ {writer, announced} \subseteq Request \cup {None}
    /\ readers \in [Request -> 0..2]
    /\ queue \subseteq Request
    /\ writer # None => \A r \in Request : readers[r] = 0
    /\ \A r \in Request : Idle(r) =>
          /\ readers[r] = 0
          /\ r \notin {writer, announced} \cup queue
          /\ \A p \in Project : projectLock[p] # r
    /\ state \in Snapshot
    /\ events \in Seq(Event)
    /\ stored \in [projection : Snapshot, log : Seq(Event)]
    /\ local \in [Request -> Local]

-----------------------------------------------------------------------------
(* Locks *)

\* A request arrives.
Start(r) ==
    /\ Idle(r)
    /\ \E kind \in Serves[r] :
          /\ todo' = [todo EXCEPT ![r] = Program(kind)]
          /\ local' = [local EXCEPT ![r] = Fresh(kind)]
    /\ UNCHANGED <<locks, data>>

\* lockFor(projectID), and its mutex.
LockProject(r) ==
    /\ At(r, "project lock")
    /\ projectLock[ProjectOf(r)] = None
    /\ projectLock' = [projectLock EXCEPT ![ProjectOf(r)] = r]
    /\ Continue(r)
    /\ UNCHANGED <<writer, announced, readers, queue, data, local>>

UnlockProject(r) ==
    /\ At(r, "project unlock")
    /\ projectLock' = [projectLock EXCEPT ![ProjectOf(r)] = None]
    /\ Continue(r)
    /\ UNCHANGED <<writer, announced, readers, queue, data, local>>

\* RWMutex.Lock.
Announce(r) ==
    /\ At(r, "lock")
    /\ writer = None /\ announced = None
    /\ announced' = r
    /\ UNCHANGED <<todo, projectLock, writer, readers, queue, data, local>>

Lock(r) ==
    /\ At(r, "lock") /\ announced = r
    /\ \A q \in Request : readers[q] = 0
    /\ writer' = r /\ announced' = None
    /\ Continue(r)
    /\ UNCHANGED <<projectLock, readers, queue, data, local>>

\* RWMutex.Unlock.
Unlock(r) ==
    /\ At(r, "unlock")
    /\ writer' = None
    /\ readers' = [q \in Request |-> IF q \in queue THEN readers[q] + 1 ELSE readers[q]]
    /\ todo' = [q \in Request |-> IF q \in queue \cup {r} THEN Tail(todo[q]) ELSE todo[q]]
    /\ queue' = {}
    /\ UNCHANGED <<projectLock, announced, data, local>>

\* RWMutex.RLock.
EnterRLock(r) ==
    /\ At(r, "rlock")
    /\ writer = None /\ announced = None
    /\ readers' = [readers EXCEPT ![r] = @ + 1]
    /\ Continue(r)
    /\ UNCHANGED <<projectLock, writer, announced, queue, data, local>>

QueueRLock(r) ==
    /\ At(r, "rlock") /\ r \notin queue
    /\ writer # None \/ announced # None
    /\ queue' = queue \cup {r}
    /\ UNCHANGED <<todo, projectLock, writer, announced, readers, data, local>>

RUnlock(r) ==
    /\ At(r, "runlock")
    /\ readers' = [readers EXCEPT ![r] = @ - 1]
    /\ Continue(r)
    /\ UNCHANGED <<projectLock, writer, announced, queue, data, local>>

-----------------------------------------------------------------------------
(* What happens under the locks *)

\* AuditHead.
ReadHead(r) ==
    /\ At(r, "head")
    /\ local' = [local EXCEPT ![r].head = Len(events)]
    /\ Continue(r)
    /\ UNCHANGED <<locks, data>>

\* Events(projectID), for the subject; its sequence numbers are their order.
ReadEvents(r) ==
    /\ At(r, "events")
    /\ local' = [local EXCEPT ![r].events =
                    {events[i] : i \in {j \in DOMAIN events : events[j].type = "frozen"}}]
    /\ Continue(r)
    /\ UNCHANGED <<locks, data>>

\* Exports and Verify need a manifest, the preview an approved project.
Accepts(kind) == CASE kind \in {"export", "item", "verify"} -> state.frozen
                   [] kind = "preview" -> ~state.frozen
                   [] OTHER -> TRUE

\* Read clones the state and runs the function on the copy; an error ends the
\* request.
ReadSnapshot(r) ==
    /\ At(r, "snapshot")
    /\ IF Accepts(KindOf(r))
       THEN /\ local' = [local EXCEPT ![r].snapshot = state, ![r].result = "ok"]
            /\ Continue(r)
       ELSE /\ local' = [local EXCEPT ![r].result = "refused"]
            /\ todo' = [todo EXCEPT ![r] = <<"runlock">>]
    /\ UNCHANGED <<locks, data>>

\* The checks of Verify that read the disk again.
Check(r, check, holds) ==
    /\ At(r, check)
    /\ local' = [local EXCEPT ![r].checks = @ /\ holds]
    /\ Continue(r)
    /\ UNCHANGED <<locks, data>>

ChainHolds == \A i \in DOMAIN stored.log : stored.log[i].sequence = i

CheckAudit(r)      == Check(r, "audit", ChainHolds)
CheckAnchor(r)     == Check(r, "anchor", ChainHolds /\
                                local[r].snapshot.anchor \in DOMAIN stored.log)
CheckProjection(r) == Check(r, "projection", stored.projection = state)

CanRun(r) == /\ KindOf(r) = "freeze" => ~state.frozen
             /\ Len(events) < MaxEvents

BugNoDeferredUnlock == <<"unlock">>

\* What is left to do after an error inside Update.
DeferredUnlocks == <<"unlock", "project unlock">>

\* Update clones the state and runs the command on the copy; an error leaves
\* through the deferred unlocks.
Run(r) ==
    /\ At(r, "run")
    /\ IF CanRun(r)
       THEN /\ local' = [local EXCEPT ![r].result = "ok", ![r].snapshot =
                  IF KindOf(r) = "freeze"
                  THEN [state EXCEPT !.frozen = TRUE, !.anchor = local[r].head]
                  ELSE [state EXCEPT !.edits = @ + 1]]
            /\ Continue(r)
       ELSE /\ local' = [local EXCEPT ![r].result = "refused"]
            /\ todo' = [todo EXCEPT ![r] = DeferredUnlocks]
    /\ UNCHANGED <<locks, data>>

NewEvent(r) == [sequence |-> Len(events) + 1,
                type |-> IF KindOf(r) = "freeze" THEN "frozen" ELSE "edit"]

\* appendEvent and writeProjection.
Store(r) ==
    /\ At(r, "store")
    /\ stored' = [projection |-> local[r].snapshot,
                  log |-> Append(stored.log, NewEvent(r))]
    /\ Continue(r)
    /\ UNCHANGED <<locks, state, events, local>>

\* The assignments at the end of Update.
Commit(r) ==
    /\ At(r, "commit")
    /\ state' = local[r].snapshot
    /\ events' = Append(events, NewEvent(r))
    /\ Continue(r)
    /\ UNCHANGED <<locks, stored, local>>

-----------------------------------------------------------------------------
\* The subject is approved, its history one event long.
Init ==
    /\ todo = [r \in Request |-> <<>>]
    /\ projectLock = [p \in Project |-> None]
    /\ writer = None /\ announced = None
    /\ readers = [r \in Request |-> 0]
    /\ queue = {}
    /\ state = Unfrozen
    /\ events = <<Created>>
    /\ stored = [projection |-> Unfrozen, log |-> <<Created>>]
    /\ local = [r \in Request |-> Fresh("none")]

LockStep(r) == \/ LockProject(r) \/ UnlockProject(r)
               \/ Announce(r) \/ Lock(r) \/ Unlock(r)
               \/ EnterRLock(r) \/ QueueRLock(r) \/ RUnlock(r)
DataStep(r) == \/ ReadHead(r) \/ ReadEvents(r) \/ ReadSnapshot(r)
               \/ CheckAudit(r) \/ CheckAnchor(r) \/ CheckProjection(r)
               \/ Run(r) \/ Store(r) \/ Commit(r)

Next == \E r \in Request : Start(r) \/ LockStep(r) \/ DataStep(r)

\* The scheduler runs every goroutine that can run, and a sync.Mutex, the one
\* inside the RWMutex included, goes to a waiter that has starved for 1 ms.
Fairness ==
    /\ \A r \in Request : WF_vars(LockStep(r) \/ DataStep(r))
    /\ \A r \in Writer : SF_vars(LockProject(r) \/ Announce(r))

Spec == Init /\ [][Next]_vars
FairSpec == Spec /\ Fairness

-----------------------------------------------------------------------------
(* Properties *)

\* Updates of different projects share the snapshot they read, change and
\* write back whole, yet none is lost: outside of a write the disk, the history
\* and the state agree and every event has its change (repository.go Update).
UpdatesAreSerial ==
    writer = None =>
        /\ stored = [projection |-> state, log |-> events]
        /\ Len(events) = state.edits + (IF state.frozen THEN 1 ELSE 0)

\* Verify reads its snapshot and the disk in four sections between which other
\* projects are edited, and still every check passes (export.go Verify).
VerifyNeverAccuses ==
    \A r \in Request :
        KindOf(r) = "verify" /\ local[r].result = "ok" => local[r].checks

\* Two exports of the audit records of the frozen project are the same, as the
\* exports of anything frozen should be.  It fails: ExportItem reads the events
\* before it looks whether the project is frozen, and a freeze between the two
\* is missing from the export (export.go ExportItem).
AuditExportsAgree ==
    \A q, r \in {s \in Request : KindOf(s) = "item" /\ Idle(s) /\ local[s].result = "ok"} :
        local[q].events = local[r].events

\* Every request is answered.  With "export" requests it fails: Export holds the
\* read lock when Events asks for it again, and once a writer has announced
\* itself in between each of the two waits for the other, and all later requests
\* with them (export.go Export, repository.go Read and Events).
EveryRequestReturns == \A r \in Request : ~Idle(r) ~> Idle(r)

=============================================================================
