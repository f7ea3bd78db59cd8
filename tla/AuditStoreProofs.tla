--------------------------- MODULE AuditStoreProofs ---------------------------
(***************************************************************************)
(* Theorems about AuditStore, for any commands, any number of events and   *)
(* any faults: what survives, what is applied, what the checks say, and    *)
(* that the store implements CommandLedger.  The argument is about the     *)
(* events there are: digests tell them apart, each extends the snapshot of *)
(* the event it names as its predecessor, and so a chain that verifies has *)
(* taken its commands one by one, whatever was lost on the way to it.      *)
(***************************************************************************)
EXTENDS AuditStore, TLAPS, SequenceTheorems, WellFoundedInduction

-----------------------------------------------------------------------------
(* The inductive invariant *)

Types ==
    /\ log \in Seq(Entry) /\ synced \in 0..Len(log)
    /\ projection \in Snapshot \cup {NoProjection}
    /\ up \in BOOLEAN
    /\ state \in Snapshot /\ events \in Seq(Event) /\ head \in 0..formed
    /\ pc \in {"idle", "append", "sync", "project", "dirsync", "commit"}
    /\ pending \in Event \cup {NoEvent}
    /\ formed \in 0..MaxEvents
    /\ hasty \subseteq acked /\ acked \subseteq Command
    /\ faults \in FaultModes

\* The events there are: those in the log, readable or not, and the one being written.
Known == ({log[i].text : i \in DOMAIN log} \cup {pending}) \ {Fragment, NoEvent}

\* A snapshot with one more command.
Extends(new, old) == \E command \in Command \ Range(old) : new = Append(old, command)

\* A digest names one event, and an event extends the one it names.
KnownInv ==
    /\ \A e \in Known : e.digest \in 1..formed /\ e.previous \in 0..formed
    /\ \A e, f \in Known : e.digest = f.digest => e = f
    /\ \A e, f \in Known : e.previous = f.digest => Extends(e.projection, f.projection)
    /\ \A e \in Known : e.previous = 0 => Extends(e.projection, <<>>)

\* The memory of a process is a chain whose events are all in the log.
IsLogged(event) == \E j \in DOMAIN log : log[j].text = event

MemoryInv ==
    /\ up => /\ VerifyEvents(events)
             /\ head = DigestBefore(events, Len(events) + 1)
             /\ state = Rebuilt(events)
             /\ \A i \in DOMAIN events : IsLogged(events[i])
    /\ ~up => events = <<>>

\* An event that is being written continues the chain, and is the end of the log
\* from the write on.
Written == {"sync", "project", "dirsync", "commit"}

CallInv ==
    /\ pc = "idle" => pending = NoEvent
    /\ pc # "idle" => /\ up /\ pending \in Event
                      /\ pending.sequence = Len(events) + 1 /\ pending.previous = head
                      /\ Extends(pending.projection, state)
    /\ pc \in Written => Len(log) > 0 /\ log[Len(log)].text = pending
    /\ pc \in Written \ {"sync"} => synced = Len(log)

\* Unless a process was killed, what it has in its memory is safe, and what it leaves
\* behind too.
SafeInv ==
    "kill" \notin faults =>
        /\ up => \A i \in DOMAIN events : IsSafe(events[i])
        /\ ~up => synced = Len(log)
        /\ hasty = {}

\* Without failing file operations log and memory agree, and so does the projection.
AgreeInv ==
    "io" \notin faults =>
        /\ up => PersistedEvents = IF pc \in Written THEN Append(events, pending) ELSE events
        /\ up /\ events # <<>> /\ pc \notin {"dirsync", "commit"} => projection = state
        /\ pc \in {"dirsync", "commit"} => projection = pending.projection

\* Where only the machine fails, the whole log is safe but for the line that is being
\* written, and a torn text is its end.
CleanInv ==
    faults = {} =>
        /\ up => synced = IF pc = "sync" THEN Len(log) - 1 ELSE Len(log)
        /\ \A i \in DOMAIN log : log[i].text = Fragment => i = Len(log)

IInv == /\ Types /\ KnownInv /\ MemoryInv /\ CallInv /\ SafeInv /\ AgreeInv /\ CleanInv
        /\ AcknowledgedSurvive

-----------------------------------------------------------------------------
(* Sequences, snapshots and chains *)

LEMMA LeastOf ==
    ASSUME NEW T, T \subseteq Nat, T # {}
    PROVE  \E x \in T : \A y \in T : x <= y
  <1>1. PICK x \in T : \A y \in T : <<y, x>> \notin OpToRel(<, Nat)
    BY NatLessThanWellFounded, WFMin
  <1>2. \A y \in T : ~(y < x)
    BY <1>1 DEF OpToRel
  <1> QED
    BY <1>2

LEMMA RangeOfAppend ==
    ASSUME NEW S, NEW seq \in Seq(S), NEW e \in S
    PROVE  Range(Append(seq, e)) = Range(seq) \cup {e}
  <1>1. PICK n : n = Len(seq)
    OBVIOUS
  <1>2. PICK longer : longer = Append(seq, e)
    OBVIOUS
  <1>3. /\ n \in Nat /\ DOMAIN longer = 1..(n + 1) /\ DOMAIN seq = 1..n
        /\ \A i \in 1..n : longer[i] = seq[i]
        /\ longer[n + 1] = e
    BY <1>1, <1>2, AppendProperties
  <1>4. Range(longer) = Range(seq) \cup {e}
    <2>1. ASSUME NEW x \in Range(longer)
          PROVE  x \in Range(seq) \cup {e}
      BY <1>3, <2>1 DEF Range
    <2>2. ASSUME NEW x \in Range(seq) \cup {e}
          PROVE  x \in Range(longer)
      BY <1>3, <2>2 DEF Range
    <2> QED
      BY <2>1, <2>2
  <1> QED
    BY <1>2, <1>4

\* An extended snapshot has what the old one has, and one command more at its end.
LEMMA Extended ==
    ASSUME NEW old \in Snapshot, NEW new, Extends(new, old)
    PROVE  /\ new \in Snapshot /\ new # <<>> /\ Range(old) \subseteq Range(new)
           /\ Last(new) \in Range(new) /\ Last(new) \in Command \ Range(old)
           /\ new = Append(old, Last(new)) /\ Range(new) = Range(old) \cup {Last(new)}
  <1>1. PICK command \in Command \ Range(old) : new = Append(old, command)
    BY DEF Extends
  <1>2. /\ new \in Snapshot /\ Len(new) = Len(old) + 1 /\ Len(old) \in Nat
        /\ new[Len(new)] = command
    BY <1>1, AppendProperties DEF Snapshot
  <1>3. Last(new) = command /\ new # <<>>
    BY <1>2 DEF Last
  <1>4. Range(new) = Range(old) \cup {command}
    BY <1>1, RangeOfAppend DEF Snapshot
  <1> QED
    BY <1>1, <1>2, <1>3, <1>4

\* The snapshot before an event of a chain.
Before(chain, i) == IF i = 1 THEN <<>> ELSE chain[i - 1].projection

\* A chain of known events that verifies takes one command with each event.
LEMMA Linked ==
    ASSUME KnownInv, NEW chain \in Seq(Event), VerifyEvents(chain),
           \A i \in DOMAIN chain : chain[i] \in Known
    PROVE  \A i \in DOMAIN chain : Extends(chain[i].projection, Before(chain, i))
  <1> SUFFICES ASSUME NEW i \in DOMAIN chain
               PROVE  Extends(chain[i].projection, Before(chain, i))
    OBVIOUS
  <1>1. chain[i].previous = DigestBefore(chain, i)
    BY DEF VerifyEvents
  <1>2. CASE i = 1
    BY <1>1, <1>2 DEF DigestBefore, Before, KnownInv
  <1>3. CASE i # 1
    <2>1. i - 1 \in DOMAIN chain
      BY <1>3
    <2> QED
      BY <1>1, <1>3, <2>1 DEF DigestBefore, Before, KnownInv
  <1> QED
    BY <1>2, <1>3

\* Its last snapshot has all commands of the others.
LEMMA LastHasAll ==
    ASSUME KnownInv, NEW chain \in Seq(Event), VerifyEvents(chain),
           \A i \in DOMAIN chain : chain[i] \in Known,
           NEW i \in DOMAIN chain
    PROVE  Range(chain[i].projection) \subseteq Range(Rebuilt(chain))
  <1> DEFINE old == Range(chain[i].projection)
             missing == {n \in i..Len(chain) : ~(old \subseteq Range(chain[n].projection))}
  <1>1. i \in 1..Len(chain) /\ Len(chain) \in Nat /\ chain # <<>>
    OBVIOUS
  <1>2. Rebuilt(chain) = chain[Len(chain)].projection
    BY <1>1 DEF Rebuilt, Last
  <1>3. missing = {}
    <2> SUFFICES ASSUME missing # {} PROVE FALSE
      OBVIOUS
    <2>1. missing \subseteq Nat
      BY <1>1
    <2>2. PICK n \in missing : \A m \in missing : n <= m
      BY <2>1, LeastOf
    <2>3. n \in i..Len(chain) /\ ~(old \subseteq Range(chain[n].projection))
      OBVIOUS
    <2>4. n # i
      BY <2>3
    <2>5. n - 1 \in i..Len(chain) /\ n - 1 \notin missing /\ n # 1
      BY <1>1, <2>2, <2>3, <2>4
    <2>6. old \subseteq Range(chain[n - 1].projection)
      BY <2>5
    <2>7. n \in DOMAIN chain /\ n - 1 \in DOMAIN chain
      BY <1>1, <2>3, <2>5
    <2>8. Extends(chain[n].projection, chain[n - 1].projection)
      BY <2>5, <2>7, Linked DEF Before
    <2>9. chain[n - 1].projection \in Snapshot
      <3>1. chain[n - 1] \in Event
        BY <2>7, ElementOfSeq
      <3> QED
        BY <3>1 DEF Event
    <2>10. Range(chain[n - 1].projection) \subseteq Range(chain[n].projection)
      BY <2>8, <2>9, Extended
    <2> QED
      BY <2>3, <2>6, <2>10
  <1>4. Len(chain) \in i..Len(chain)
    BY <1>1
  <1> QED
    BY <1>2, <1>3, <1>4

-----------------------------------------------------------------------------
(* The log *)

\* A log that decodes is read as the sequence of its texts.
LEMMA PersistedType ==
    ASSUME log \in Seq(Entry), Decodes
    PROVE  /\ PersistedEvents \in Seq(Event) /\ Len(PersistedEvents) = Len(log)
           /\ \A i \in 1..Len(log) : PersistedEvents[i] = log[i].text
  <1>1. PICK n : n = Len(log)
    OBVIOUS
  <1>2. n \in Nat /\ DOMAIN log = 1..n
    BY <1>1
  <1>3. \A i \in 1..n : log[i].text \in Event
    <2> SUFFICES ASSUME NEW i \in 1..n PROVE log[i].text \in Event
      OBVIOUS
    <2>1. log[i] \in Entry
      BY <1>1, ElementOfSeq
    <2> QED
      BY <1>2, <2>1 DEF Entry, Decodes, IsEvent
  <1>4. PersistedEvents = [i \in 1..n |-> log[i].text]
    BY <1>2 DEF PersistedEvents
  <1>5. PersistedEvents \in Seq(Event) /\ Len(PersistedEvents) = n
    BY <1>2, <1>3, <1>4
  <1> QED
    BY <1>1, <1>4, <1>5

\* A text in the log that is no fragment is a known event.
LEMMA LoggedIsKnown ==
    ASSUME Types, NEW i \in DOMAIN log, IsEvent(log[i].text)
    PROVE  log[i].text \in Known /\ log[i].text \in Event
  <1>1. log[i] \in Entry
    BY ElementOfSeq DEF Types
  <1> QED
    BY <1>1, NoEventAssumption DEF Entry, Known, IsEvent

\* What the memory of a process holds is known.
LEMMA MemoryIsKnown ==
    ASSUME Types, MemoryInv, up, NEW i \in DOMAIN events
    PROVE  events[i] \in Known /\ events[i] \in Event
  <1>1. events[i] \in Event
    BY ElementOfSeq DEF Types
  <1>2. PICK j \in DOMAIN log : log[j].text = events[i]
    BY DEF MemoryInv, IsLogged
  <1> QED
    BY <1>1, <1>2, NoEventAssumption DEF Known

LEMMA KnownKept ==
    ASSUME KnownInv, Known' \subseteq Known, formed' = formed
    PROVE  KnownInv'
  BY DEF KnownInv

\* What was synced stays: the same entries, and perhaps more.
LEMMA SafeKept ==
    ASSUME Types, synced' \in Nat, synced <= synced',
           \A i \in 1..synced : log'[i].text = log[i].text
    PROVE  /\ \A e : IsSafe(e) => IsSafe(e)'
           /\ \A c : IsDurable(c) => IsDurable(c)'
  <1>1. synced \in Nat /\ \A i \in 1..synced : i \in 1..synced'
    BY DEF Types
  <1>2. ASSUME NEW e, IsSafe(e) PROVE IsSafe(e)'
    BY <1>1, <1>2 DEF IsSafe
  <1>3. ASSUME NEW c, IsDurable(c) PROVE IsDurable(c)'
    BY <1>1, <1>3 DEF IsDurable
  <1> QED
    BY <1>2, <1>3

\* One more entry, of the event that is being written or of a part of it.
LEMMA EntryAdded ==
    ASSUME Types, NEW entry, entry \in Entry, log' = Append(log, entry),
           entry.text \in {pending, Fragment}, pending' \in {pending, NoEvent},
           synced' = synced
    PROVE  /\ log' \in Seq(Entry) /\ synced' \in 0..Len(log') /\ Known' \subseteq Known
           /\ Len(log') = Len(log) + 1 /\ Len(log) \in Nat /\ log'[Len(log')] = entry
           /\ \A i \in DOMAIN log : i \in DOMAIN log' /\ log'[i] = log[i]
           /\ \A e : IsLogged(e) => IsLogged(e)'
           /\ \A e : IsSafe(e) => IsSafe(e)'
           /\ \A c : IsDurable(c) => IsDurable(c)'
  <1>1. PICK n : n = Len(log)
    OBVIOUS
  <1>2. log \in Seq(Entry) /\ n \in Nat /\ DOMAIN log = 1..n /\ synced \in 0..n
    BY <1>1 DEF Types
  <1>3. /\ log' \in Seq(Entry) /\ Len(log') = n + 1 /\ DOMAIN log' = 1..(n + 1)
        /\ \A i \in 1..n : log'[i] = log[i]
        /\ log'[n + 1] = entry
    BY <1>1, <1>2, AppendProperties
  <1>4. \A e : IsLogged(e) => IsLogged(e)'
    BY <1>2, <1>3 DEF IsLogged
  <1>5. (\A e : IsSafe(e) => IsSafe(e)') /\ (\A c : IsDurable(c) => IsDurable(c)')
    BY <1>2, <1>3, SafeKept
  <1>6. Known' \subseteq Known
    <2> SUFFICES ASSUME NEW e \in Known' PROVE e \in Known
      OBVIOUS
    <2>1. e \notin {Fragment, NoEvent}
      BY DEF Known
    <2>2. e = pending' => e = pending
      BY <2>1
    <2>3. ASSUME NEW i \in DOMAIN log', e = log'[i].text
          PROVE  e = pending \/ \E j \in DOMAIN log : e = log[j].text
      <3>1. CASE i = n + 1
        BY <1>3, <2>1, <2>3, <3>1
      <3>2. CASE i # n + 1
        BY <1>2, <1>3, <2>3, <3>2
      <3> QED
        BY <3>1, <3>2
    <2> QED
      BY <2>1, <2>2, <2>3 DEF Known
  <1> QED
    BY <1>1, <1>2, <1>3, <1>4, <1>5, <1>6

\* The chain in memory ends with its head, and its last snapshot is the state.
LEMMA EndOfMemory ==
    ASSUME Types, MemoryInv, KnownInv, up
    PROVE  \/ events = <<>> /\ head = 0 /\ state = <<>>
           \/ \E i \in DOMAIN events : /\ i = Len(events) /\ events[i].digest = head
                                       /\ events[i].projection = state /\ head # 0
                                       /\ events # <<>>
  <1>1. PICK n : n = Len(events)
    OBVIOUS
  <1>2. events \in Seq(Event) /\ n \in Nat /\ DOMAIN events = 1..n
    BY <1>1 DEF Types
  <1>3. head = DigestBefore(events, n + 1) /\ state = Rebuilt(events)
    BY <1>1 DEF MemoryInv
  <1>4. CASE n = 0
    <2>1. events = <<>>
      BY <1>1, <1>2, <1>4
    <2> QED
      BY <1>3, <1>4, <2>1 DEF DigestBefore, Rebuilt
  <1>5. CASE n # 0
    <2>1. n \in DOMAIN events /\ events # <<>> /\ n + 1 # 1 /\ (n + 1) - 1 = n
      BY <1>1, <1>2, <1>5
    <2>2. head = events[n].digest /\ state = events[n].projection
      BY <1>1, <1>3, <2>1 DEF DigestBefore, Rebuilt, Last
    <2>3. events[n] \in Event
      BY <2>1, MemoryIsKnown
    <2>4. head # 0
      BY <2>2, <2>3 DEF Event
    <2> QED
      BY <1>1, <2>1, <2>2, <2>4
  <1> QED
    BY <1>4, <1>5

-----------------------------------------------------------------------------
(* The steps of Update *)

\* A step that only tells a client something.
LEMMA StoreUntouched ==
    ASSUME IInv, UNCHANGED <<disk, up, memory, call, formed, faults>>
    PROVE  /\ KnownInv' /\ MemoryInv' /\ CallInv' /\ AgreeInv' /\ CleanInv'
           /\ \A c : IsDurable(c)' = IsDurable(c)
           /\ \A e : IsSafe(e)' = IsSafe(e)
  <1>1. UNCHANGED <<log, synced, projection, up, state, events, head, pc, pending, formed, faults>>
    BY DEF disk, memory, call
  <1>2. Known' = Known /\ PersistedEvents' = PersistedEvents
    BY <1>1 DEF Known, PersistedEvents
  <1>3. KnownInv'
    BY <1>1, <1>2 DEF IInv, KnownInv
  <1>4. MemoryInv'
    BY <1>1 DEF IInv, MemoryInv, IsLogged
  <1>5. CallInv'
    BY <1>1 DEF IInv, CallInv
  <1>6. AgreeInv'
    BY <1>1, <1>2 DEF IInv, AgreeInv
  <1>7. CleanInv'
    BY <1>1 DEF IInv, CleanInv
  <1>8. \A c : IsDurable(c)' = IsDurable(c)
    BY <1>1 DEF IsDurable
  <1>9. \A e : IsSafe(e)' = IsSafe(e)
    BY <1>1 DEF IsSafe
  <1> QED
    BY <1>3, <1>4, <1>5, <1>6, <1>7, <1>8, <1>9

LEMMA ReplayKeeps ==
    ASSUME IInv, NEW command \in Command, Replay(command)
    PROVE  IInv'
  <1>1. /\ up /\ command \in Range(state) /\ acked' = acked \cup {command}
        /\ hasty' = IF command \in acked \/ IsDurable(command)
                    THEN hasty ELSE hasty \cup {command}
        /\ UNCHANGED <<disk, up, memory, call, formed, faults>>
    BY DEF Replay
  <1>2. UNCHANGED <<log, synced, projection, up, state, events, head, pc, pending, formed, faults>>
    BY <1>1 DEF disk, memory, call
  <1>3. /\ KnownInv' /\ MemoryInv' /\ CallInv' /\ AgreeInv' /\ CleanInv'
        /\ \A c : IsDurable(c)' = IsDurable(c)
        /\ \A e : IsSafe(e)' = IsSafe(e)
    BY <1>1, StoreUntouched
  <1>4. Types'
    BY <1>1, <1>2 DEF IInv, Types
  <1>5. SafeInv'
    <2>1. "kill" \notin faults => hasty' = {}
      <3> SUFFICES ASSUME "kill" \notin faults PROVE hasty' = {}
        OBVIOUS
      <3>1. Range(<<>>) = {}
        BY DEF Range
      <3>2. PICK i \in DOMAIN events : events[i].projection = state
        BY <1>1, <3>1, EndOfMemory DEF IInv
      <3>3. IsSafe(events[i]) /\ events[i] \in Event
        BY <1>1, <3>2, MemoryIsKnown DEF IInv, SafeInv
      <3>4. IsDurable(command)
        BY <1>1, <3>2, <3>3, NoEventAssumption DEF IsSafe, IsDurable, IsEvent
      <3> QED
        BY <1>1, <3>4 DEF IInv, SafeInv
    <2> QED
      BY <1>2, <1>3, <2>1 DEF IInv, SafeInv
  <1>6. AcknowledgedSurvive'
    <2>1. ASSUME NEW c \in acked' \ hasty' PROVE IsDurable(c)' /\ c \in Range(state)
      BY <1>1, <1>3, <2>1 DEF IInv, AcknowledgedSurvive
    <2> QED
      BY <1>2, <2>1 DEF AcknowledgedSurvive
  <1> QED
    BY <1>3, <1>4, <1>5, <1>6 DEF IInv

LEMMA BeginKeeps ==
    ASSUME IInv, NEW command \in Command, Begin(command)
    PROVE  IInv'
  <1>1. /\ up /\ pc = "idle" /\ command \notin Range(state) /\ formed < MaxEvents
        /\ pc' = "append" /\ pending' = NewEvent(command) /\ formed' = formed + 1
        /\ UNCHANGED <<log, synced, projection, up, state, events, head, acked, hasty, faults>>
    BY DEF Begin, disk, memory, told
  <1>2. PICK new : new = NewEvent(command)
    OBVIOUS
  <1>3. PICK n : n = Len(events)
    OBVIOUS
  <1>4. /\ formed \in Nat /\ head \in 0..formed /\ state \in Snapshot /\ n \in Nat
        /\ MaxEvents \in Nat
    BY <1>3, BoundAssumption DEF IInv, Types
  <1>5. /\ new \in Event /\ new.sequence = n + 1 /\ new.previous = head
        /\ new.digest = formed + 1 /\ new.projection = Append(state, command)
    <2>1. Append(state, command) \in Snapshot
      BY <1>4, AppendProperties DEF Snapshot
    <2>2. n + 1 \in Nat \ {0} /\ formed + 1 \in Nat \ {0} /\ head \in Nat
      BY <1>4
    <2> QED
      BY <1>2, <1>3, <2>1, <2>2 DEF NewEvent, Event
  <1>6. Extends(new.projection, state)
    BY <1>1, <1>5 DEF Extends
  <1>7. Types'
    BY <1>1, <1>2, <1>4, <1>5 DEF IInv, Types
  <1>8. KnownInv'
    <2>1. Known' = Known \cup {new}
      <3>1. pending = NoEvent
        BY <1>1 DEF IInv, CallInv
      <3> QED
        BY <1>1, <1>2, <1>5, <3>1, NoEventAssumption DEF Known
    <2>2. /\ \A e \in Known : e.digest \in 1..formed /\ e.previous \in 0..formed
          /\ \A e, f \in Known : e.digest = f.digest => e = f
          /\ \A e, f \in Known : e.previous = f.digest => Extends(e.projection, f.projection)
          /\ \A e \in Known : e.previous = 0 => Extends(e.projection, <<>>)
      BY DEF IInv, KnownInv
    <2>3. new.previous \in 0..formed /\ new.digest = formed + 1
      BY <1>4, <1>5
    <2>4. \A e \in Known' : e.digest \in 1..formed' /\ e.previous \in 0..formed'
      BY <1>1, <1>4, <2>1, <2>2, <2>3
    <2>5. \A e, f \in Known' : e.digest = f.digest => e = f
      BY <1>4, <2>1, <2>2, <2>3
    <2>6. ASSUME NEW e \in Known', NEW f \in Known', e.previous = f.digest
          PROVE  Extends(e.projection, f.projection)
      <3>1. f # new
        BY <1>4, <2>1, <2>2, <2>3, <2>6
      <3>2. f \in Known
        BY <2>1, <3>1
      <3>3. CASE e = new
        <4>1. head = f.digest /\ head # 0
          BY <1>5, <2>2, <2>6, <3>2, <3>3
        <4>2. PICK i \in DOMAIN events : events[i].digest = head /\ events[i].projection = state
          BY <1>1, <4>1, EndOfMemory DEF IInv
        <4>3. events[i] = f
          BY <1>1, <2>2, <3>2, <4>1, <4>2, MemoryIsKnown DEF IInv
        <4> QED
          BY <1>6, <3>3, <4>2, <4>3
      <3>4. CASE e # new
        BY <2>1, <2>2, <2>6, <3>2, <3>4
      <3> QED
        BY <3>3, <3>4
    <2>7. ASSUME NEW e \in Known', e.previous = 0
          PROVE  Extends(e.projection, <<>>)
      <3>1. CASE e = new
        <4>1. state = <<>>
          BY <1>1, <1>5, <2>7, <3>1, EndOfMemory DEF IInv
        <4> QED
          BY <1>6, <3>1, <4>1
      <3>2. CASE e # new
        BY <2>1, <2>2, <2>7, <3>2
      <3> QED
        BY <3>1, <3>2
    <2> QED
      BY <2>4, <2>5, <2>6, <2>7 DEF KnownInv
  <1>9. MemoryInv'
    BY <1>1 DEF IInv, MemoryInv, IsLogged
  <1>10. CallInv'
    BY <1>1, <1>2, <1>3, <1>5, <1>6 DEF CallInv, Written
  <1>11. SafeInv'
    BY <1>1 DEF IInv, SafeInv, IsSafe
  <1>12. AgreeInv'
    <2>1. PersistedEvents' = PersistedEvents
      BY <1>1 DEF PersistedEvents
    <2> QED
      BY <1>1, <2>1 DEF IInv, AgreeInv, Written
  <1>13. CleanInv'
    BY <1>1 DEF IInv, CleanInv
  <1>14. AcknowledgedSurvive'
    BY <1>1 DEF IInv, AcknowledgedSurvive, IsDurable
  <1> QED
    BY <1>7, <1>8, <1>9, <1>10, <1>11, <1>12, <1>13, <1>14 DEF IInv

\* In the middle of a call the event that is written is known, and its snapshot is
\* the state and one command more.
LEMMA PendingIs ==
    ASSUME IInv, pc # "idle"
    PROVE  /\ up /\ pending \in Event /\ pending \in Known
           /\ pending.sequence = Len(events) + 1 /\ pending.previous = head
           /\ pending.digest \in 1..formed /\ pending.projection \in Snapshot
           /\ Extends(pending.projection, state)
           /\ pending # NoEvent /\ pending # Fragment
           /\ Last(pending.projection) \in Command
           /\ Range(pending.projection) = Range(state) \cup {Last(pending.projection)}
  <1>1. /\ up /\ pending \in Event
        /\ pending.sequence = Len(events) + 1 /\ pending.previous = head
        /\ Extends(pending.projection, state)
    BY DEF IInv, CallInv
  <1>2. pending \in Known /\ pending # NoEvent /\ pending # Fragment
    BY <1>1, NoEventAssumption DEF Known
  <1>3. pending.digest \in 1..formed
    BY <1>2 DEF IInv, KnownInv
  <1>4. state \in Snapshot
    BY DEF IInv, Types
  <1> QED
    BY <1>1, <1>2, <1>3, <1>4, Extended

LEMMA WriteEventKeeps ==
    ASSUME IInv, WriteEvent
    PROVE  IInv'
  <1>1. /\ pc = "append" /\ log' = Append(log, Line(pending)) /\ pc' = "sync"
        /\ UNCHANGED <<synced, projection, up, state, events, head, pending, formed,
                       acked, hasty, faults>>
    BY DEF WriteEvent, memory, told
  <1>2. /\ up /\ pending \in Event /\ pending # Fragment
    BY <1>1, PendingIs
  <1>3. PICK entry : entry = Line(pending)
    OBVIOUS
  <1>4. entry \in Entry /\ entry.text = pending
    BY <1>2, <1>3 DEF Line, Entry
  <1>5. /\ log' \in Seq(Entry) /\ synced' \in 0..Len(log') /\ Known' \subseteq Known
        /\ Len(log') = Len(log) + 1 /\ Len(log) \in Nat /\ log'[Len(log')] = entry
        /\ \A i \in DOMAIN log : i \in DOMAIN log' /\ log'[i] = log[i]
        /\ \A e : IsLogged(e) => IsLogged(e)'
        /\ \A e : IsSafe(e) => IsSafe(e)'
        /\ \A c : IsDurable(c) => IsDurable(c)'
    BY <1>1, <1>3, <1>4, EntryAdded DEF IInv
  <1>6. Types'
    BY <1>1, <1>5 DEF IInv, Types
  <1>7. KnownInv'
    BY <1>1, <1>5, KnownKept DEF IInv
  <1>8. MemoryInv'
    BY <1>1, <1>5 DEF IInv, MemoryInv
  <1>9. CallInv'
    BY <1>1, <1>4, <1>5 DEF IInv, CallInv, Written
  <1>10. SafeInv'
    BY <1>1, <1>2, <1>5 DEF IInv, SafeInv
  <1>11. AgreeInv'
    <2>1. "io" \notin faults => PersistedEvents' = Append(events, pending)
      <3> SUFFICES ASSUME "io" \notin faults PROVE PersistedEvents' = Append(events, pending)
        OBVIOUS
      <3>1. PersistedEvents = events
        BY <1>1, <1>2 DEF IInv, AgreeInv, Written
      <3>2. PICK n : n = Len(log)
        OBVIOUS
      <3>3. /\ n \in Nat /\ DOMAIN log = 1..n /\ DOMAIN log' = 1..(n + 1)
            /\ \A i \in 1..n : log'[i] = log[i]
            /\ log'[n + 1] = entry
        BY <1>5, <3>2 DEF IInv, Types
      <3>4. events \in Seq(Event) /\ DOMAIN events = 1..n /\ \A i \in 1..n : events[i] = log[i].text
        BY <3>1, <3>3 DEF PersistedEvents, IInv, Types
      <3>5. PICK longer : longer = Append(events, pending)
        OBVIOUS
      <3>6. Len(events) = n
        BY <3>3, <3>4
      <3>7. /\ longer \in Seq(Event) /\ DOMAIN longer = 1..(n + 1) /\ longer[n + 1] = pending
            /\ \A i \in 1..n : longer[i] = events[i]
        BY <1>2, <3>3, <3>4, <3>5, <3>6, AppendProperties
      <3>8. longer = [i \in 1..(n + 1) |-> longer[i]]
        BY <3>7
      <3>9. \A i \in 1..(n + 1) : longer[i] = log'[i].text
        BY <1>4, <3>3, <3>4, <3>7
      <3>10. PersistedEvents' = [i \in 1..(n + 1) |-> log'[i].text]
        BY <3>3 DEF PersistedEvents
      <3> QED
        BY <3>5, <3>8, <3>9, <3>10
    <2> QED
      BY <1>1, <2>1 DEF IInv, AgreeInv, Written
  <1>12. CleanInv'
    <2> SUFFICES ASSUME faults = {}
                 PROVE  /\ synced' = Len(log') - 1
                        /\ \A i \in DOMAIN log' : log'[i].text = Fragment => i = Len(log')
      BY <1>1 DEF CleanInv
    <2>1. synced = Len(log)
      BY <1>1, <1>2 DEF IInv, CleanInv
    <2>2. PersistedEvents = events
      BY <1>1, <1>2 DEF IInv, AgreeInv, Written
    <2>3. ASSUME NEW i \in DOMAIN log' PROVE log'[i].text # Fragment
      <3>1. CASE i \in DOMAIN log
        <4>1. log[i].text = events[i] /\ i \in DOMAIN events
          BY <2>2, <3>1 DEF PersistedEvents
        <4>2. log[i].text \in Event
          BY <1>2, <4>1, MemoryIsKnown DEF IInv
        <4> QED
          BY <1>5, <3>1, <4>2, NoEventAssumption
      <3>2. CASE i \notin DOMAIN log
        <4>1. DOMAIN log = 1..Len(log) /\ DOMAIN log' = 1..Len(log')
          BY <1>5 DEF IInv, Types
        <4>2. i = Len(log')
          BY <1>5, <3>2, <4>1
        <4> QED
          BY <1>2, <1>4, <1>5, <4>2
      <3> QED
        BY <3>1, <3>2
    <2> QED
      BY <1>1, <1>5, <2>1, <2>3
  <1>13. AcknowledgedSurvive'
    BY <1>1, <1>5 DEF IInv, AcknowledgedSurvive
  <1> QED
    BY <1>6, <1>7, <1>8, <1>9, <1>10, <1>11, <1>12, <1>13 DEF IInv

LEMMA SyncLogKeeps ==
    ASSUME IInv, SyncLog
    PROVE  IInv'
  <1>1. /\ pc = "sync" /\ synced' = Len(log) /\ pc' = "project"
        /\ UNCHANGED <<log, projection, up, state, events, head, pending, formed,
                       acked, hasty, faults>>
    BY DEF SyncLog, memory, told
  <1>2. up
    BY <1>1, PendingIs
  <1>3. Len(log) \in Nat /\ synced <= synced'
    BY <1>1 DEF IInv, Types
  <1>4. /\ \A e : IsSafe(e) => IsSafe(e)'
        /\ \A c : IsDurable(c) => IsDurable(c)'
    BY <1>1, <1>3, SafeKept DEF IInv
  <1>5. Known' = Known /\ PersistedEvents' = PersistedEvents
    BY <1>1 DEF Known, PersistedEvents
  <1>6. Types'
    BY <1>1, <1>3 DEF IInv, Types
  <1>7. KnownInv'
    BY <1>1, <1>5, KnownKept DEF IInv
  <1>8. MemoryInv'
    BY <1>1 DEF IInv, MemoryInv, IsLogged
  <1>9. CallInv'
    BY <1>1 DEF IInv, CallInv, Written
  <1>10. SafeInv'
    BY <1>1, <1>2, <1>4 DEF IInv, SafeInv
  <1>11. AgreeInv'
    BY <1>1, <1>5 DEF IInv, AgreeInv, Written
  <1>12. CleanInv'
    BY <1>1 DEF IInv, CleanInv
  <1>13. AcknowledgedSurvive'
    BY <1>1, <1>4 DEF IInv, AcknowledgedSurvive
  <1> QED
    BY <1>6, <1>7, <1>8, <1>9, <1>10, <1>11, <1>12, <1>13 DEF IInv

\* The log is as it was and the call goes on.
LEMMA LogUntouched ==
    ASSUME IInv, UNCHANGED <<log, synced, up, state, events, head, pending, formed,
                             acked, hasty, faults>>
    PROVE  /\ KnownInv' /\ MemoryInv' /\ SafeInv' /\ AcknowledgedSurvive'
           /\ PersistedEvents' = PersistedEvents
  <1>1. Known' = Known /\ PersistedEvents' = PersistedEvents
    BY DEF Known, PersistedEvents
  <1>2. KnownInv'
    BY <1>1, KnownKept DEF IInv
  <1>3. MemoryInv'
    BY DEF IInv, MemoryInv, IsLogged
  <1>4. SafeInv'
    BY DEF IInv, SafeInv, IsSafe
  <1>5. AcknowledgedSurvive'
    BY DEF IInv, AcknowledgedSurvive, IsDurable
  <1> QED
    BY <1>1, <1>2, <1>3, <1>4, <1>5

LEMMA RenameProjectionKeeps ==
    ASSUME IInv, RenameProjection
    PROVE  IInv'
  <1>1. /\ pc = "project" /\ projection' = pending.projection /\ pc' = "dirsync"
        /\ UNCHANGED <<log, synced, up, state, events, head, pending, formed,
                       acked, hasty, faults>>
    BY DEF RenameProjection, memory, told
  <1>2. KnownInv' /\ MemoryInv' /\ SafeInv' /\ AcknowledgedSurvive' /\ PersistedEvents' = PersistedEvents
    BY <1>1, LogUntouched
  <1>3. Types'
    BY <1>1, PendingIs DEF IInv, Types
  <1>4. CallInv'
    BY <1>1 DEF IInv, CallInv, Written
  <1>5. AgreeInv'
    BY <1>1, <1>2 DEF IInv, AgreeInv, Written
  <1>6. CleanInv'
    BY <1>1 DEF IInv, CleanInv
  <1> QED
    BY <1>2, <1>3, <1>4, <1>5, <1>6 DEF IInv

LEMMA SyncDirectoryKeeps ==
    ASSUME IInv, SyncDirectory
    PROVE  IInv'
  <1>1. /\ pc = "dirsync" /\ pc' = "commit"
        /\ UNCHANGED <<log, synced, projection, up, state, events, head, pending, formed,
                       acked, hasty, faults>>
    BY DEF SyncDirectory, disk, memory, told
  <1>2. KnownInv' /\ MemoryInv' /\ SafeInv' /\ AcknowledgedSurvive' /\ PersistedEvents' = PersistedEvents
    BY <1>1, LogUntouched
  <1>3. Types'
    BY <1>1 DEF IInv, Types
  <1>4. CallInv'
    BY <1>1 DEF IInv, CallInv, Written
  <1>5. AgreeInv'
    BY <1>1, <1>2 DEF IInv, AgreeInv, Written
  <1>6. CleanInv'
    BY <1>1 DEF IInv, CleanInv
  <1> QED
    BY <1>2, <1>3, <1>4, <1>5, <1>6 DEF IInv

LEMMA CommitKeeps ==
    ASSUME IInv, Commit
    PROVE  IInv'
  <1>1. /\ pc = "commit" /\ state' = pending.projection /\ events' = Append(events, pending)
        /\ head' = pending.digest /\ acked' = acked \cup {Last(pending.projection)}
        /\ pc' = "idle" /\ pending' = NoEvent
        /\ UNCHANGED <<log, synced, projection, up, formed, hasty, faults>>
    BY DEF Commit, disk
  <1>2. PICK n : n = Len(events)
    OBVIOUS
  <1>3. PICK longer : longer = Append(events, pending)
    OBVIOUS
  <1>4. /\ up /\ pending \in Event /\ pending.sequence = n + 1 /\ pending.previous = head
        /\ pending.digest \in 1..formed /\ pending.projection \in Snapshot
        /\ Last(pending.projection) \in Command
        /\ Range(pending.projection) = Range(state) \cup {Last(pending.projection)}
        /\ pending # Fragment
    BY <1>1, <1>2, PendingIs
  <1>5. /\ events \in Seq(Event) /\ n \in Nat /\ DOMAIN events = 1..n
        /\ longer \in Seq(Event) /\ Len(longer) = n + 1 /\ DOMAIN longer = 1..(n + 1)
        /\ longer # <<>> /\ longer[n + 1] = pending
        /\ \A i \in 1..n : longer[i] = events[i]
    BY <1>2, <1>3, <1>4, AppendProperties DEF IInv, Types
  <1>6. Len(log) \in Nat \ {0} /\ log[Len(log)].text = pending /\ synced = Len(log)
        /\ log \in Seq(Entry)
    BY <1>1 DEF IInv, CallInv, Written, Types
  <1>7. Types'
    <2>1. pending.digest \in 0..formed
      BY <1>4
    <2> QED
      BY <1>1, <1>3, <1>4, <1>5, <2>1 DEF IInv, Types
  <1>8. KnownInv'
    <2>1. Known' \subseteq Known
      BY <1>1 DEF Known
    <2> QED
      BY <1>1, <2>1, KnownKept DEF IInv
  <1>9. MemoryInv'
    <2>1. VerifyEvents(longer)
      <3> SUFFICES ASSUME NEW i \in 1..(n + 1)
                   PROVE  longer[i].sequence = i /\ longer[i].previous = DigestBefore(longer, i)
        BY <1>5 DEF VerifyEvents
      <3>1. CASE i = n + 1
        <4>1. DigestBefore(longer, n + 1) = DigestBefore(events, n + 1)
          <5>1. n # 0 => n \in 1..n
            BY <1>5
          <5>2. n + 1 # 1 => (n + 1) - 1 = n /\ n # 0
            BY <1>5
          <5> QED
            BY <1>5, <5>1, <5>2 DEF DigestBefore
        <4>2. head = DigestBefore(events, n + 1)
          BY <1>2, <1>4 DEF IInv, MemoryInv
        <4> QED
          BY <1>4, <1>5, <3>1, <4>1, <4>2
      <3>2. CASE i # n + 1
        <4>1. i \in 1..n
          BY <1>5, <3>2
        <4>2. i # 1 => i - 1 \in 1..n
          BY <1>5, <4>1
        <4>3. DigestBefore(longer, i) = DigestBefore(events, i)
          BY <1>5, <4>2 DEF DigestBefore
        <4>4. events[i].sequence = i /\ events[i].previous = DigestBefore(events, i)
          BY <1>4, <1>5, <4>1 DEF IInv, MemoryInv, VerifyEvents
        <4> QED
          BY <1>5, <4>1, <4>3, <4>4
      <3> QED
        BY <3>1, <3>2
    <2>2. pending.digest = DigestBefore(longer, Len(longer) + 1)
      <3>1. (n + 1) + 1 # 1 /\ ((n + 1) + 1) - 1 = n + 1
        BY <1>5
      <3> QED
        BY <1>5, <3>1 DEF DigestBefore
    <2>3. pending.projection = Rebuilt(longer)
      BY <1>5 DEF Rebuilt, Last
    <2>4. \A i \in 1..n : IsLogged(events[i])
      BY <1>4, <1>5 DEF IInv, MemoryInv
    <2>5. IsLogged(pending)
      BY <1>6 DEF IsLogged
    <2>6. \A i \in 1..(n + 1) : IsLogged(longer[i])
      <3>1. \A i \in 1..(n + 1) : i = n + 1 \/ i \in 1..n
        BY <1>5
      <3> QED
        BY <1>5, <2>4, <2>5, <3>1
    <2>7. \A e : IsLogged(e)' = IsLogged(e)
      BY <1>1 DEF IsLogged
    <2> QED
      BY <1>1, <1>3, <1>4, <1>5, <2>1, <2>2, <2>3, <2>6, <2>7 DEF MemoryInv
  <1>10. CallInv'
    BY <1>1 DEF CallInv, Written
  <1>11. SafeInv'
    <2> SUFFICES ASSUME "kill" \notin faults
                 PROVE  hasty = {} /\ \A i \in 1..(n + 1) : IsSafe(longer[i])'
      BY <1>1, <1>3, <1>4, <1>5 DEF SafeInv
    <2>1. hasty = {} /\ \A i \in 1..n : IsSafe(events[i])
      BY <1>4, <1>5 DEF IInv, SafeInv
    <2>2. IsSafe(pending)
      BY <1>6 DEF IsSafe
    <2>3. \A e : IsSafe(e)' = IsSafe(e)
      BY <1>1 DEF IsSafe
    <2>4. \A i \in 1..(n + 1) : i = n + 1 \/ i \in 1..n
      BY <1>5
    <2> QED
      BY <1>5, <2>1, <2>2, <2>3, <2>4
  <1>12. AgreeInv'
    <2>1. PersistedEvents' = PersistedEvents
      BY <1>1 DEF PersistedEvents
    <2> QED
      BY <1>1, <1>4, <2>1 DEF IInv, AgreeInv, Written
  <1>13. CleanInv'
    BY <1>1, <1>4 DEF IInv, CleanInv
  <1>14. AcknowledgedSurvive'
    <2>1. IsDurable(Last(pending.projection))
      <3>1. Last(pending.projection) \in Range(pending.projection)
        BY <1>4
      <3> QED
        BY <1>4, <1>6, <3>1 DEF IsDurable, IsEvent
    <2>2. \A c : IsDurable(c)' = IsDurable(c)
      BY <1>1 DEF IsDurable
    <2>3. ASSUME NEW c \in acked' \ hasty'
          PROVE  IsDurable(c)' /\ c \in Range(state')
      BY <1>1, <1>4, <2>1, <2>2, <2>3 DEF IInv, AcknowledgedSurvive
    <2> QED
      BY <1>1, <2>3 DEF AcknowledgedSurvive
  <1> QED
    BY <1>7, <1>8, <1>9, <1>10, <1>11, <1>12, <1>13, <1>14 DEF IInv

-----------------------------------------------------------------------------
(* File operations that fail *)

LEMMA CutIs ==
    ASSUME NEW text, text \in Event \cup {Fragment}, NEW entry, entry \in Cut(text)
    PROVE  entry \in Entry /\ entry.text \in {text, Fragment}
  <1>1. PICK part \in {Fragment, text} : entry = [text |-> part, ended |-> FALSE]
    BY DEF Cut
  <1>2. part \in Event \cup {Fragment}
    BY <1>1
  <1>3. entry \in Entry
    BY <1>1, <1>2 DEF Entry
  <1>4. entry.text = part
    BY <1>1
  <1> QED
    BY <1>1, <1>3, <1>4

\* Update returns an error: what the log has gained is all that changes.
LEMMA FailKeeps ==
    ASSUME IInv, pc # "idle", Fail, UNCHANGED <<synced, projection>>,
           log' \in ShortWrites(pending)
    PROVE  IInv'
  <1>1. /\ "io" \in faults /\ pc' = "idle" /\ pending' = NoEvent
        /\ UNCHANGED <<synced, projection, up, state, events, head, formed,
                       acked, hasty, faults>>
    BY DEF Fail, memory, told
  <1>2. up /\ pending \in Event
    BY PendingIs
  <1>3. /\ log' \in Seq(Entry) /\ synced' \in 0..Len(log') /\ Known' \subseteq Known
        /\ \A e : IsLogged(e) => IsLogged(e)'
        /\ \A e : IsSafe(e) => IsSafe(e)'
        /\ \A c : IsDurable(c) => IsDurable(c)'
    <2>1. CASE log' = log
      BY <1>1, <2>1 DEF IInv, Types, Known, IsLogged, IsSafe, IsDurable
    <2>2. CASE log' # log
      <3>1. PICK entry \in Cut(pending) : log' = Append(log, entry)
        BY <2>2 DEF ShortWrites
      <3>2. entry \in Entry /\ entry.text \in {pending, Fragment}
        BY <1>2, CutIs
      <3> QED
        BY <1>1, <3>1, <3>2, EntryAdded DEF IInv
    <2> QED
      BY <2>1, <2>2
  <1>4. Types'
    BY <1>1, <1>3 DEF IInv, Types
  <1>5. KnownInv'
    BY <1>1, <1>3, KnownKept DEF IInv
  <1>6. MemoryInv'
    BY <1>1, <1>3 DEF IInv, MemoryInv
  <1>7. CallInv'
    BY <1>1 DEF CallInv, Written
  <1>8. SafeInv'
    BY <1>1, <1>2, <1>3 DEF IInv, SafeInv
  <1>9. AgreeInv' /\ CleanInv'
    BY <1>1 DEF AgreeInv, CleanInv
  <1>10. AcknowledgedSurvive'
    BY <1>1, <1>3 DEF IInv, AcknowledgedSurvive
  <1> QED
    BY <1>4, <1>5, <1>6, <1>7, <1>8, <1>9, <1>10 DEF IInv

LEMMA FailuresKeep ==
    ASSUME IInv, WriteFails \/ LateStepFails
    PROVE  IInv'
  <1>1. CASE WriteFails
    BY <1>1, FailKeeps DEF WriteFails
  <1>2. CASE LateStepFails
    BY <1>2, FailKeeps DEF LateStepFails, disk, ShortWrites
  <1> QED
    BY <1>1, <1>2

-----------------------------------------------------------------------------
(* Crash and restart *)

\* With the memory, everything that depends on it is gone.
LEMMA MemoryLostKeeps ==
    ASSUME IInv, MemoryLost, log' \in Seq(Entry), synced' \in 0..Len(log'),
           Known' \subseteq Known, \A c : IsDurable(c) => IsDurable(c)',
           "kill" \notin faults => synced' = Len(log'),
           faults = {} => \A i \in DOMAIN log' : log'[i].text = Fragment => i = Len(log')
    PROVE  IInv'
  <1>1. /\ up' = FALSE /\ pc' = "idle" /\ pending' = NoEvent
        /\ state' = <<>> /\ events' = <<>> /\ head' = 0
        /\ UNCHANGED <<projection, formed, acked, hasty, faults>>
    BY DEF MemoryLost, told
  <1>2. Types'
    <2>1. formed \in Nat
      BY BoundAssumption DEF IInv, Types
    <2>2. head' \in 0..formed /\ state' \in Snapshot /\ events' \in Seq(Event)
      BY <1>1, <2>1 DEF Snapshot
    <2> QED
      BY <1>1, <2>2 DEF IInv, Types
  <1>3. KnownInv'
    BY <1>1, KnownKept DEF IInv
  <1>4. MemoryInv' /\ CallInv' /\ AgreeInv' /\ CleanInv'
    BY <1>1 DEF MemoryInv, CallInv, AgreeInv, CleanInv, Written
  <1>5. SafeInv'
    BY <1>1 DEF IInv, SafeInv
  <1>6. AcknowledgedSurvive'
    BY <1>1 DEF IInv, AcknowledgedSurvive
  <1> QED
    BY <1>2, <1>3, <1>4, <1>5, <1>6 DEF IInv

LEMMA KillKeeps ==
    ASSUME IInv, Kill
    PROVE  IInv'
  <1>1. /\ up /\ "kill" \in faults /\ MemoryLost /\ synced' = synced /\ pending' = NoEvent
        /\ log' \in IF pc = "append" THEN ShortWrites(pending) ELSE {log}
    BY DEF Kill, MemoryLost
  <1>2. /\ log' \in Seq(Entry) /\ synced' \in 0..Len(log') /\ Known' \subseteq Known
        /\ \A c : IsDurable(c) => IsDurable(c)'
    <2>1. CASE log' = log
      BY <1>1, <2>1 DEF IInv, Types, Known, IsDurable
    <2>2. CASE log' # log
      <3>1. pc = "append" /\ log' \in ShortWrites(pending)
        BY <1>1, <2>2
      <3>2. PICK entry \in Cut(pending) : log' = Append(log, entry)
        BY <2>2, <3>1 DEF ShortWrites
      <3>3. pending \in Event
        BY <3>1, PendingIs
      <3>4. entry \in Entry /\ entry.text \in {pending, Fragment}
        BY <3>3, CutIs
      <3> QED
        BY <1>1, <3>2, <3>4, EntryAdded DEF IInv
    <2> QED
      BY <2>1, <2>2
  <1>3. faults # {}
    BY <1>1
  <1> QED
    BY <1>1, <1>2, <1>3, MemoryLostKeeps

\* What remains of a log after a crash: what was synced, and of the rest a prefix
\* whose last text may be torn.
LEMMA RemainsIs ==
    ASSUME NEW written \in Seq(Entry), synced \in 0..Len(written),
           NEW rest, rest \in Remains(written)
    PROVE  /\ rest \in Seq(Entry) /\ Len(rest) \in synced..Len(written)
           /\ \A i \in 1..Len(rest) : \/ rest[i].text = written[i].text
                                      \/ i = Len(rest) /\ rest[i].text = Fragment
           /\ \A i \in 1..synced : rest[i] = written[i]
  <1>1. PICK m : m = Len(written)
    OBVIOUS
  <1>2. m \in Nat /\ synced \in 0..m /\ \A i \in 1..m : written[i] \in Entry
    BY <1>1, ElementOfSeq
  <1>3. ASSUME NEW n \in 0..m
        PROVE  /\ SubSeq(written, 1, n) \in Seq(Entry) /\ Len(SubSeq(written, 1, n)) = n
               /\ \A i \in 1..n : SubSeq(written, 1, n)[i] = written[i]
    <2>1. \A i \in 1..n : written[i] \in Entry
      BY <1>2
    <2>2. (IF 1 <= n THEN n - 1 + 1 ELSE 0) = n /\ n - 1 + 1 = n
      OBVIOUS
    <2>3. \A i \in 1..n : 1 + i - 1 = i
      OBVIOUS
    <2> QED
      BY <2>1, <2>2, <2>3, SubSeqProperties
  <1>4. CASE \E n \in synced..m : rest = SubSeq(written, 1, n)
    <2>1. PICK n \in synced..m : rest = SubSeq(written, 1, n)
      BY <1>4
    <2>2. n \in 0..m /\ \A i \in 1..synced : i \in 1..n
      BY <1>2
    <2>3. /\ rest \in Seq(Entry) /\ Len(rest) = n
          /\ \A i \in 1..n : rest[i] = written[i]
      BY <1>3, <2>1, <2>2
    <2> QED
      BY <1>1, <2>2, <2>3
  <1>5. CASE \E n \in synced..(m - 1) : \E entry \in Cut(written[n + 1].text) :
                rest = Append(SubSeq(written, 1, n), entry)
    <2>1. PICK n \in synced..(m - 1) : \E entry \in Cut(written[n + 1].text) :
             rest = Append(SubSeq(written, 1, n), entry)
      BY <1>5
    <2>2. PICK entry \in Cut(written[n + 1].text) : rest = Append(SubSeq(written, 1, n), entry)
      BY <2>1
    <2>3. /\ n \in 0..m /\ n + 1 \in 1..m /\ n + 1 \in synced..m
          /\ \A i \in 1..synced : i \in 1..n
      BY <1>2
    <2>4. written[n + 1].text \in Event \cup {Fragment}
      BY <1>2, <2>3 DEF Entry
    <2>5. entry \in Entry /\ entry.text \in {written[n + 1].text, Fragment}
      BY <2>4, CutIs
    <2>6. PICK start : start = SubSeq(written, 1, n)
      OBVIOUS
    <2>7. start \in Seq(Entry) /\ Len(start) = n /\ \A i \in 1..n : start[i] = written[i]
      BY <1>3, <2>3, <2>6
    <2>8. rest = Append(start, entry)
      BY <2>6, <2>2
    <2>9. /\ rest \in Seq(Entry) /\ Len(rest) = n + 1 /\ rest[n + 1] = entry
          /\ \A i \in 1..n : rest[i] = written[i]
      BY <2>5, <2>7, <2>8, AppendProperties
    <2>10. ASSUME NEW i \in 1..(n + 1)
          PROVE  rest[i].text = written[i].text \/ (i = n + 1 /\ rest[i].text = Fragment)
      <3>1. CASE i = n + 1
        BY <2>5, <2>9, <3>1
      <3>2. CASE i # n + 1
        <4>1. i \in 1..n
          BY <2>3, <3>2
        <4> QED
          BY <2>9, <4>1
      <3> QED
        BY <3>1, <3>2
    <2> QED
      BY <1>1, <2>3, <2>9, <2>10
  <1> QED
    BY <1>1, <1>4, <1>5 DEF Remains

\* Where file operations succeed, a process can read its log.
LEMMA UpDecodes ==
    ASSUME IInv, up, "io" \notin faults
    PROVE  \A i \in DOMAIN log : log[i].text \in Event
  <1> SUFFICES ASSUME NEW i \in DOMAIN log PROVE log[i].text \in Event
    OBVIOUS
  <1>1. events \in Seq(Event) /\ log[i].text = PersistedEvents[i] /\ i \in DOMAIN PersistedEvents
    BY DEF PersistedEvents, IInv, Types
  <1>2. CASE pc \in Written
    <2>1. PICK longer : longer = Append(events, pending)
      OBVIOUS
    <2>2. longer \in Seq(Event)
      BY <1>1, <1>2, <2>1, PendingIs, AppendProperties DEF Written
    <2>3. longer = PersistedEvents
      BY <1>2, <2>1 DEF IInv, AgreeInv
    <2> QED
      BY <1>1, <2>2, <2>3, ElementOfSeq
  <1>3. CASE pc \notin Written
    <2>1. PersistedEvents = events
      BY <1>3 DEF IInv, AgreeInv
    <2> QED
      BY <1>1, <2>1, ElementOfSeq
  <1> QED
    BY <1>2, <1>3

\* What a crash leaves: what was synced, perhaps more of the log and of the line that
\* was being written, and perhaps a torn text at the end.
LEMMA CrashIs ==
    ASSUME IInv, Crash
    PROVE  /\ synced' = Len(log') /\ MemoryLost /\ (up \/ synced < Len(log))
           /\ log' \in Seq(Entry) /\ Len(log') \in synced..(Len(log) + 1)
           /\ pc # "append" => Len(log') <= Len(log)
           /\ DOMAIN log' = 1..Len(log') /\ DOMAIN log = 1..Len(log) /\ Len(log) \in Nat
           /\ synced \in 0..Len(log)
           /\ \A i \in 1..synced : i \in DOMAIN log /\ i \in DOMAIN log' /\ log'[i] = log[i]
           /\ \A i \in DOMAIN log' : \/ i \in DOMAIN log /\ log'[i].text = log[i].text
                                     \/ i = Len(log) + 1 /\ pc = "append" /\ log'[i].text = pending
                                     \/ i = Len(log') /\ log'[i].text = Fragment
  <1>1. PICK written : /\ written = IF pc = "append" THEN Append(log, Line(pending)) ELSE log
                       /\ log' \in Remains(written)
    BY DEF Crash
  <1>2. synced' = Len(log') /\ MemoryLost /\ (up \/ synced < Len(log))
    BY DEF Crash, MemoryLost
  <1>3. PICK n : n = Len(log)
    OBVIOUS
  <1>4. log \in Seq(Entry) /\ n \in Nat /\ DOMAIN log = 1..n /\ synced \in 0..n
    BY <1>3 DEF IInv, Types
  <1>5. PICK m : /\ m = Len(written) /\ m \in n..(n + 1) /\ (pc # "append" => m = n)
                 /\ written \in Seq(Entry)
                 /\ \A i \in 1..n : written[i] = log[i]
                 /\ m = n + 1 => pc = "append" /\ written[m].text = pending
    <2>1. CASE pc = "append"
      <3>1. pending \in Event
        BY <2>1, PendingIs
      <3>2. PICK entry : entry = Line(pending)
        OBVIOUS
      <3>3. entry \in Entry /\ entry.text = pending
        BY <3>1, <3>2 DEF Line, Entry
      <3>4. /\ written \in Seq(Entry) /\ Len(written) = n + 1
            /\ \A i \in 1..n : written[i] = log[i]
            /\ written[n + 1] = entry
        BY <1>1, <1>3, <1>4, <2>1, <3>2, <3>3, AppendProperties
      <3> QED
        BY <1>4, <2>1, <3>3, <3>4
    <2>2. CASE pc # "append"
      BY <1>1, <1>3, <1>4, <2>2
    <2> QED
      BY <2>1, <2>2
  <1>6. synced \in 0..Len(written)
    BY <1>4, <1>5
  <1>7. PICK k : k = Len(log')
    OBVIOUS
  <1>8. /\ log' \in Seq(Entry) /\ k \in synced..m
        /\ \A i \in 1..k : \/ log'[i].text = written[i].text
                           \/ i = k /\ log'[i].text = Fragment
        /\ \A i \in 1..synced : log'[i] = written[i]
    <2>1. /\ log' \in Seq(Entry) /\ Len(log') \in synced..Len(written)
          /\ \A i \in 1..Len(log') : \/ log'[i].text = written[i].text
                                     \/ i = Len(log') /\ log'[i].text = Fragment
          /\ \A i \in 1..synced : log'[i] = written[i]
      BY <1>1, <1>5, <1>6, RemainsIs
    <2> QED
      BY <1>5, <1>7, <2>1
  <1>9. DOMAIN log' = 1..k /\ k \in Nat /\ k \in synced..(n + 1) /\ (pc # "append" => k <= n)
    BY <1>4, <1>5, <1>7, <1>8
  <1>10. \A i \in 1..synced : i \in 1..n /\ i \in 1..k /\ log'[i] = log[i]
    BY <1>4, <1>5, <1>8, <1>9
  <1>11. ASSUME NEW i \in 1..k
         PROVE  \/ i \in 1..n /\ log'[i].text = log[i].text
                \/ i = n + 1 /\ pc = "append" /\ log'[i].text = pending
                \/ i = k /\ log'[i].text = Fragment
    <2>1. CASE i \in 1..n
      BY <1>5, <1>8, <2>1
    <2>2. CASE i \notin 1..n
      <3>1. i = n + 1 /\ m = n + 1
        BY <1>4, <1>5, <1>8, <2>2
      <3> QED
        BY <1>5, <1>8, <3>1
    <2> QED
      BY <2>1, <2>2
  <1> QED
    BY <1>2, <1>3, <1>4, <1>7, <1>8, <1>9, <1>10, <1>11

LEMMA CrashKeeps ==
    ASSUME IInv, Crash
    PROVE  IInv'
  <1>1. /\ synced' = Len(log') /\ MemoryLost /\ (up \/ synced < Len(log))
        /\ log' \in Seq(Entry)
        /\ DOMAIN log' = 1..Len(log')
        /\ \A i \in 1..synced : i \in DOMAIN log' /\ log'[i] = log[i]
        /\ \A i \in DOMAIN log' : \/ i \in DOMAIN log /\ log'[i].text = log[i].text
                                  \/ pc = "append" /\ log'[i].text = pending
                                  \/ i = Len(log') /\ log'[i].text = Fragment
    BY CrashIs
  <1>2. Len(log') \in Nat /\ synced' \in 0..Len(log') /\ synced <= synced'
    <2>1. PICK k : k = Len(log')
      OBVIOUS
    <2>2. k \in synced..(Len(log) + 1) /\ Len(log) \in Nat /\ synced \in 0..Len(log)
      BY <2>1, CrashIs
    <2> QED
      BY <1>1, <2>1, <2>2
  <1>3. \A c : IsDurable(c) => IsDurable(c)'
    BY <1>1, <1>2, SafeKept DEF IInv
  <1>4. Known' \subseteq Known
    <2> SUFFICES ASSUME NEW e \in Known' PROVE e \in Known
      OBVIOUS
    <2>1. PICK i \in DOMAIN log' : e = log'[i].text /\ e \notin {Fragment, NoEvent}
      BY <1>1 DEF Known, MemoryLost
    <2> QED
      BY <1>1, <2>1 DEF Known
  <1>5. faults = {} => \A i \in DOMAIN log' : log'[i].text = Fragment => i = Len(log')
    <2> SUFFICES ASSUME faults = {}, NEW i \in DOMAIN log', log'[i].text = Fragment,
                        i # Len(log')
                 PROVE  FALSE
      OBVIOUS
    <2>1. up
      <3>1. ~up => synced = Len(log) /\ Len(log) \in Nat
        BY DEF IInv, SafeInv, Types
      <3> QED
        BY <1>1, <3>1
    <2>2. CASE i \in DOMAIN log /\ log[i].text = Fragment
      BY <2>1, <2>2, UpDecodes, NoEventAssumption
    <2>3. CASE pc = "append" /\ pending = Fragment
      BY <2>3, PendingIs
    <2> QED
      BY <1>1, <2>2, <2>3
  <1> QED
    BY <1>1, <1>2, <1>3, <1>4, <1>5, MemoryLostKeeps

LEMMA OpenKeeps ==
    ASSUME IInv, Open
    PROVE  IInv'
  <1>1. /\ ~up /\ Recoverable /\ up' = TRUE /\ events' = PersistedEvents
        /\ head' = DigestBefore(PersistedEvents, Len(PersistedEvents) + 1)
        /\ state' = Rebuilt(PersistedEvents)
        /\ projection' = IF PersistedEvents = <<>> THEN projection ELSE Rebuilt(PersistedEvents)
        /\ UNCHANGED <<log, synced, pc, pending, formed, acked, hasty, faults>>
    BY DEF Open, call, told
  <1>2. PICK chain : chain = PersistedEvents
    OBVIOUS
  <1>3. Decodes /\ VerifyEvents(chain) /\ log \in Seq(Entry)
    BY <1>1, <1>2 DEF Recoverable, IsLineByLine, IInv, Types
  <1>4. PICK n : n = Len(log) /\ n \in Nat /\ DOMAIN log = 1..n
    BY <1>3
  <1>5. /\ chain \in Seq(Event) /\ Len(chain) = n /\ DOMAIN chain = 1..n
        /\ \A i \in 1..n : chain[i] = log[i].text
    BY <1>2, <1>3, <1>4, PersistedType
  <1>6. \A i \in 1..n : chain[i] \in Known /\ chain[i] \in Event
    BY <1>3, <1>4, <1>5, LoggedIsKnown DEF Decodes, IInv
  <1>7. pc = "idle" /\ pending = NoEvent
    BY <1>1 DEF IInv, CallInv
  <1>8. /\ chain = <<>> => Rebuilt(chain) = <<>> /\ DigestBefore(chain, n + 1) = 0
        /\ chain # <<>> => /\ n \in 1..n /\ Rebuilt(chain) = chain[n].projection
                           /\ DigestBefore(chain, n + 1) = chain[n].digest
    <2>1. CASE chain = <<>>
      <3>1. n = 0
        BY <1>5, <2>1
      <3> QED
        BY <2>1, <3>1 DEF Rebuilt, DigestBefore
    <2>2. CASE chain # <<>>
      <3>1. n # 0
        BY <1>4, <1>5, <2>2
      <3>2. n \in 1..n /\ n + 1 # 1 /\ (n + 1) - 1 = n
        BY <1>4, <3>1
      <3> QED
        BY <1>5, <2>2, <3>2 DEF Rebuilt, DigestBefore, Last
    <2> QED
      BY <2>1, <2>2
  <1>9. Rebuilt(chain) \in Snapshot /\ DigestBefore(chain, n + 1) \in 0..formed
    <2>1. formed \in Nat
      BY BoundAssumption DEF IInv, Types
    <2>2. CASE chain = <<>>
      <3>1. <<>> \in Snapshot /\ 0 \in 0..formed
        BY <2>1 DEF Snapshot
      <3> QED
        BY <1>8, <2>2, <3>1
    <2>3. CASE chain # <<>>
      <3>1. chain[n] \in Known /\ chain[n] \in Event
        BY <1>6, <1>8, <2>3
      <3>2. chain[n].digest \in 1..formed
        BY <3>1 DEF IInv, KnownInv
      <3> QED
        BY <1>8, <2>1, <2>3, <3>1, <3>2 DEF Event
    <2> QED
      BY <2>2, <2>3
  <1>10. Types'
    BY <1>1, <1>2, <1>5, <1>9 DEF IInv, Types
  <1>11. KnownInv'
    <2>1. Known' = Known
      BY <1>1 DEF Known
    <2> QED
      BY <1>1, <2>1, KnownKept DEF IInv
  <1>12. MemoryInv'
    <2>1. \A i \in 1..n : IsLogged(chain[i])'
      BY <1>1, <1>4, <1>5 DEF IsLogged
    <2> QED
      BY <1>1, <1>2, <1>3, <1>5, <2>1 DEF MemoryInv
  <1>13. CallInv'
    BY <1>1, <1>7 DEF CallInv, Written
  <1>14. SafeInv'
    <2>1. "kill" \notin faults => synced = n /\ hasty = {}
      BY <1>1, <1>4 DEF IInv, SafeInv
    <2>2. "kill" \notin faults => \A i \in 1..n : IsSafe(chain[i])'
      BY <1>1, <1>5, <2>1 DEF IsSafe
    <2> QED
      BY <1>1, <1>2, <1>5, <2>1, <2>2 DEF SafeInv
  <1>15. AgreeInv'
    <2>1. PersistedEvents' = PersistedEvents
      BY <1>1 DEF PersistedEvents
    <2> QED
      BY <1>1, <1>7, <2>1 DEF AgreeInv, Written
  <1>16. CleanInv'
    BY <1>1, <1>7 DEF IInv, CleanInv, SafeInv
  <1>17. AcknowledgedSurvive'
    <2>1. \A c : IsDurable(c)' = IsDurable(c)
      BY <1>1 DEF IsDurable
    <2>2. ASSUME NEW c \in acked \ hasty
          PROVE  IsDurable(c) /\ c \in Range(Rebuilt(chain))
      <3>1. IsDurable(c)
        BY DEF IInv, AcknowledgedSurvive
      <3>2. PICK i \in 1..synced : c \in Range(log[i].text.projection)
        BY <3>1 DEF IsDurable
      <3>3. i \in DOMAIN chain /\ c \in Range(chain[i].projection)
        BY <1>4, <1>5, <3>2 DEF IInv, Types
      <3> QED
        BY <1>3, <1>5, <1>6, <3>1, <3>3, LastHasAll DEF IInv
    <2> QED
      BY <1>1, <1>2, <2>1, <2>2 DEF AcknowledgedSurvive
  <1> QED
    BY <1>10, <1>11, <1>12, <1>13, <1>14, <1>15, <1>16, <1>17 DEF IInv

-----------------------------------------------------------------------------
(* The theorems *)

LEMMA InitIsFine ==
    ASSUME Init
    PROVE  IInv
  <1>1. /\ log = <<>> /\ synced = 0 /\ projection = NoProjection /\ up = FALSE
        /\ state = <<>> /\ events = <<>> /\ head = 0 /\ pc = "idle" /\ pending = NoEvent
        /\ formed = 0 /\ acked = {} /\ hasty = {} /\ faults \in FaultModes
    BY DEF Init
  <1>2. Types
    <2>1. MaxEvents \in Nat
      BY BoundAssumption
    <2>2. log \in Seq(Entry) /\ state \in Snapshot /\ events \in Seq(Event) /\ Len(log) = 0
      BY <1>1 DEF Snapshot
    <2>3. synced \in 0..Len(log) /\ head \in 0..formed /\ formed \in 0..MaxEvents
      BY <1>1, <2>1, <2>2
    <2> QED
      BY <1>1, <2>2, <2>3 DEF Types
  <1>3. KnownInv
    <2>1. Known = {}
      BY <1>1 DEF Known
    <2> QED
      BY <2>1 DEF KnownInv
  <1>4. MemoryInv /\ CallInv /\ AgreeInv
    BY <1>1 DEF MemoryInv, CallInv, AgreeInv, Written
  <1>5. SafeInv /\ CleanInv
    BY <1>1 DEF SafeInv, CleanInv
  <1>6. AcknowledgedSurvive
    BY <1>1 DEF AcknowledgedSurvive
  <1> QED
    BY <1>2, <1>3, <1>4, <1>5, <1>6 DEF IInv

LEMMA StepKeeps ==
    ASSUME IInv, [Next]_vars
    PROVE  IInv'
  <1>1. CASE UNCHANGED vars
    <2>1. /\ UNCHANGED <<disk, up, memory, call, formed, faults>>
          /\ UNCHANGED <<log, synced, projection, up, state, events, head, pc, pending,
                         formed, acked, hasty, faults>>
      BY <1>1 DEF vars, disk, memory, call, told
    <2>2. /\ KnownInv' /\ MemoryInv' /\ CallInv' /\ AgreeInv' /\ CleanInv'
          /\ \A c : IsDurable(c)' = IsDurable(c)
          /\ \A e : IsSafe(e)' = IsSafe(e)
      BY <2>1, StoreUntouched
    <2>3. Types'
      BY <2>1 DEF IInv, Types
    <2>4. SafeInv'
      BY <2>1, <2>2 DEF IInv, SafeInv
    <2>5. AcknowledgedSurvive'
      BY <2>1, <2>2 DEF IInv, AcknowledgedSurvive
    <2> QED
      BY <2>2, <2>3, <2>4, <2>5 DEF IInv
  <1>2. CASE \E command \in Command : Replay(command) \/ Begin(command)
    BY <1>2, ReplayKeeps, BeginKeeps
  <1>3. CASE WriteEvent \/ SyncLog \/ RenameProjection \/ SyncDirectory \/ Commit
    BY <1>3, WriteEventKeeps, SyncLogKeeps, RenameProjectionKeeps, SyncDirectoryKeeps,
       CommitKeeps
  <1>4. CASE WriteFails \/ LateStepFails
    BY <1>4, FailuresKeep
  <1>5. CASE Crash \/ Kill \/ Open
    BY <1>5, CrashKeeps, KillKeeps, OpenKeeps
  <1> QED
    BY <1>1, <1>2, <1>3, <1>4, <1>5 DEF Next

THEOREM InvariantHolds == Spec => []IInv
  <1>1. Init => IInv
    BY InitIsFine
  <1>2. IInv /\ [Next]_vars => IInv'
    BY StepKeeps
  <1> QED
    BY <1>1, <1>2, PTL DEF Spec

\* Nothing is written while no process runs, a head is the digest of an event that was
\* formed, and only a killed process can leave an acknowledged command in danger
\* (repository.go Update, persistence.go recover).
THEOREM TypeCorrect == Spec => []TypeOK
  <1>1. IInv => TypeOK
    <2> SUFFICES ASSUME IInv PROVE TypeOK
      OBVIOUS
    <2>1. (pc = "idle") = (pending = NoEvent)
      <3>1. pc = "idle" => pending = NoEvent
        BY DEF IInv, CallInv
      <3>2. pc # "idle" => pending # NoEvent
        BY PendingIs
      <3> QED
        BY <3>1, <3>2
    <2>2. ~up => pc = "idle"
      BY DEF IInv, CallInv
    <2>3. hasty # {} => "kill" \in faults
      BY DEF IInv, SafeInv
    <2> QED
      BY <2>1, <2>2, <2>3 DEF IInv, Types, TypeOK
  <1> QED
    BY <1>1, InvariantHolds, PTL

\* What a client was told to have succeeded is on the disk for good and in the state of
\* whatever process runs, through any crashes, kills, restarts, failed writes and
\* retries; a command acknowledged before its event was synced is the exception
\* (repository.go Update, persistence.go appendEvent and recover).
THEOREM AcknowledgedStay == Spec => []AcknowledgedSurvive
  <1>1. IInv => AcknowledgedSurvive
    BY DEF IInv
  <1> QED
    BY <1>1, InvariantHolds, PTL

\* A running process has applied each command of its history once, one with each event,
\* under any faults (service.go replay, persistence.go recover).
THEOREM AppliesOnce == Spec => []AppliedOnce
  <1>1. IInv => AppliedOnce
    <2> SUFFICES ASSUME IInv, up, NEW i \in DOMAIN events
                 PROVE  LET before == Rebuilt(SubSeq(events, 1, i - 1)) IN
                        \E command \in Command \ Range(before) :
                            events[i].projection = Append(before, command)
      BY DEF AppliedOnce, IInv, MemoryInv
    <2>1. events \in Seq(Event) /\ VerifyEvents(events) /\ \A j \in DOMAIN events : events[j] \in Known
      BY MemoryIsKnown DEF IInv, Types, MemoryInv
    <2>2. Extends(events[i].projection, Before(events, i))
      BY <2>1, Linked DEF IInv
    <2>3. Rebuilt(SubSeq(events, 1, i - 1)) = Before(events, i)
      <3>1. PICK n : n = Len(events) /\ n \in Nat /\ DOMAIN events = 1..n
        BY <2>1
      <3>2. PICK start : start = SubSeq(events, 1, i - 1)
        OBVIOUS
      <3>3. CASE i = 1
        <4>1. start = <<>>
          BY <3>2, <3>3, SubSeqEmpty
        <4> QED
          BY <3>2, <3>3, <4>1 DEF Rebuilt, Before
      <3>4. CASE i # 1
        <4>1. i - 1 \in 1..n
          BY <3>1, <3>4
        <4>2. \A j \in 1..(i - 1) : events[j] \in Event
          BY <2>1, <3>1, <4>1, ElementOfSeq
        <4>3. /\ start \in Seq(Event) /\ Len(start) = i - 1
              /\ \A j \in 1..(i - 1) : start[j] = events[j]
          <5>1. 1 <= i - 1 /\ (i - 1) - 1 + 1 = i - 1 /\ \A j \in 1..(i - 1) : 1 + j - 1 = j
            BY <4>1
          <5> QED
            BY <3>2, <4>1, <4>2, <5>1, SubSeqProperties
        <4>4. start # <<>> /\ start[i - 1] = events[i - 1]
          BY <4>1, <4>3
        <4>5. Rebuilt(start) = events[i - 1].projection
          BY <4>3, <4>4 DEF Rebuilt, Last
        <4> QED
          BY <3>2, <3>4, <4>5 DEF Before
      <3> QED
        BY <3>3, <3>4
    <2> QED
      BY <2>2, <2>3 DEF Extends
  <1> QED
    BY <1>1, InvariantHolds, PTL

\* Crashes, kills and restarts alone never make the integrity checks accuse anybody
\* (persistence.go recover, repository.go VerifyAudit, VerifyAuditAnchor and
\* VerifyProjection).
THEOREM CrashesDoNotAccuse == Spec => []CrashesAreInnocent
  <1>1. IInv => CrashesAreInnocent
    <2> SUFFICES ASSUME IInv, "io" \notin faults, up, pc = "idle"
                 PROVE  /\ VerifyAudit /\ VerifyAuditAnchor(head)
                        /\ events # <<>> => VerifyProjection
      BY DEF CrashesAreInnocent, VerifyPasses
    <2>1. VerifyAudit
      <3>1. Decodes
        BY UpDecodes, NoEventAssumption DEF Decodes, IsEvent
      <3>2. PersistedEvents = events /\ VerifyEvents(events)
        BY DEF IInv, AgreeInv, Written, MemoryInv
      <3> QED
        BY <3>1, <3>2 DEF VerifyAudit
    <2>2. VerifyAuditAnchor(head)
      <3>1. PersistedEvents = events
        BY DEF IInv, AgreeInv, Written
      <3>2. CASE events = <<>> /\ head = 0
        BY <2>1, <3>1, <3>2 DEF VerifyAuditAnchor
      <3>3. CASE \E i \in DOMAIN events : events[i].digest = head /\ head # 0
        BY <2>1, <3>1, <3>3 DEF VerifyAuditAnchor
      <3> QED
        BY <3>2, <3>3, EndOfMemory DEF IInv
    <2>3. events # <<>> => VerifyProjection
      BY DEF IInv, AgreeInv, VerifyProjection
    <2> QED
      BY <2>1, <2>2, <2>3
  <1> QED
    BY <1>1, InvariantHolds, PTL


\* A step keeps what is in the memory in the log, if a crash cannot take it.
LEMMA LoggedStay ==
    ASSUME IInv, [Next]_vars, NEW i \in DOMAIN events,
           "kill" \in faults => IsSafe(events[i])
    PROVE  \E j \in DOMAIN log' : log'[j].text = events[i]
  <1>1. PICK event : event = events[i]
    OBVIOUS
  <1>2. up /\ IsLogged(event) /\ IsSafe(event)
    <2>1. events # <<>>
      OBVIOUS
    <2> QED
      BY <1>1, <2>1 DEF IInv, MemoryInv, SafeInv
  <1>3. PICK j \in DOMAIN log : log[j].text = event
    BY <1>2 DEF IsLogged
  <1>4. CASE log' = log
    BY <1>1, <1>3, <1>4
  <1>5. CASE \E entry \in Entry : /\ log' = Append(log, entry) /\ synced' = synced
                                  /\ entry.text \in {pending, Fragment}
                                  /\ pending' \in {pending, NoEvent}
    <2>1. j \in DOMAIN log' /\ log'[j] = log[j]
      BY <1>5, EntryAdded DEF IInv
    <2> QED
      BY <1>1, <1>3, <2>1
  <1>6. CASE Crash
    <2>1. PICK k \in 1..synced : log[k].text = event
      BY <1>2 DEF IsSafe
    <2>2. k \in DOMAIN log' /\ log'[k] = log[k]
      BY <1>6, <2>1, CrashIs
    <2> QED
      BY <1>1, <2>1, <2>2
  <1>7. CASE WriteEvent
    <2>1. log' = Append(log, Line(pending)) /\ synced' = synced /\ pending' = pending
          /\ pending \in Event
      BY <1>7, PendingIs DEF WriteEvent
    <2>2. Line(pending) \in Entry /\ Line(pending).text = pending
      BY <2>1 DEF Line, Entry
    <2> QED
      BY <1>5, <2>1, <2>2
  <1>8. CASE (WriteFails \/ Kill) /\ log' # log
    <2>1. log' \in ShortWrites(pending) /\ synced' = synced /\ pending' = NoEvent /\ pc = "append"
      BY <1>8 DEF WriteFails, Fail, Kill, MemoryLost
    <2>2. PICK entry \in Cut(pending) : log' = Append(log, entry)
      BY <1>8, <2>1 DEF ShortWrites
    <2>3. entry \in Entry /\ entry.text \in {pending, Fragment}
      BY <2>1, CutIs, PendingIs
    <2> QED
      BY <1>5, <2>1, <2>2, <2>3
  <1>9. CASE UNCHANGED vars
    BY <1>4, <1>9 DEF vars, disk
  <1>10. CASE \E command \in Command : Replay(command) \/ Begin(command)
    BY <1>4, <1>10 DEF Replay, Begin, disk
  <1>11. CASE SyncLog \/ RenameProjection \/ SyncDirectory \/ Commit \/ LateStepFails \/ Open
    BY <1>4, <1>11 DEF SyncLog, RenameProjection, SyncDirectory, Commit, LateStepFails, Open, disk
  <1> QED
    BY <1>4, <1>6, <1>7, <1>8, <1>9, <1>10, <1>11 DEF Next

\* Whatever a process has in its history stays in the log, so that the head in a freeze
\* manifest can be found for ever; after a kill this is so from the next sync of the log
\* on (review.go Freeze, repository.go AuditHead and VerifyAuditAnchor).
THEOREM AnchorsAreKept == Spec => AnchorsStay
  <1>1. IInv /\ [Next]_vars =>
            [\A i \in DOMAIN events :
                 ("kill" \in faults => IsSafe(events[i]))
                 => \E j \in DOMAIN log' : log'[j].text = events[i]]_vars
    BY LoggedStay
  <1> QED
    BY <1>1, InvariantHolds, PTL DEF Spec, AnchorsStay

-----------------------------------------------------------------------------
(* Implementation of CommandLedger *)

\* DurableCommands, for any log.
DurableOf(entries, count) ==
    LET durable == {i \in 1..count : IsEvent(entries[i].text)}
    IN IF durable = {} THEN <<>> ELSE entries[Max(durable)].text.projection

\* Where whole events come first, it is the snapshot of the last of them.
LEMMA DurableIs ==
    ASSUME NEW entries, NEW count \in Nat, NEW last \in 0..count,
           \A i \in 1..last : entries[i].text # Fragment,
           \A i \in (last + 1)..count : entries[i].text = Fragment
    PROVE  DurableOf(entries, count) = IF last = 0 THEN <<>> ELSE entries[last].text.projection
  <1>1. {i \in 1..count : IsEvent(entries[i].text)} = 1..last
    BY DEF IsEvent
  <1>2. CASE last = 0
    <2>1. 1..last = {}
      BY <1>2
    <2> QED
      BY <1>1, <1>2, <2>1 DEF DurableOf
  <1>3. CASE last # 0
    <2>1. PICK all : all = 1..last
      OBVIOUS
    <2>2. last \in all /\ \A y \in all : last >= y /\ y \in Nat
      BY <1>3, <2>1
    <2>3. \A x \in all : (\A y \in all : x >= y) => x = last
      BY <2>2
    <2>4. Max(all) = last
      BY <2>2, <2>3 DEF Max
    <2>5. all # {}
      BY <2>2
    <2> QED
      BY <1>1, <1>3, <2>1, <2>4, <2>5 DEF DurableOf
  <1> QED
    BY <1>2, <1>3

\* What is certain to survive while a process runs and only the machine can fail: the
\* state until the log is synced, and the pending event's snapshot from then on.
LedgerInv ==
    faults = {} /\ up =>
        DurableCommands = IF pc \in Written \ {"sync"} THEN pending.projection ELSE state

\* The entries that are safe then are events, and the last of them says what is.
LEMMA SafeEnd ==
    ASSUME IInv, faults = {}, up
    PROVE  /\ synced \in Nat /\ \A i \in 1..synced : log[i].text # Fragment
           /\ LET ledger == IF synced = 0 THEN <<>> ELSE log[synced].text.projection
              IN  ledger = IF pc \in Written \ {"sync"} THEN pending.projection ELSE state
  <1>1. PICK n : n = Len(log) /\ log \in Seq(Entry) /\ n \in Nat /\ DOMAIN log = 1..n
                 /\ synced \in 0..n
    BY DEF IInv, Types
  <1>2. \A i \in 1..n : log[i].text # Fragment
    BY <1>1, UpDecodes, NoEventAssumption
  <1>3. synced = IF pc = "sync" THEN n - 1 ELSE n
    BY <1>1 DEF IInv, CleanInv
  <1>4. \A i \in 1..synced : i \in 1..n
    BY <1>1
  <1>5. CASE pc \in Written \ {"sync"}
    <2>1. n > 0 /\ log[n].text = pending /\ synced = n
      BY <1>1, <1>5 DEF IInv, CallInv
    <2> QED
      BY <1>1, <1>2, <1>4, <1>5, <2>1
  <1>6. CASE pc \notin Written \ {"sync"}
    <2>1. PICK m : m = Len(events) /\ m \in Nat /\ events \in Seq(Event) /\ DOMAIN events = 1..m
      BY DEF IInv, Types
    <2>2. synced = m /\ \A i \in 1..m : log[i].text = events[i]
      <3>1. CASE pc = "sync"
        <4>1. PersistedEvents = Append(events, pending) /\ pending \in Event
          BY <3>1, PendingIs DEF IInv, AgreeInv, Written
        <4>2. PICK longer : longer = Append(events, pending)
          OBVIOUS
        <4>3. DOMAIN longer = 1..(m + 1) /\ \A i \in 1..m : longer[i] = events[i]
          BY <2>1, <4>1, <4>2, AppendProperties
        <4>4. DOMAIN longer = 1..n /\ \A i \in 1..n : longer[i] = log[i].text
          BY <1>1, <4>1, <4>2 DEF PersistedEvents
        <4>5. n = m + 1
          BY <1>1, <2>1, <4>3, <4>4
        <4>6. synced = m /\ \A i \in 1..m : i \in 1..n
          BY <1>3, <2>1, <3>1, <4>5
        <4> QED
          BY <4>3, <4>4, <4>6
      <3>2. CASE pc # "sync"
        <4>1. PersistedEvents = events
          BY <1>6, <3>2 DEF IInv, AgreeInv, Written
        <4>2. DOMAIN events = 1..n /\ \A i \in 1..n : events[i] = log[i].text
          BY <1>1, <4>1 DEF PersistedEvents
        <4>3. m = n
          BY <1>1, <2>1, <4>2
        <4> QED
          BY <1>3, <3>2, <4>2, <4>3
      <3> QED
        BY <3>1, <3>2
    <2>3. state = Rebuilt(events)
      BY DEF IInv, MemoryInv
    <2>4. state = IF m = 0 THEN <<>> ELSE events[m].projection
      BY <2>1, <2>3 DEF Rebuilt, Last
    <2>5. m # 0 => log[m].text = events[m]
      BY <2>1, <2>2
    <2> QED
      BY <1>1, <1>2, <1>4, <1>6, <2>1, <2>2, <2>4, <2>5
  <1> QED
    BY <1>5, <1>6

LEMMA LedgerIs ==
    ASSUME IInv
    PROVE  LedgerInv
  <1> SUFFICES ASSUME faults = {}, up
               PROVE  DurableCommands = IF pc \in Written \ {"sync"} THEN pending.projection
                                                                     ELSE state
    BY DEF LedgerInv
  <1>1. synced \in Nat /\ \A i \in 1..synced : log[i].text # Fragment
    BY SafeEnd
  <1>2. DurableOf(log, synced) = IF synced = 0 THEN <<>> ELSE log[synced].text.projection
    <2>1. synced \in 0..synced /\ (synced + 1)..synced = {}
      BY <1>1
    <2> QED
      BY <1>1, <2>1, DurableIs
  <1>3. DurableCommands = DurableOf(log, synced)
    BY DEF DurableCommands, DurableOf
  <1> QED
    BY <1>2, <1>3, SafeEnd

\* A crash of the machine leaves the ledger as it was, or takes the pending command for
\* the client, who does not learn of it.
LEMMA CrashRefines ==
    ASSUME IInv, Crash, faults = {}
    PROVE  \/ DurableCommands' = DurableCommands
           \/ /\ up /\ pc \in {"append", "sync"}
              /\ DurableCommands' = pending.projection
  <1>1. up
    <2>1. ~up => synced = Len(log) /\ Len(log) \in Nat
      BY DEF IInv, SafeInv, Types
    <2> QED
      BY <2>1, CrashIs
  <1>2. PICK s : s = synced /\ s \in Nat /\ \A i \in 1..s : log[i].text # Fragment
    BY <1>1, SafeEnd
  <1>3. PICK k : k = Len(log')
    OBVIOUS
  <1>4. /\ synced' = k /\ k \in s..(s + 1)
        /\ k = s + 1 => pc \in {"append", "sync"} /\ log'[k].text \in {pending, Fragment}
    <2>1. PICK n : n = Len(log) /\ n \in Nat
      BY CrashIs
    <2>2. s = IF pc = "sync" THEN n - 1 ELSE n
      BY <1>1, <1>2, <2>1 DEF IInv, CleanInv
    <2>3. k \in s..(n + 1) /\ synced' = k /\ (pc # "append" => k <= n)
      BY <1>2, <1>3, <2>1, CrashIs
    <2>4. k \in s..(s + 1) /\ (k = s + 1 => pc \in {"append", "sync"})
      BY <1>2, <2>1, <2>2, <2>3
    <2>5. ASSUME k = s + 1 PROVE log'[k].text \in {pending, Fragment}
      <3>1. k \in DOMAIN log' /\ DOMAIN log = 1..n
        BY <1>2, <1>3, <2>1, <2>5, CrashIs
      <3>2. CASE pc = "append"
        <4>1. k = n + 1 /\ k \notin DOMAIN log
          BY <2>1, <2>2, <2>5, <3>1, <3>2
        <4> QED
          BY <1>3, <3>1, <4>1, CrashIs
      <3>3. CASE pc = "sync"
        <4>1. k = n
          BY <2>1, <2>2, <2>5, <3>3
        <4>2. log[n].text = pending
          BY <2>1, <3>3 DEF IInv, CallInv, Written
        <4> QED
          BY <1>3, <3>1, <3>3, <4>1, <4>2, CrashIs
      <3> QED
        BY <2>4, <2>5, <3>2, <3>3
    <2> QED
      BY <2>3, <2>4, <2>5
  <1>5. \A i \in 1..s : log'[i].text = log[i].text
    BY <1>2, CrashIs
  <1>6. DurableCommands = IF s = 0 THEN <<>> ELSE log[s].text.projection
    <2>1. LedgerInv
      BY LedgerIs
    <2> QED
      BY <1>1, <1>2, <2>1, SafeEnd DEF LedgerInv
  <1>7. DurableCommands' = DurableOf(log', k)
    BY <1>4 DEF DurableCommands, DurableOf
  <1>8. CASE k = s \/ (k = s + 1 /\ log'[k].text = Fragment)
    <2>1. k \in Nat /\ s \in 0..k /\ \A i \in (s + 1)..k : i = k /\ k = s + 1
      BY <1>2, <1>4
    <2>2. DurableOf(log', k) = IF s = 0 THEN <<>> ELSE log'[s].text.projection
      BY <1>2, <1>5, <1>8, <2>1, DurableIs
    <2>3. s # 0 => s \in 1..s
      BY <1>2
    <2> QED
      BY <1>5, <1>6, <1>7, <2>2, <2>3
  <1>9. CASE k = s + 1 /\ log'[k].text = pending
    <2>1. k \in Nat /\ k \in 0..k /\ k # 0
      BY <1>2, <1>9
    <2>2. (k + 1)..k = {} /\ \A i \in 1..k : i = k \/ i \in 1..s
      BY <1>2, <1>9
    <2>3. pending # Fragment
      BY <1>4, <1>9, PendingIs
    <2>4. DurableOf(log', k) = log'[k].text.projection
      BY <1>2, <1>5, <1>9, <2>1, <2>2, <2>3, DurableIs
    <2> QED
      BY <1>1, <1>4, <1>7, <1>9, <2>4
  <1>10. k = s \/ k = s + 1
    BY <1>2, <1>4
  <1>11. k = s + 1 => log'[k].text \in {pending, Fragment}
    BY <1>4
  <1> QED
    BY <1>8, <1>9, <1>10, <1>11

\* The ledger takes a command that extends it.
LEMMA TakeIs ==
    ASSUME IInv, faults = {}, faults' = faults, acked' = acked, up, pc # "idle",
           DurableCommands = state, DurableCommands' = pending.projection
    PROVE  Ledger!Next
  <1>1. PICK command : command = Last(pending.projection)
    OBVIOUS
  <1>2. /\ command \in Command \ Range(state)
        /\ pending.projection = Append(state, command)
    BY <1>1, PendingIs, Extended DEF IInv, Types
  <1>3. command \notin Ledger!Taken
    BY <1>2 DEF Ledger!Taken, Range
  <1>4. Ledger!Take(command)
    BY <1>2, <1>3 DEF Ledger!Take
  <1> QED
    BY <1>2, <1>4 DEF Ledger!Next

\* A command that the ledger has is acknowledged.
LEMMA AcknowledgeIs ==
    ASSUME faults = {}, faults' = faults, NEW command \in Command,
           command \in Range(DurableCommands), DurableCommands' = DurableCommands,
           acked' = acked \cup {command}
    PROVE  Ledger!Next
  <1>1. command \in Ledger!Taken
    BY DEF Ledger!Taken, Range
  <1>2. Ledger!Acknowledge(command)
    BY <1>1 DEF Ledger!Acknowledge
  <1> QED
    BY <1>2 DEF Ledger!Next

promised == <<IF faults = {} THEN DurableCommands ELSE <<>>,
              IF faults = {} THEN acked ELSE {}>>

LEMMA StepRefines ==
    ASSUME IInv, LedgerInv', [Next]_vars
    PROVE  Ledger!Next \/ UNCHANGED promised
  <1>1. faults' = faults
    BY DEF Next, vars, disk, memory, call, told, Replay, Begin, WriteEvent, SyncLog,
           RenameProjection, SyncDirectory, Commit, WriteFails, LateStepFails, Fail,
           Crash, Kill, MemoryLost, Open
  <1>2. CASE faults # {}
    BY <1>1, <1>2 DEF promised
  <1>3. ASSUME UNCHANGED <<log, synced>> PROVE DurableCommands' = DurableCommands
    BY <1>3 DEF DurableCommands
  <1>4. ASSUME faults = {}, up
        PROVE  DurableCommands = IF pc \in Written \ {"sync"} THEN pending.projection ELSE state
    BY <1>4, LedgerIs DEF LedgerInv
  <1>5. CASE faults = {} /\ \E command \in Command : Replay(command)
    <2>1. PICK command \in Command : Replay(command)
      BY <1>5
    <2>2. /\ up /\ pc = "idle" /\ command \in Range(state) /\ acked' = acked \cup {command}
          /\ UNCHANGED <<log, synced>>
      BY <2>1 DEF Replay, disk
    <2>3. DurableCommands = state
      BY <1>4, <1>5, <2>2 DEF Written
    <2> QED
      BY <1>1, <1>3, <1>5, <2>2, <2>3, AcknowledgeIs
  <1>6. CASE faults = {} /\ \E command \in Command : Begin(command)
    BY <1>1, <1>3, <1>6 DEF promised, Begin, disk, told
  <1>7. CASE faults = {} /\ WriteEvent
    <2>1. /\ up /\ pc = "append" /\ pc' = "sync"
          /\ UNCHANGED <<up, state, acked, pending>>
      BY <1>7, PendingIs DEF WriteEvent, memory, told
    <2>2. DurableCommands' = DurableCommands
      BY <1>1, <1>4, <1>7, <2>1 DEF LedgerInv, Written
    <2> QED
      BY <1>1, <2>1, <2>2 DEF promised
  <1>8. CASE faults = {} /\ SyncLog
    <2>1. /\ up /\ pc = "sync" /\ pc' = "project"
          /\ UNCHANGED <<up, state, acked, pending>>
      BY <1>8, PendingIs DEF SyncLog, memory, told
    <2>2. DurableCommands = state /\ DurableCommands' = pending.projection
      BY <1>1, <1>4, <1>8, <2>1 DEF LedgerInv, Written
    <2> QED
      BY <1>1, <1>8, <2>1, <2>2, TakeIs
  <1>9. CASE faults = {} /\ (RenameProjection \/ SyncDirectory)
    BY <1>1, <1>3, <1>9 DEF promised, RenameProjection, SyncDirectory, disk, told
  <1>10. CASE faults = {} /\ Commit
    <2>1. /\ up /\ pc = "commit" /\ acked' = acked \cup {Last(pending.projection)}
          /\ UNCHANGED <<log, synced>>
          /\ Last(pending.projection) \in Command
          /\ Last(pending.projection) \in Range(pending.projection)
      BY <1>10, PendingIs DEF Commit, disk
    <2>2. DurableCommands = pending.projection
      BY <1>4, <1>10, <2>1 DEF Written
    <2> QED
      BY <1>1, <1>3, <1>10, <2>1, <2>2, AcknowledgeIs
  <1>11. CASE faults = {} /\ (WriteFails \/ LateStepFails \/ Kill)
    BY <1>11 DEF WriteFails, LateStepFails, Fail, Kill
  <1>12. CASE faults = {} /\ Crash
    <2>1. acked' = acked
      BY <1>12 DEF Crash, MemoryLost, told
    <2>2. CASE DurableCommands' = DurableCommands
      BY <1>1, <2>1, <2>2 DEF promised
    <2>3. CASE /\ up /\ pc \in {"append", "sync"}
               /\ DurableCommands' = pending.projection
      <3>1. DurableCommands = state /\ pc # "idle"
        BY <1>4, <1>12, <2>3 DEF Written
      <3> QED
        BY <1>1, <1>12, <2>1, <2>3, <3>1, TakeIs
    <2> QED
      BY <1>12, <2>2, <2>3, CrashRefines
  <1>13. CASE faults = {} /\ Open
    BY <1>1, <1>3, <1>13 DEF promised, Open, told
  <1>14. CASE UNCHANGED vars
    BY <1>1, <1>3, <1>14 DEF promised, vars, disk, told
  <1> QED
    BY <1>2, <1>5, <1>6, <1>7, <1>8, <1>9, <1>10, <1>11, <1>12, <1>13, <1>14 DEF Next

\* Where only the machine fails, the store is a ledger that takes each command once,
\* never loses or reorders one, and acknowledges only what it holds (repository.go
\* Update and Open): every step of Update, of a crash and of Open takes a command,
\* acknowledges one, or cannot be seen.
THEOREM StoreIsLedger == Spec => ImplementsLedger
  <1>1. Init => Ledger!Init
    <2> SUFFICES ASSUME Init PROVE Ledger!Init
      OBVIOUS
    <2>1. log = <<>> /\ synced = 0 /\ acked = {}
      BY DEF Init
    <2>2. 0 \in 0..0 /\ 1..0 = {}
      OBVIOUS
    <2>3. {i \in 1..synced : IsEvent(log[i].text)} = {}
      BY <2>1, <2>2
    <2>4. DurableCommands = <<>>
      BY <2>3 DEF DurableCommands
    <2> QED
      BY <2>1, <2>4 DEF Ledger!Init
  <1>2. IInv => LedgerInv
    BY LedgerIs
  <1>3. IInv /\ LedgerInv' /\ [Next]_vars => [Ledger!Next]_promised
    BY StepRefines
  <1> QED
    BY <1>1, <1>2, <1>3, InvariantHolds, PTL DEF Spec, ImplementsLedger, Ledger!Spec, promised
============================================================================
