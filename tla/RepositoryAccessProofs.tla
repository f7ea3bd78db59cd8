------------------------ MODULE RepositoryAccessProofs ------------------------
(***************************************************************************)
(* Theorems about RepositoryAccess, for any number of requests of any      *)
(* kinds and any number of events.  What a request holds follows from the  *)
(* instruction it comes to next; that gives mutual exclusion, and with it  *)
(* the disk, the history and the state can only differ inside of a write.  *)
(***************************************************************************)
EXTENDS RepositoryAccess, TLAPS, SequenceTheorems

-----------------------------------------------------------------------------
(* The inductive invariant *)

\* The code of a kind from one instruction on.
Rest(kind, i) == SubSeq(Program(kind), i, Len(Program(kind)))

\* The instruction a request comes to next.
Upcoming(code) == IF code = <<>> THEN "none" ELSE Head(code)

\* Every request is somewhere in the code of its kind: what an error leaves of it
\* is one of its ends.
CodeInv ==
    \A r \in Request :
        \/ KindOf(r) = "none" /\ todo[r] = <<>>
        \/ /\ KindOf(r) \in Kind
           /\ \E i \in 1..(Len(Program(KindOf(r))) + 1) : todo[r] = Rest(KindOf(r), i)

\* What a request holds before its next instruction.  Only the nested section of
\* an export makes it matter how much is left.
Inside == {"head", "events", "snapshot", "audit", "anchor", "projection", "runlock"}
Depth(kind, next, left) ==
    IF kind = "export" THEN IF left \in {2, 3} THEN 2 ELSE IF left \in {1, 4, 5} THEN 1 ELSE 0
                       ELSE IF next \in Inside THEN 1 ELSE 0
Writing == {"run", "store", "commit", "unlock"}
Holding == Writing \cup {"lock", "project unlock"}

NextOf(r) == Upcoming(todo[r])

\* The locks are held by the requests whose code says so: first the mutex of the
\* repository, then those of the projects.
ReadersInv == \A r \in Request : readers[r] = Depth(KindOf(r), NextOf(r), Len(todo[r]))

WriterInv ==
    /\ \A r \in Request : writer = r => NextOf(r) \in Writing
    /\ \A r \in Request : NextOf(r) \in Writing => writer = r
    /\ announced # None => NextOf(announced) = "lock"
    /\ writer # None => announced = None /\ \A r \in Request : readers[r] = 0

QueueInv ==
    /\ \A r \in queue : NextOf(r) = "rlock"
    /\ queue # {} => writer # None \/ announced # None

ProjectInv ==
    /\ \A r \in Request : NextOf(r) \in Holding => projectLock[ProjectOf(r)] = r
    /\ \A r \in Request, p \in Project :
          projectLock[p] = r => NextOf(r) \in Holding /\ p = ProjectOf(r)

LockInv == ReadersInv /\ WriterInv /\ QueueInv /\ ProjectInv

\* Every event of the history has its change in the state.
Counted(snapshot, n) ==
    /\ n = snapshot.edits + (IF snapshot.frozen THEN 1 ELSE 0)
    /\ snapshot.frozen => snapshot.anchor \in 1..n

Numbered(log) == \A i \in DOMAIN log : log[i].sequence = i

\* The disk and the memory differ between the two assignments of a writer only.
DataInv ==
    /\ Len(events) \in 1..MaxEvents /\ Numbered(events) /\ Numbered(stored.log)
    /\ Len(events) <= Len(stored.log)
    /\ Counted(state, Len(events))
    /\ (\A r \in Request : NextOf(r) # "commit") => stored = [projection |-> state, log |-> events]
    /\ \A r \in Request : NextOf(r) \in {"store", "commit"} =>
          Len(events) < MaxEvents /\ Counted(local[r].snapshot, Len(events) + 1)
    /\ \A r \in Request : NextOf(r) = "commit" =>
          stored = [projection |-> local[r].snapshot, log |-> Append(events, NewEvent(r))]

\* What a request has read stays true: the history only grows.
ReadInv ==
    \A r \in Request :
        /\ local[r].head <= Len(events)
        /\ KindOf(r) = "freeze" /\ Len(todo[r]) <= 8 => local[r].head > 0
        /\ KindOf(r) = "verify" /\ Len(todo[r]) \in 2..10 => local[r].result = "ok"
        /\ KindOf(r) = "verify" /\ local[r].result = "ok" =>
              local[r].snapshot.anchor \in 1..Len(events)
        /\ local[r].checks

\* What TypeOK says of the locks follows from LockInv.
Types ==
    /\ todo \in [Request -> Seq(Instruction)]
    /\ projectLock \in [Project -> Request \cup {None}]
    /\ writer \in Request \cup {None} /\ announced \in Request \cup {None}
    /\ readers \in [Request -> Int]
    /\ queue \subseteq Request
    /\ state \in Snapshot
    /\ events \in Seq(Event)
    /\ stored \in [projection : Snapshot, log : Seq(Event)]
    /\ local \in [Request -> Local]

IInv == Types /\ CodeInv /\ LockInv /\ DataInv /\ ReadInv

-----------------------------------------------------------------------------
(* The code of the requests *)

LEMMA ProgramType ==
    ASSUME NEW k \in Kind
    PROVE  Program(k) \in Seq(Instruction) /\ Len(Program(k)) \in {6, 7, 10, 12}
  <1>1. Program("edit") \in Seq(Instruction) /\ Len(Program("edit")) = 7
    BY DEF Program, Transaction, Instruction
  <1>2. Program("freeze") \in Seq(Instruction) /\ Len(Program("freeze")) = 10
    BY DEF Program, Instruction
  <1>3. Program("preview") \in Seq(Instruction) /\ Len(Program("preview")) = 6
    BY DEF Program, Instruction
  <1>4. Program("export") \in Seq(Instruction) /\ Len(Program("export")) = 6
    BY DEF Program, Instruction
  <1>5. Program("item") \in Seq(Instruction) /\ Len(Program("item")) = 6
    BY DEF Program, Instruction
  <1>6. Program("verify") \in Seq(Instruction) /\ Len(Program("verify")) = 12
    BY DEF Program, Instruction
  <1> QED
    BY <1>1, <1>2, <1>3, <1>4, <1>5, <1>6 DEF Kind

LEMMA RestIs ==
    ASSUME NEW k \in Kind, NEW i \in 1..Len(Program(k))
    PROVE  /\ Rest(k, i) \in Seq(Instruction) /\ Rest(k, i) # <<>>
           /\ Len(Rest(k, i)) = Len(Program(k)) + 1 - i
           /\ Head(Rest(k, i)) = Program(k)[i]
           /\ Tail(Rest(k, i)) = Rest(k, i + 1)
  <1> DEFINE code == Program(k)
  <1>1. code \in Seq(Instruction) /\ Len(code) \in Nat
    BY ProgramType
  <1> HIDE DEF code
  <1>2. \A j \in i..Len(code) : code[j] \in Instruction
    BY <1>1, ElementOfSeq DEF code
  <1>3. /\ SubSeq(code, i, Len(code)) \in Seq(Instruction)
        /\ Len(SubSeq(code, i, Len(code))) = Len(code) + 1 - i
    BY <1>1, <1>2, SubSeqProperties DEF code
  <1>4. /\ Head(SubSeq(code, i, Len(code))) = code[i]
        /\ Tail(SubSeq(code, i, Len(code))) = SubSeq(code, i + 1, Len(code))
    BY <1>1, HeadTailOfSubSeq DEF code
  <1>5. SubSeq(code, i, Len(code)) # <<>>
    <2>1. PICK rest : rest = SubSeq(code, i, Len(code))
      OBVIOUS
    <2>2. rest \in Seq(Instruction) /\ Len(rest) > 0
      BY <1>1, <1>3, <2>1 DEF code
    <2>3. rest # <<>>
      BY <2>2
    <2> QED
      BY <2>1, <2>3
  <1> QED
    BY <1>3, <1>4, <1>5 DEF Rest, code

LEMMA RestEnds ==
    ASSUME NEW k \in Kind
    PROVE  Rest(k, Len(Program(k)) + 1) = <<>>
  BY ProgramType, SubSeqEmpty DEF Rest

\* The instruction at a place of the code, and the one after its end.
Here(k, i) == IF i <= Len(Program(k)) THEN Program(k)[i] ELSE "none"

\* What an instruction and the one after it have to do with each other.
Follows(k, x, y, n) ==
    /\ x = "project lock" => y = "lock" /\ k \in {"edit", "freeze"}
    /\ x = "lock" => y = "run"
    /\ x = "run" => y = "store"
    /\ x = "store" => y = "commit"
    /\ x = "commit" => y = "unlock"
    /\ x = "unlock" => y = "project unlock"
    /\ x = "project unlock" => y = "none"
    /\ y \in Writing => x \in Writing \cup {"lock"}
    /\ y \in Holding => x \in Holding \cup {"project lock"}
    /\ y \in {"store", "commit"} => x \in {"run", "store"}
    /\ Depth(k, x, n) \in 0..2
    /\ Depth(k, y, n - 1) = IF x = "rlock" THEN Depth(k, x, n) + 1
                            ELSE IF x = "runlock" THEN Depth(k, x, n) - 1
                            ELSE Depth(k, x, n)
    /\ x \in Inside => Depth(k, x, n) > 0
    /\ x \in Holding \cup {"project lock"} => Depth(k, x, n) = 0
    /\ x = "snapshot" => /\ Depth(k, x, n) = 1
                         /\ k \notin {"edit", "freeze"}
    /\ x = "run" => k \in {"edit", "freeze"} /\ n <= 8
    /\ x = "anchor" => k = "verify" /\ n \in 2..10
    /\ k = "freeze" /\ n - 1 <= 8 => n <= 8 \/ x = "head"
    /\ k = "verify" /\ n - 1 \in 2..10 => n \in 2..10 \/ x = "snapshot"

InOrder(k, i) == Follows(k, Program(k)[i], Here(k, i + 1), Len(Program(k)) + 1 - i)

LEMMA Order ==
    ASSUME NEW k \in Kind, NEW i \in 1..Len(Program(k))
    PROVE  InOrder(k, i)
  <1>1. CASE k = "edit"
    <2>1. /\ InOrder(k, 1) /\ InOrder(k, 2) /\ InOrder(k, 3) /\ InOrder(k, 4)
          /\ InOrder(k, 5) /\ InOrder(k, 6) /\ InOrder(k, 7)
      BY <1>1 DEF InOrder, Program, Transaction, Here, Follows, Depth, Writing,
                  Holding, Inside
    <2>2. Len(Program(k)) = 7
      BY <1>1 DEF Program, Transaction
    <2>3. i \in 1..7
      BY <2>2
    <2>4. i \in {1, 2, 3, 4, 5, 6, 7}
      BY <2>3
    <2> QED
      BY <2>1, <2>4
  <1>2. CASE k = "freeze"
    <2>1. /\ InOrder(k, 1) /\ InOrder(k, 2) /\ InOrder(k, 3) /\ InOrder(k, 4)
          /\ InOrder(k, 5) /\ InOrder(k, 6) /\ InOrder(k, 7) /\ InOrder(k, 8)
          /\ InOrder(k, 9) /\ InOrder(k, 10)
      BY <1>2 DEF InOrder, Program, Transaction, Here, Follows, Depth, Writing,
                  Holding, Inside
    <2>2. Len(Program(k)) = 10
      BY <1>2 DEF Program, Transaction
    <2>3. i \in 1..10
      BY <2>2
    <2>4. i \in {1, 2, 3, 4, 5, 6, 7, 8, 9, 10}
      BY <2>3
    <2> QED
      BY <2>1, <2>4
  <1>3. CASE k = "preview"
    <2>1. /\ InOrder(k, 1) /\ InOrder(k, 2) /\ InOrder(k, 3) /\ InOrder(k, 4)
          /\ InOrder(k, 5) /\ InOrder(k, 6)
      BY <1>3 DEF InOrder, Program, Transaction, Here, Follows, Depth, Writing,
                  Holding, Inside
    <2>2. Len(Program(k)) = 6
      BY <1>3 DEF Program, Transaction
    <2>3. i \in 1..6
      BY <2>2
    <2>4. i \in {1, 2, 3, 4, 5, 6}
      BY <2>3
    <2> QED
      BY <2>1, <2>4
  <1>4. CASE k = "export"
    <2>1. /\ InOrder(k, 1) /\ InOrder(k, 2) /\ InOrder(k, 3) /\ InOrder(k, 4)
          /\ InOrder(k, 5) /\ InOrder(k, 6)
      BY <1>4 DEF InOrder, Program, Transaction, Here, Follows, Depth, Writing,
                  Holding, Inside
    <2>2. Len(Program(k)) = 6
      BY <1>4 DEF Program, Transaction
    <2>3. i \in 1..6
      BY <2>2
    <2>4. i \in {1, 2, 3, 4, 5, 6}
      BY <2>3
    <2> QED
      BY <2>1, <2>4
  <1>5. CASE k = "item"
    <2>1. /\ InOrder(k, 1) /\ InOrder(k, 2) /\ InOrder(k, 3) /\ InOrder(k, 4)
          /\ InOrder(k, 5) /\ InOrder(k, 6)
      BY <1>5 DEF InOrder, Program, Transaction, Here, Follows, Depth, Writing,
                  Holding, Inside
    <2>2. Len(Program(k)) = 6
      BY <1>5 DEF Program, Transaction
    <2>3. i \in 1..6
      BY <2>2
    <2>4. i \in {1, 2, 3, 4, 5, 6}
      BY <2>3
    <2> QED
      BY <2>1, <2>4
  <1>6. CASE k = "verify"
    <2>1. /\ InOrder(k, 1) /\ InOrder(k, 2) /\ InOrder(k, 3) /\ InOrder(k, 4)
          /\ InOrder(k, 5) /\ InOrder(k, 6) /\ InOrder(k, 7) /\ InOrder(k, 8)
          /\ InOrder(k, 9) /\ InOrder(k, 10) /\ InOrder(k, 11) /\ InOrder(k, 12)
      BY <1>6 DEF InOrder, Program, Transaction, Here, Follows, Depth, Writing,
                  Holding, Inside
    <2>2. Len(Program(k)) = 12
      BY <1>6 DEF Program, Transaction
    <2>3. i \in 1..12
      BY <2>2
    <2>4. i \in {1, 2, 3, 4, 5, 6, 7, 8, 9, 10, 11, 12}
      BY <2>3
    <2> QED
      BY <2>1, <2>4
  <1> QED
    BY <1>1, <1>2, <1>3, <1>4, <1>5, <1>6 DEF Kind

-----------------------------------------------------------------------------
(* Where a request is *)

\* What is known of a request that has an instruction left.
LEMMA OnItsWay ==
    ASSUME CodeInv, NEW r \in Request, NEW x, At(r, x)
    PROVE  /\ KindOf(r) \in Kind /\ NextOf(r) = x
           /\ todo[r] \in Seq(Instruction) /\ Len(todo[r]) \in 1..12
           /\ Tail(todo[r]) \in Seq(Instruction) /\ Len(Tail(todo[r])) = Len(todo[r]) - 1
           /\ \E i \in 1..(Len(Program(KindOf(r))) + 1) : Tail(todo[r]) = Rest(KindOf(r), i)
           /\ Follows(KindOf(r), x, Upcoming(Tail(todo[r])), Len(todo[r]))
  <1> DEFINE k == KindOf(r)
  <1>1. todo[r] # <<>> /\ Head(todo[r]) = x
    BY DEF At
  <1>2. k \in Kind
    BY <1>1 DEF CodeInv
  <1>3. PICK n \in {6, 7, 10, 12} : n = Len(Program(k))
    BY <1>2, ProgramType
  <1>4. PICK i \in 1..(n + 1) : todo[r] = Rest(k, i)
    BY <1>1, <1>3 DEF CodeInv
  <1> HIDE DEF k
  <1>5. i \in 1..n
    <2>1. i # n + 1
      BY <1>1, <1>2, <1>3, <1>4, RestEnds
    <2> QED
      BY <2>1
  <1>6. /\ todo[r] \in Seq(Instruction) /\ Len(todo[r]) = n + 1 - i
        /\ x = Program(k)[i] /\ Tail(todo[r]) = Rest(k, i + 1)
    BY <1>1, <1>2, <1>3, <1>4, <1>5, RestIs
  <1>7. /\ Tail(todo[r]) \in Seq(Instruction) /\ Len(Tail(todo[r])) = n - i
        /\ Upcoming(Tail(todo[r])) = Here(k, i + 1)
    <2>1. CASE i = n
      <3>1. Tail(todo[r]) = <<>>
        BY <1>2, <1>3, <1>6, <2>1, RestEnds
      <3>2. ~(i + 1 <= n)
        BY <1>5, <2>1
      <3>3. Here(k, i + 1) = "none"
        BY <1>3, <3>2 DEF Here
      <3>4. n - i = 0
        BY <2>1
      <3>5. PICK rest : rest = Tail(todo[r])
        OBVIOUS
      <3>6. rest = <<>>
        BY <3>1, <3>5
      <3>7. rest \in Seq(Instruction) /\ Len(rest) = 0 /\ Upcoming(rest) = "none"
        BY <3>6 DEF Upcoming
      <3> QED
        BY <3>3, <3>4, <3>5, <3>7
    <2>2. CASE i # n
      <3>1. i + 1 \in 1..n
        BY <1>5, <2>2
      <3>2. /\ Rest(k, i + 1) \in Seq(Instruction) /\ Rest(k, i + 1) # <<>>
            /\ Len(Rest(k, i + 1)) = n + 1 - (i + 1)
            /\ Head(Rest(k, i + 1)) = Program(k)[i + 1]
        BY <1>2, <1>3, <3>1, RestIs
      <3>3. Here(k, i + 1) = Program(k)[i + 1]
        BY <1>3, <3>1 DEF Here
      <3>4. n + 1 - (i + 1) = n - i
        BY <1>5
      <3> QED
        BY <1>6, <3>2, <3>3, <3>4 DEF Upcoming
    <2> QED
      BY <2>1, <2>2
  <1>8. Follows(k, x, Upcoming(Tail(todo[r])), Len(todo[r]))
    BY <1>2, <1>3, <1>5, <1>6, <1>7, Order DEF InOrder
  <1>9. i + 1 \in 1..(n + 1) /\ Len(todo[r]) \in 1..12 /\ n - i = Len(todo[r]) - 1
    BY <1>5, <1>6
  <1> QED
    BY <1>1, <1>2, <1>3, <1>6, <1>7, <1>8, <1>9 DEF k, NextOf, Upcoming

\* The requests in a set go on to their next instructions.
Moves(R) == todo' = [q \in Request |-> IF q \in R THEN Tail(todo[q]) ELSE todo[q]]

LEMMA Moved ==
    ASSUME Types, CodeInv, NEW R, R \subseteq Request, Moves(R),
           \A q \in R : NextOf(q) \in Instruction,
           \A q \in Request : KindOf(q)' = KindOf(q)
    PROVE  /\ todo' \in [Request -> Seq(Instruction)] /\ CodeInv'
           /\ \A q \in R :
                 /\ KindOf(q) \in Kind
                 /\ Follows(KindOf(q), NextOf(q), NextOf(q)', Len(todo[q]))
                 /\ Len(todo[q]) \in 1..12 /\ Len(todo'[q]) = Len(todo[q]) - 1
           /\ \A q \in Request \ R : todo'[q] = todo[q] /\ NextOf(q)' = NextOf(q)
  <1>1. \A q \in R : todo'[q] = Tail(todo[q])
    BY DEF Moves
  <1>2. \A q \in Request \ R : todo'[q] = todo[q] /\ NextOf(q)' = NextOf(q)
    BY DEF Moves, NextOf, Upcoming
  <1>3. \A q \in R : At(q, NextOf(q))
    BY DEF At, NextOf, Upcoming, Instruction
  <1>4. ASSUME NEW q \in R
        PROVE  /\ KindOf(q) \in Kind /\ Tail(todo[q]) \in Seq(Instruction)
               /\ \E i \in 1..(Len(Program(KindOf(q))) + 1) : Tail(todo[q]) = Rest(KindOf(q), i)
               /\ Follows(KindOf(q), NextOf(q), Upcoming(Tail(todo[q])), Len(todo[q]))
               /\ Len(todo[q]) \in 1..12 /\ Len(Tail(todo[q])) = Len(todo[q]) - 1
    BY <1>3, OnItsWay
  <1>5. \A q \in R : NextOf(q)' = Upcoming(Tail(todo[q]))
    BY <1>1 DEF NextOf
  <1>6. todo' \in [Request -> Seq(Instruction)]
    BY <1>1, <1>2, <1>4 DEF Types, Moves
  <1>7. CodeInv'
    <2>1. ASSUME NEW q \in R
          PROVE  /\ KindOf(q)' \in Kind
                 /\ \E i \in 1..(Len(Program(KindOf(q)')) + 1) : todo'[q] = Rest(KindOf(q)', i)
      BY <1>1, <1>4
    <2>2. ASSUME NEW q \in Request \ R
          PROVE  \/ KindOf(q)' = "none" /\ todo'[q] = <<>>
                 \/ /\ KindOf(q)' \in Kind
                    /\ \E i \in 1..(Len(Program(KindOf(q)')) + 1) : todo'[q] = Rest(KindOf(q)', i)
      BY <1>2 DEF CodeInv
    <2> QED
      BY <2>1, <2>2 DEF CodeInv
  <1> QED
    BY <1>1, <1>2, <1>4, <1>5, <1>6, <1>7

\* An instruction about the locks tells nothing new of the data.
AboutLocks == {"project lock", "project unlock", "lock", "unlock", "rlock", "runlock"}

LEMMA DataKept ==
    ASSUME IInv, NEW R, R \subseteq Request, Moves(R),
           \A q \in R : NextOf(q) \in AboutLocks, UNCHANGED <<data, local>>
    PROVE  /\ CodeInv' /\ DataInv' /\ ReadInv'
           /\ todo' \in [Request -> Seq(Instruction)]
           /\ state' \in Snapshot /\ events' \in Seq(Event)
           /\ stored' \in [projection : Snapshot, log : Seq(Event)]
           /\ local' \in [Request -> Local]
  <1>1. UNCHANGED <<state, events, stored, local>>
    BY DEF data
  <1>2. \A q \in Request : KindOf(q)' = KindOf(q) /\ NewEvent(q)' = NewEvent(q)
    BY <1>1 DEF KindOf, NewEvent
  <1>3. \A q \in R : NextOf(q) \in Instruction
    BY DEF AboutLocks, Instruction
  <1>4. /\ todo' \in [Request -> Seq(Instruction)] /\ CodeInv'
        /\ \A q \in R :
              /\ KindOf(q) \in Kind
              /\ Follows(KindOf(q), NextOf(q), NextOf(q)', Len(todo[q]))
              /\ Len(todo[q]) \in 1..12 /\ Len(todo'[q]) = Len(todo[q]) - 1
        /\ \A q \in Request \ R : todo'[q] = todo[q] /\ NextOf(q)' = NextOf(q)
    BY <1>2, <1>3, Moved DEF IInv
  <1>5. \A q \in Request : NextOf(q)' \in {"store", "commit"} => NextOf(q) = NextOf(q)'
    BY <1>4 DEF Follows, AboutLocks
  <1>6. \A q \in Request : NextOf(q) = "commit" => NextOf(q)' = "commit"
    BY <1>4 DEF AboutLocks
  <1>7. DataInv'
    BY <1>1, <1>2, <1>5, <1>6 DEF IInv, DataInv, Counted, Numbered
  <1>8. ASSUME NEW q \in Request, KindOf(q) = "freeze", Len(todo'[q]) <= 8
        PROVE  local[q].head > 0
    <2>1. q \in R => Len(todo[q]) <= 8
      BY <1>4, <1>8 DEF Follows, AboutLocks
    <2> QED
      BY <1>4, <1>8, <2>1 DEF IInv, ReadInv
  <1>9. ASSUME NEW q \in Request, KindOf(q) = "verify", Len(todo'[q]) \in 2..10
        PROVE  local[q].result = "ok"
    <2>1. q \in R => Len(todo[q]) \in 2..10
      BY <1>4, <1>9 DEF Follows, AboutLocks
    <2> QED
      BY <1>4, <1>9, <2>1 DEF IInv, ReadInv
  <1>10. ReadInv'
    BY <1>1, <1>2, <1>8, <1>9 DEF IInv, ReadInv
  <1> QED
    BY <1>1, <1>4, <1>7, <1>10 DEF IInv, Types

\* A request that goes on alone.
LEMMA MovesAlone ==
    ASSUME Types, NEW r \in Request, NEW x \in Instruction, At(r, x), Continue(r)
    PROVE  Moves({r}) /\ NextOf(r) = x
  BY DEF Types, Continue, Moves, At, NextOf, Upcoming

LEMMA NobodyMoves ==
    ASSUME Types, UNCHANGED todo
    PROVE  Moves({})
  BY DEF Types, Moves

LEMMA DepthType ==
    ASSUME NEW k, NEW x, NEW n
    PROVE  Depth(k, x, n) \in 0..2
  BY DEF Depth

-----------------------------------------------------------------------------
(* The steps about locks keep the invariant *)

LEMMA LockProjectKeeps ==
    ASSUME IInv, NEW r \in Request, LockProject(r)
    PROVE  IInv'
  <1>1. /\ At(r, "project lock") /\ projectLock[ProjectOf(r)] = None
        /\ projectLock' = [projectLock EXCEPT ![ProjectOf(r)] = r]
        /\ Continue(r)
        /\ UNCHANGED <<writer, announced, readers, queue, data, local>>
    BY DEF LockProject
  <1>2. Moves({r}) /\ NextOf(r) = "project lock"
    BY <1>1, MovesAlone DEF IInv, Instruction
  <1>3. /\ CodeInv' /\ DataInv' /\ ReadInv'
        /\ todo' \in [Request -> Seq(Instruction)]
        /\ state' \in Snapshot /\ events' \in Seq(Event)
        /\ stored' \in [projection : Snapshot, log : Seq(Event)]
        /\ local' \in [Request -> Local]
    BY <1>1, <1>2, DataKept DEF AboutLocks
  <1>4. \A q \in Request : KindOf(q)' = KindOf(q) /\ ProjectOf(q)' = ProjectOf(q)
    BY <1>1 DEF KindOf, ProjectOf
  <1>5. /\ Follows(KindOf(r), "project lock", NextOf(r)', Len(todo[r]))
        /\ Len(todo'[r]) = Len(todo[r]) - 1
        /\ \A q \in Request \ {r} : todo'[q] = todo[q] /\ NextOf(q)' = NextOf(q)
    BY <1>2, <1>4, Moved DEF IInv, Instruction
  <1>6. ProjectOf(r) \in Project /\ NextOf(r)' = "lock"
    BY <1>5 DEF ProjectOf, Project, Follows
  <1>7. Types'
    BY <1>1, <1>3, <1>6 DEF IInv, Types
  <1>8. ReadersInv'
    BY <1>1, <1>2, <1>4, <1>5 DEF IInv, LockInv, ReadersInv, Follows
  <1>9. WriterInv'
    BY <1>1, <1>2, <1>5, <1>6 DEF IInv, LockInv, Types, WriterInv, Writing
  <1>10. QueueInv'
    BY <1>1, <1>2, <1>5 DEF IInv, LockInv, Types, QueueInv
  <1>11. ProjectInv'
    <2>1. ASSUME NEW q \in Request, NextOf(q)' \in Holding
          PROVE  projectLock'[ProjectOf(q)] = q
      <3>1. CASE q = r
        BY <1>1, <1>6, <3>1 DEF IInv, Types
      <3>2. CASE q # r
        <4>1. projectLock[ProjectOf(q)] = q
          BY <1>5, <2>1, <3>2 DEF IInv, LockInv, ProjectInv
        <4>2. ProjectOf(q) # ProjectOf(r)
          BY <1>1, <4>1, NoneAssumption
        <4> QED
          BY <1>1, <4>1, <4>2 DEF IInv, Types, ProjectOf, Project
      <3> QED
        BY <3>1, <3>2
    <2>2. ASSUME NEW q \in Request, NEW p \in Project, projectLock'[p] = q
          PROVE  NextOf(q)' \in Holding /\ p = ProjectOf(q)
      <3>1. CASE p = ProjectOf(r)
        BY <1>1, <1>6, <2>2, <3>1 DEF IInv, Types, Holding
      <3>2. CASE p # ProjectOf(r)
        <4>1. projectLock[p] = q
          BY <1>1, <2>2, <3>2 DEF IInv, Types
        <4>2. NextOf(q) \in Holding /\ p = ProjectOf(q)
          BY <4>1 DEF IInv, LockInv, ProjectInv
        <4> QED
          BY <1>2, <1>5, <3>2, <4>2
      <3> QED
        BY <3>1, <3>2
    <2> QED
      BY <1>4, <2>1, <2>2 DEF ProjectInv
  <1> QED
    BY <1>3, <1>7, <1>8, <1>9, <1>10, <1>11 DEF IInv, LockInv

LEMMA UnlockProjectKeeps ==
    ASSUME IInv, NEW r \in Request, UnlockProject(r)
    PROVE  IInv'
  <1>1. /\ At(r, "project unlock")
        /\ projectLock' = [projectLock EXCEPT ![ProjectOf(r)] = None]
        /\ Continue(r)
        /\ UNCHANGED <<writer, announced, readers, queue, data, local>>
    BY DEF UnlockProject
  <1>2. Moves({r}) /\ NextOf(r) = "project unlock"
    BY <1>1, MovesAlone DEF IInv, Instruction
  <1>3. /\ CodeInv' /\ DataInv' /\ ReadInv'
        /\ todo' \in [Request -> Seq(Instruction)]
        /\ state' \in Snapshot /\ events' \in Seq(Event)
        /\ stored' \in [projection : Snapshot, log : Seq(Event)]
        /\ local' \in [Request -> Local]
    BY <1>1, <1>2, DataKept DEF AboutLocks
  <1>4. \A q \in Request : KindOf(q)' = KindOf(q) /\ ProjectOf(q)' = ProjectOf(q)
    BY <1>1 DEF KindOf, ProjectOf
  <1>5. /\ Follows(KindOf(r), "project unlock", NextOf(r)', Len(todo[r]))
        /\ Len(todo'[r]) = Len(todo[r]) - 1
        /\ \A q \in Request \ {r} : todo'[q] = todo[q] /\ NextOf(q)' = NextOf(q)
    BY <1>2, <1>4, Moved DEF IInv, Instruction
  <1>6. ProjectOf(r) \in Project /\ NextOf(r)' = "none"
    BY <1>5 DEF ProjectOf, Project, Follows
  <1>7. Types'
    BY <1>1, <1>3, <1>6 DEF IInv, Types
  <1>8. ReadersInv'
    BY <1>1, <1>2, <1>4, <1>5 DEF IInv, LockInv, ReadersInv, Follows
  <1>9. WriterInv'
    BY <1>1, <1>2, <1>5, <1>6 DEF IInv, LockInv, Types, WriterInv, Writing
  <1>10. QueueInv'
    BY <1>1, <1>2, <1>5 DEF IInv, LockInv, Types, QueueInv
  <1>11. ProjectInv'
    <2>1. projectLock[ProjectOf(r)] = r
      BY <1>2 DEF IInv, LockInv, ProjectInv, Holding
    <2>2. ASSUME NEW q \in Request, NextOf(q)' \in Holding
          PROVE  projectLock'[ProjectOf(q)] = q
      <3>1. q # r
        BY <1>6, <2>2 DEF Holding, Writing
      <3>2. projectLock[ProjectOf(q)] = q
        BY <1>5, <2>2, <3>1 DEF IInv, LockInv, ProjectInv
      <3>3. ProjectOf(q) # ProjectOf(r)
        BY <2>1, <3>1, <3>2
      <3> QED
        BY <1>1, <3>2, <3>3 DEF IInv, Types, ProjectOf, Project
    <2>3. ASSUME NEW q \in Request, NEW p \in Project, projectLock'[p] = q
          PROVE  NextOf(q)' \in Holding /\ p = ProjectOf(q)
      <3>1. p # ProjectOf(r)
        BY <1>1, <1>6, <2>3, NoneAssumption DEF IInv, Types
      <3>2. projectLock[p] = q
        BY <1>1, <2>3, <3>1 DEF IInv, Types
      <3>3. NextOf(q) \in Holding /\ p = ProjectOf(q)
        BY <3>2 DEF IInv, LockInv, ProjectInv
      <3> QED
        BY <1>5, <3>1, <3>3
    <2> QED
      BY <1>4, <2>2, <2>3 DEF ProjectInv
  <1> QED
    BY <1>3, <1>7, <1>8, <1>9, <1>10, <1>11 DEF IInv, LockInv

\* The mutexes of the projects do not care about the one of the repository.
LEMMA ProjectKept ==
    ASSUME IInv, UNCHANGED projectLock,
           \A q \in Request : KindOf(q)' = KindOf(q),
           \A q \in Request : NextOf(q) \in Holding => NextOf(q)' \in Holding,
           \A q \in Request : NextOf(q)' \in Holding => NextOf(q) \in Holding
    PROVE  ProjectInv'
  <1>1. \A q \in Request : ProjectOf(q)' = ProjectOf(q)
    BY DEF ProjectOf
  <1> QED
    BY <1>1 DEF IInv, LockInv, ProjectInv

LEMMA AnnounceKeeps ==
    ASSUME IInv, NEW r \in Request, Announce(r)
    PROVE  IInv'
  <1>1. /\ At(r, "lock") /\ writer = None /\ announced = None /\ announced' = r
        /\ UNCHANGED <<todo, projectLock, writer, readers, queue, data, local>>
    BY DEF Announce
  <1>2. NextOf(r) = "lock"
    BY <1>1 DEF At, NextOf, Upcoming
  <1>3. /\ CodeInv' /\ DataInv' /\ ReadInv' /\ Types'
    BY <1>1, NobodyMoves, DataKept DEF IInv, Types
  <1>4. \A q \in Request : KindOf(q)' = KindOf(q) /\ NextOf(q)' = NextOf(q)
    BY <1>1 DEF KindOf, NextOf
  <1>5. ReadersInv' /\ QueueInv'
    BY <1>1, <1>4, NoneAssumption DEF IInv, LockInv, Types, ReadersInv, QueueInv
  <1>6. WriterInv'
    BY <1>1, <1>2, <1>4 DEF IInv, LockInv, WriterInv
  <1>7. ProjectInv'
    BY <1>1, <1>4, ProjectKept
  <1> QED
    BY <1>3, <1>5, <1>6, <1>7 DEF IInv, LockInv

LEMMA LockKeeps ==
    ASSUME IInv, NEW r \in Request, Lock(r)
    PROVE  IInv'
  <1>1. /\ At(r, "lock") /\ announced = r /\ \A q \in Request : readers[q] = 0
        /\ writer' = r /\ announced' = None /\ Continue(r)
        /\ UNCHANGED <<projectLock, readers, queue, data, local>>
    BY DEF Lock
  <1>2. Moves({r}) /\ NextOf(r) = "lock"
    BY <1>1, MovesAlone DEF IInv, Instruction
  <1>3. /\ CodeInv' /\ DataInv' /\ ReadInv'
        /\ todo' \in [Request -> Seq(Instruction)]
        /\ state' \in Snapshot /\ events' \in Seq(Event)
        /\ stored' \in [projection : Snapshot, log : Seq(Event)]
        /\ local' \in [Request -> Local]
    BY <1>1, <1>2, DataKept DEF AboutLocks
  <1>4. \A q \in Request : KindOf(q)' = KindOf(q)
    BY <1>1 DEF KindOf
  <1>5. /\ Follows(KindOf(r), "lock", NextOf(r)', Len(todo[r]))
        /\ Len(todo'[r]) = Len(todo[r]) - 1
        /\ \A q \in Request \ {r} : todo'[q] = todo[q] /\ NextOf(q)' = NextOf(q)
    BY <1>2, <1>4, Moved DEF IInv, Instruction
  <1>6. NextOf(r)' = "run" /\ r # None /\ writer = None
    BY <1>1, <1>5, NoneAssumption DEF Follows, IInv, LockInv, WriterInv
  <1>7. Types'
    BY <1>1, <1>3 DEF IInv, Types
  <1>8. ReadersInv'
    BY <1>1, <1>2, <1>4, <1>5 DEF IInv, LockInv, ReadersInv, Follows
  <1>9. WriterInv'
    <2>1. ASSUME NEW q \in Request, NextOf(q)' \in Writing
          PROVE  q = r
      BY <1>5, <1>6, <2>1, NoneAssumption DEF IInv, LockInv, WriterInv
    <2>2. NextOf(r)' \in Writing
      BY <1>6 DEF Writing
    <2> QED
      BY <1>1, <2>1, <2>2 DEF WriterInv
  <1>10. QueueInv'
    BY <1>1, <1>2, <1>5, <1>6 DEF IInv, LockInv, Types, QueueInv
  <1>11. ProjectInv'
    BY <1>1, <1>2, <1>4, <1>5, <1>6, ProjectKept DEF Holding, Writing
  <1> QED
    BY <1>3, <1>7, <1>8, <1>9, <1>10, <1>11 DEF IInv, LockInv

LEMMA UnlockKeeps ==
    ASSUME IInv, NEW r \in Request, Unlock(r)
    PROVE  IInv'
  <1> DEFINE R == queue \cup {r}
  <1>1. /\ At(r, "unlock") /\ writer' = None /\ queue' = {}
        /\ readers' = [q \in Request |-> IF q \in queue THEN readers[q] + 1 ELSE readers[q]]
        /\ Moves(R)
        /\ UNCHANGED <<projectLock, announced, data, local>>
    BY DEF Unlock, Moves
  <1>2. /\ NextOf(r) = "unlock" /\ R \subseteq Request
        /\ \A q \in queue : NextOf(q) = "rlock" /\ q # r
    BY <1>1 DEF At, NextOf, Upcoming, IInv, Types, LockInv, QueueInv
  <1>3. /\ CodeInv' /\ DataInv' /\ ReadInv'
        /\ todo' \in [Request -> Seq(Instruction)]
        /\ state' \in Snapshot /\ events' \in Seq(Event)
        /\ stored' \in [projection : Snapshot, log : Seq(Event)]
        /\ local' \in [Request -> Local]
    <2>1. \A q \in R : NextOf(q) \in AboutLocks
      BY <1>2 DEF AboutLocks
    <2> HIDE DEF R
    <2> QED
      BY <1>1, <1>2, <2>1, DataKept
  <1>4. \A q \in Request : KindOf(q)' = KindOf(q)
    BY <1>1 DEF KindOf
  <1>5. /\ \A q \in R : /\ Follows(KindOf(q), NextOf(q), NextOf(q)', Len(todo[q]))
                        /\ Len(todo'[q]) = Len(todo[q]) - 1
        /\ \A q \in Request \ R : todo'[q] = todo[q] /\ NextOf(q)' = NextOf(q)
    <2>1. \A q \in R : NextOf(q) \in Instruction
      BY <1>2 DEF Instruction
    <2> HIDE DEF R
    <2> QED
      BY <1>1, <1>2, <1>4, <2>1, Moved DEF IInv
  <1>6. /\ writer = r /\ r # None /\ announced = None /\ \A q \in Request : readers[q] = 0
        /\ NextOf(r)' = "project unlock"
    BY <1>2, <1>5, NoneAssumption DEF IInv, LockInv, WriterInv, Writing, Follows
  <1>7. Types'
    <2>1. readers' \in [Request -> Int]
      BY <1>1 DEF IInv, Types
    <2> QED
      BY <1>1, <1>3, <2>1 DEF IInv, Types
  <1>8. ReadersInv'
    <2>1. ASSUME NEW q \in queue
          PROVE  readers'[q] = Depth(KindOf(q), NextOf(q)', Len(todo'[q]))
      <3>1. /\ Depth(KindOf(q), NextOf(q)', Len(todo[q]) - 1)
                  = Depth(KindOf(q), NextOf(q), Len(todo[q])) + 1
            /\ Len(todo'[q]) = Len(todo[q]) - 1
        BY <1>2, <1>5 DEF Follows
      <3> QED
        BY <1>1, <1>2, <3>1 DEF IInv, LockInv, ReadersInv
    <2>2. readers'[r] = Depth(KindOf(r), NextOf(r)', Len(todo'[r]))
      BY <1>1, <1>2, <1>5 DEF IInv, LockInv, ReadersInv, Follows
    <2> QED
      BY <1>1, <1>4, <1>5, <2>1, <2>2 DEF IInv, LockInv, ReadersInv
  <1>9. \A q \in queue : NextOf(q)' \notin Holding
    BY <1>2, <1>5 DEF Follows, Holding, Writing
  <1>10. WriterInv'
    <2>1. ASSUME NEW q \in Request, NextOf(q)' \in Writing
          PROVE  FALSE
      <3>1. q # r /\ q \notin queue
        BY <1>6, <1>9, <2>1 DEF Holding, Writing
      <3>2. NextOf(q) \in Writing
        BY <1>5, <2>1, <3>1
      <3> QED
        BY <1>6, <3>1, <3>2 DEF IInv, LockInv, WriterInv
    <2> QED
      BY <1>1, <1>6, <2>1, NoneAssumption DEF WriterInv
  <1>11. QueueInv'
    BY <1>1 DEF QueueInv
  <1>12. ProjectInv'
    <2>1. \A q \in queue : NextOf(q) \notin Holding
      BY <1>2 DEF Holding, Writing
    <2>2. NextOf(r) \in Holding /\ NextOf(r)' \in Holding
      BY <1>2, <1>6 DEF Holding, Writing
    <2> QED
      BY <1>1, <1>4, <1>5, <1>9, <2>1, <2>2, ProjectKept
  <1> QED
    BY <1>3, <1>7, <1>8, <1>10, <1>11, <1>12 DEF IInv, LockInv

LEMMA EnterRLockKeeps ==
    ASSUME IInv, NEW r \in Request, EnterRLock(r)
    PROVE  IInv'
  <1>1. /\ At(r, "rlock") /\ writer = None /\ announced = None
        /\ readers' = [readers EXCEPT ![r] = @ + 1] /\ Continue(r)
        /\ UNCHANGED <<projectLock, writer, announced, queue, data, local>>
    BY DEF EnterRLock
  <1>2. Moves({r}) /\ NextOf(r) = "rlock"
    BY <1>1, MovesAlone DEF IInv, Instruction
  <1>3. /\ CodeInv' /\ DataInv' /\ ReadInv'
        /\ todo' \in [Request -> Seq(Instruction)]
        /\ state' \in Snapshot /\ events' \in Seq(Event)
        /\ stored' \in [projection : Snapshot, log : Seq(Event)]
        /\ local' \in [Request -> Local]
    BY <1>1, <1>2, DataKept DEF AboutLocks
  <1>4. \A q \in Request : KindOf(q)' = KindOf(q)
    BY <1>1 DEF KindOf
  <1>5. /\ Follows(KindOf(r), "rlock", NextOf(r)', Len(todo[r]))
        /\ Len(todo'[r]) = Len(todo[r]) - 1
        /\ \A q \in Request \ {r} : todo'[q] = todo[q] /\ NextOf(q)' = NextOf(q)
    BY <1>2, <1>4, Moved DEF IInv, Instruction
  <1>6. NextOf(r)' \notin Holding
    BY <1>5 DEF Follows, Holding, Writing
  <1>7. Types'
    <2>1. readers' \in [Request -> Int]
      BY <1>1 DEF IInv, Types
    <2> QED
      BY <1>1, <1>3, <2>1 DEF IInv, Types
  <1>8. ReadersInv'
    BY <1>1, <1>2, <1>4, <1>5 DEF IInv, LockInv, Types, ReadersInv, Follows
  <1>9. WriterInv'
    <2>1. ASSUME NEW q \in Request, NextOf(q)' \in Writing
          PROVE  writer = q
      <3>1. q # r
        BY <1>6, <2>1 DEF Holding
      <3> QED
        BY <1>5, <2>1, <3>1 DEF IInv, LockInv, WriterInv
    <2> QED
      BY <1>1, <2>1, NoneAssumption DEF WriterInv
  <1>10. QueueInv'
    BY <1>1 DEF IInv, LockInv, QueueInv
  <1>11. ProjectInv'
    BY <1>1, <1>2, <1>4, <1>5, <1>6, ProjectKept DEF Holding, Writing
  <1> QED
    BY <1>3, <1>7, <1>8, <1>9, <1>10, <1>11 DEF IInv, LockInv

LEMMA QueueRLockKeeps ==
    ASSUME IInv, NEW r \in Request, QueueRLock(r)
    PROVE  IInv'
  <1>1. /\ At(r, "rlock")
        /\ writer # None \/ announced # None
        /\ queue' = queue \cup {r}
        /\ UNCHANGED <<todo, projectLock, writer, announced, readers, data, local>>
    BY DEF QueueRLock
  <1>2. NextOf(r) = "rlock"
    BY <1>1 DEF At, NextOf, Upcoming
  <1>3. /\ CodeInv' /\ DataInv' /\ ReadInv' /\ Types'
    BY <1>1, NobodyMoves, DataKept DEF IInv, Types
  <1>4. \A q \in Request : KindOf(q)' = KindOf(q) /\ NextOf(q)' = NextOf(q)
    BY <1>1 DEF KindOf, NextOf
  <1>5. ReadersInv' /\ QueueInv'
    BY <1>1, <1>2, <1>4 DEF IInv, LockInv, Types, ReadersInv, QueueInv
  <1>6. WriterInv'
    <2>1. announced # None => NextOf(announced)' = NextOf(announced)
      BY <1>1 DEF NextOf
    <2> QED
      BY <1>1, <1>4, <2>1 DEF IInv, LockInv, WriterInv
  <1>7. ProjectInv'
    BY <1>1, <1>4, ProjectKept
  <1> QED
    BY <1>3, <1>5, <1>6, <1>7 DEF IInv, LockInv

LEMMA RUnlockKeeps ==
    ASSUME IInv, NEW r \in Request, RUnlock(r)
    PROVE  IInv'
  <1>1. /\ At(r, "runlock") /\ readers' = [readers EXCEPT ![r] = @ - 1] /\ Continue(r)
        /\ UNCHANGED <<projectLock, writer, announced, queue, data, local>>
    BY DEF RUnlock
  <1>2. Moves({r}) /\ NextOf(r) = "runlock"
    BY <1>1, MovesAlone DEF IInv, Instruction
  <1>3. /\ CodeInv' /\ DataInv' /\ ReadInv'
        /\ todo' \in [Request -> Seq(Instruction)]
        /\ state' \in Snapshot /\ events' \in Seq(Event)
        /\ stored' \in [projection : Snapshot, log : Seq(Event)]
        /\ local' \in [Request -> Local]
    BY <1>1, <1>2, DataKept DEF AboutLocks
  <1>4. \A q \in Request : KindOf(q)' = KindOf(q)
    BY <1>1 DEF KindOf
  <1>5. /\ Follows(KindOf(r), "runlock", NextOf(r)', Len(todo[r]))
        /\ Len(todo'[r]) = Len(todo[r]) - 1
        /\ \A q \in Request \ {r} : todo'[q] = todo[q] /\ NextOf(q)' = NextOf(q)
    BY <1>2, <1>4, Moved DEF IInv, Instruction
  <1>6. NextOf(r)' \notin Holding
    BY <1>5 DEF Follows, Holding, Writing
  <1>7. Types'
    <2>1. readers' \in [Request -> Int]
      BY <1>1 DEF IInv, Types
    <2> QED
      BY <1>1, <1>3, <2>1 DEF IInv, Types
  <1>8. ReadersInv'
    BY <1>1, <1>2, <1>4, <1>5 DEF IInv, LockInv, Types, ReadersInv, Follows
  <1>9. readers[r] > 0 /\ writer = None
    BY <1>2, <1>5 DEF IInv, LockInv, ReadersInv, WriterInv, Follows, Inside
  <1>10. WriterInv'
    <2>1. announced # None => NextOf(announced)' = NextOf(announced)
      BY <1>1, <1>2, <1>5 DEF IInv, LockInv, WriterInv, Types
    <2>2. ASSUME NEW q \in Request, NextOf(q)' \in Writing
          PROVE  writer = q
      <3>1. q # r
        BY <1>6, <2>2 DEF Holding
      <3> QED
        BY <1>5, <2>2, <3>1 DEF IInv, LockInv, WriterInv
    <2>3. announced # None => NextOf(announced) = "lock"
      BY DEF IInv, LockInv, WriterInv
    <2> QED
      BY <1>1, <1>9, <2>1, <2>2, <2>3, NoneAssumption DEF WriterInv
  <1>11. QueueInv'
    BY <1>1, <1>2, <1>5 DEF IInv, LockInv, Types, QueueInv
  <1>12. ProjectInv'
    BY <1>1, <1>2, <1>4, <1>5, <1>6, ProjectKept DEF Holding, Writing
  <1> QED
    BY <1>3, <1>7, <1>8, <1>10, <1>11, <1>12 DEF IInv, LockInv

-----------------------------------------------------------------------------
(* The steps about data keep the invariant *)

LEMMA LocksKept ==
    ASSUME IInv, NEW r \in Request, UNCHANGED locks,
           NextOf(r) \notin {"lock", "rlock"},
           \A q \in Request : KindOf(q)' = KindOf(q),
           \A q \in Request \ {r} : todo'[q] = todo[q],
           Depth(KindOf(r), NextOf(r)', Len(todo'[r])) =
              Depth(KindOf(r), NextOf(r), Len(todo[r])),
           NextOf(r) \in Writing => NextOf(r)' \in Writing,
           NextOf(r)' \in Writing => NextOf(r) \in Writing,
           NextOf(r) \in Holding => NextOf(r)' \in Holding,
           NextOf(r)' \in Holding => NextOf(r) \in Holding
    PROVE  LockInv'
  <1>1. UNCHANGED <<projectLock, writer, announced, readers, queue>>
    BY DEF locks
  <1>2. \A q \in Request \ {r} : NextOf(q)' = NextOf(q)
    BY DEF NextOf
  <1>3. ReadersInv'
    BY <1>1, <1>2 DEF IInv, LockInv, ReadersInv
  <1>4. WriterInv'
    <2>1. announced # None => NextOf(announced)' = "lock"
      BY <1>1, <1>2 DEF IInv, LockInv, WriterInv, Types
    <2>2. ASSUME NEW q \in Request
          PROVE  /\ writer = q => NextOf(q)' \in Writing
                 /\ NextOf(q)' \in Writing => writer = q
      BY <1>2 DEF IInv, LockInv, WriterInv
    <2> QED
      BY <1>1, <2>1, <2>2 DEF IInv, LockInv, WriterInv
  <1>5. QueueInv'
    BY <1>1, <1>2 DEF IInv, LockInv, Types, QueueInv
  <1>6. ProjectInv'
    BY <1>1, <1>2, ProjectKept
  <1> QED
    BY <1>3, <1>4, <1>5, <1>6 DEF LockInv

\* Only one request is inside of a write, and nobody while there are readers.
LEMMA Alone ==
    ASSUME IInv, NEW r \in Request, NextOf(r) \in Writing
    PROVE  \A q \in Request \ {r} : NextOf(q) \notin Writing
  BY DEF IInv, LockInv, WriterInv

LEMMA NobodyWrites ==
    ASSUME IInv, NEW r \in Request, readers[r] > 0
    PROVE  /\ \A q \in Request : NextOf(q) \notin Writing
           /\ stored = [projection |-> state, log |-> events]
  <1>1. writer = None
    BY DEF IInv, LockInv, WriterInv
  <1>2. \A q \in Request : NextOf(q) \notin Writing
    BY <1>1, NoneAssumption DEF IInv, LockInv, WriterInv
  <1> QED
    BY <1>2 DEF IInv, DataInv, Writing

\* A step of a request that is not about to write leaves what is known of the data.
LEMMA DataSame ==
    ASSUME IInv, NEW r \in Request, UNCHANGED data,
           NextOf(r) \notin {"store", "commit"}, NextOf(r)' \notin {"store", "commit"},
           \A q \in Request \ {r} : todo'[q] = todo[q] /\ local'[q] = local[q]
    PROVE  DataInv'
  <1>1. UNCHANGED <<state, events, stored>>
    BY DEF data
  <1>2. \A q \in Request \ {r} : NextOf(q)' = NextOf(q) /\ NewEvent(q)' = NewEvent(q)
    BY <1>1 DEF NextOf, NewEvent, KindOf
  <1> QED
    BY <1>1, <1>2 DEF IInv, DataInv, Counted, Numbered

\* What a request alone has changed of what was read.
LEMMA ReadKept ==
    ASSUME IInv, NEW r \in Request, UNCHANGED events,
           \A q \in Request \ {r} : todo'[q] = todo[q] /\ local'[q] = local[q],
           local'[r].head <= Len(events), local'[r].checks,
           KindOf(r)' = "freeze" /\ Len(todo'[r]) <= 8 => local'[r].head > 0,
           KindOf(r)' = "verify" /\ Len(todo'[r]) \in 2..10 => local'[r].result = "ok",
           KindOf(r)' = "verify" /\ local'[r].result = "ok" =>
              local'[r].snapshot.anchor \in 1..Len(events)
    PROVE  ReadInv'
  <1>1. \A q \in Request \ {r} : KindOf(q)' = KindOf(q)
    BY DEF KindOf
  <1> QED
    BY <1>1 DEF IInv, ReadInv

LEMMA DataTypes ==
    ASSUME IInv
    PROVE  /\ Len(events) \in 1..MaxEvents /\ MaxEvents \in Nat
           /\ \A r \in Request : local[r] \in Local /\ local[r].head \in 0..Len(events)
           /\ state.frozen => state.anchor \in 1..Len(events)
  BY BoundAssumption DEF IInv, Types, DataInv, Counted, ReadInv, Local

\* The instructions that only read go on to one that does not write.
Reading == {"head", "events", "audit", "anchor", "projection"}

LEMMA ReadingKeeps ==
    ASSUME IInv, NEW r \in Request, NEW x \in Reading, At(r, x), Continue(r),
           UNCHANGED <<locks, data>>,
           NEW new, local' = [local EXCEPT ![r] = new], new \in Local,
           new.kind = local[r].kind, new.result = local[r].result,
           new.snapshot = local[r].snapshot,
           new.head \in 0..Len(events), new.checks,
           new.head >= local[r].head, x = "head" => new.head > 0
    PROVE  IInv'
  <1>1. Moves({r}) /\ NextOf(r) = x
    BY MovesAlone DEF IInv, Instruction, Reading
  <1>2. /\ local' \in [Request -> Local] /\ local'[r] = new
        /\ \A q \in Request \ {r} : local'[q] = local[q]
    BY DEF IInv, Types
  <1>3. \A q \in Request : KindOf(q)' = KindOf(q)
    BY <1>2 DEF KindOf
  <1>4. /\ Follows(KindOf(r), x, NextOf(r)', Len(todo[r])) /\ Len(todo[r]) \in 1..12
        /\ Len(todo'[r]) = Len(todo[r]) - 1
        /\ \A q \in Request \ {r} : todo'[q] = todo[q]
        /\ todo' \in [Request -> Seq(Instruction)] /\ CodeInv'
    BY <1>1, <1>3, Moved DEF IInv, Instruction, Reading
  <1>5. /\ x \notin {"lock", "rlock", "runlock", "snapshot"}
        /\ x \notin Writing /\ x \notin Holding
        /\ NextOf(r)' \notin Writing /\ NextOf(r)' \notin Holding
    BY <1>4 DEF Follows, Reading, Writing, Holding
  <1>6. Types'
    BY <1>2, <1>4 DEF IInv, Types, locks, data
  <1>7. LockInv'
    <2>1. Depth(KindOf(r), NextOf(r)', Len(todo'[r])) =
             Depth(KindOf(r), NextOf(r), Len(todo[r]))
      BY <1>1, <1>4, <1>5 DEF Follows
    <2> QED
      BY <1>1, <1>3, <1>4, <1>5, <2>1, LocksKept
  <1>8. DataInv'
    BY <1>1, <1>2, <1>4, <1>5, DataSame DEF Writing
  <1>9. ReadInv'
    <2>1. ASSUME KindOf(r) = "freeze", Len(todo'[r]) <= 8
          PROVE  new.head > 0
      <3>1. Len(todo[r]) <= 8 \/ x = "head"
        BY <1>4, <2>1 DEF Follows
      <3>2. Len(todo[r]) <= 8 => local[r].head > 0
        BY <2>1 DEF IInv, ReadInv
      <3>3. local[r].head \in Int /\ new.head \in Int
        BY DataTypes
      <3> QED
        BY <3>1, <3>2, <3>3
    <2>2. KindOf(r) = "verify" /\ Len(todo'[r]) \in 2..10 => new.result = "ok"
      BY <1>1, <1>4, <1>5 DEF Follows, IInv, ReadInv
    <2>3. KindOf(r) = "verify" /\ new.result = "ok" => new.snapshot.anchor \in 1..Len(events)
      BY DEF IInv, ReadInv
    <2>4. new.head <= Len(events) /\ UNCHANGED events
      BY DataTypes DEF data
    <2> QED
      BY <1>2, <1>3, <1>4, <2>1, <2>2, <2>3, <2>4, ReadKept
  <1> QED
    BY <1>4, <1>6, <1>7, <1>8, <1>9 DEF IInv

LEMMA ReadHeadKeeps ==
    ASSUME IInv, NEW r \in Request, ReadHead(r)
    PROVE  IInv'
  <1> DEFINE new == [local[r] EXCEPT !.head = Len(events)]
  <1>1. /\ At(r, "head") /\ Continue(r) /\ UNCHANGED <<locks, data>>
        /\ local' = [local EXCEPT ![r] = new]
    BY DEF ReadHead
  <1>2. /\ new \in Local /\ new.kind = local[r].kind /\ new.result = local[r].result
        /\ new.snapshot = local[r].snapshot /\ new.head = Len(events)
        /\ new.checks = local[r].checks
    BY DataTypes DEF Local
  <1>3. /\ new.head \in 0..Len(events) /\ new.head > 0 /\ new.head >= local[r].head
        /\ new.checks
    BY <1>2, DataTypes DEF IInv, ReadInv
  <1> HIDE DEF new
  <1> QED
    BY <1>1, <1>2, <1>3, ReadingKeeps DEF Reading

LEMMA ReadEventsKeeps ==
    ASSUME IInv, NEW r \in Request, ReadEvents(r)
    PROVE  IInv'
  <1> DEFINE found == {events[i] : i \in {j \in DOMAIN events : events[j].type = "frozen"}}
             new   == [local[r] EXCEPT !.events = found]
  <1>1. /\ At(r, "events") /\ Continue(r) /\ UNCHANGED <<locks, data>>
        /\ local' = [local EXCEPT ![r] = new]
    BY DEF ReadEvents
  <1>2. found \in SUBSET Event
    BY DEF IInv, Types
  <1> HIDE DEF found
  <1>3. /\ new \in Local /\ new.kind = local[r].kind /\ new.result = local[r].result
        /\ new.snapshot = local[r].snapshot /\ new.head = local[r].head
        /\ new.checks = local[r].checks
    BY <1>2, DataTypes DEF Local
  <1>4. /\ new.head \in 0..Len(events) /\ new.head >= local[r].head /\ new.checks
    BY <1>3, DataTypes DEF IInv, ReadInv
  <1> HIDE DEF new
  <1> QED
    BY <1>1, <1>3, <1>4, ReadingKeeps DEF Reading

\* A check of Verify that holds.
LEMMA CheckKeeps ==
    ASSUME IInv, NEW r \in Request, NEW x \in {"audit", "anchor", "projection"},
           NEW holds, holds = TRUE, Check(r, x, holds)
    PROVE  IInv'
  <1> DEFINE new == [local[r] EXCEPT !.checks = TRUE]
  <1>1. local[r].checks = TRUE /\ local[r] \in Local
    BY DataTypes DEF IInv, ReadInv, Local
  <1>2. /\ At(r, x) /\ Continue(r) /\ UNCHANGED <<locks, data>>
        /\ local' = [local EXCEPT ![r] = new]
    BY <1>1 DEF Check
  <1>3. /\ new \in Local /\ new.kind = local[r].kind /\ new.result = local[r].result
        /\ new.snapshot = local[r].snapshot /\ new.head = local[r].head
        /\ new.checks = TRUE
    BY <1>1 DEF Local
  <1>4. /\ new.head \in 0..Len(events) /\ new.head >= local[r].head /\ new.checks
    BY <1>3, DataTypes
  <1> HIDE DEF new
  <1> QED
    BY <1>2, <1>3, <1>4, ReadingKeeps DEF Reading

LEMMA ChecksKeep ==
    ASSUME IInv, NEW r \in Request, CheckAudit(r) \/ CheckAnchor(r) \/ CheckProjection(r)
    PROVE  IInv'
  <1>1. ChainHolds = TRUE
    BY DEF ChainHolds, IInv, DataInv, Numbered
  <1>2. CASE CheckAudit(r)
    BY <1>1, <1>2, CheckKeeps DEF CheckAudit
  <1>3. CASE CheckAnchor(r)
    <2>1. At(r, "anchor")
      BY <1>3 DEF CheckAnchor, Check
    <2>2. KindOf(r) = "verify" /\ local[r].result = "ok"
      BY <2>1, OnItsWay DEF Follows, IInv, ReadInv
    <2>3. local[r].snapshot.anchor \in DOMAIN stored.log
      BY <2>2, DataTypes DEF IInv, ReadInv, DataInv, Types
    <2>4. (ChainHolds /\ local[r].snapshot.anchor \in DOMAIN stored.log) = TRUE
      BY <1>1, <2>3
    <2> QED
      BY <1>3, <2>4, CheckKeeps DEF CheckAnchor
  <1>4. CASE CheckProjection(r)
    <2>1. At(r, "projection")
      BY <1>4 DEF CheckProjection, Check
    <2>2. readers[r] > 0
      BY <2>1, OnItsWay DEF Follows, Inside, IInv, LockInv, ReadersInv
    <2>3. (stored.projection = state) = TRUE
      BY <2>2, NobodyWrites
    <2> QED
      BY <1>4, <2>3, CheckKeeps DEF CheckProjection
  <1> QED
    BY <1>2, <1>3, <1>4

\* What an error leaves of the code.
LEMMA EndsOfCode ==
    ASSUME NEW k \in Kind
    PROVE  /\ k \notin {"edit", "freeze"} => <<"runlock">> = Rest(k, Len(Program(k)))
           /\ k \in {"edit", "freeze"} => DeferredUnlocks = Rest(k, Len(Program(k)) - 1)
  <1> DEFINE n == Len(Program(k))
             code == Program(k)
  <1>1. code \in Seq(Instruction) /\ n \in {6, 7, 10, 12} /\ n = Len(code)
    BY ProgramType
  <1>2. k \notin {"edit", "freeze"} => code[n] = "runlock"
    <2>1. CASE k = "preview"
      BY <2>1 DEF Program
    <2>2. CASE k = "export"
      BY <2>2 DEF Program
    <2>3. CASE k = "item"
      BY <2>3 DEF Program
    <2>4. CASE k = "verify"
      BY <2>4 DEF Program
    <2> QED
      BY <2>1, <2>2, <2>3, <2>4 DEF Kind
  <1>3. k \in {"edit", "freeze"} => code[n - 1] = "unlock" /\ code[n] = "project unlock"
    <2>1. CASE k = "edit"
      <3>1. n = 7
        BY <2>1 DEF Program, Transaction
      <3>2. code[6] = "unlock" /\ code[7] = "project unlock"
        BY <2>1 DEF Program, Transaction
      <3> HIDE DEF n, code
      <3>3. n - 1 = 6
        BY <3>1
      <3> QED
        BY <3>1, <3>2, <3>3
    <2>2. CASE k = "freeze"
      <3>1. n = 10
        BY <2>2 DEF Program
      <3>2. code[9] = "unlock" /\ code[10] = "project unlock"
        BY <2>2 DEF Program
      <3> HIDE DEF n, code
      <3>3. n - 1 = 9
        BY <3>1
      <3> QED
        BY <3>1, <3>2, <3>3
    <2> QED
      BY <2>1, <2>2
  <1> HIDE DEF n, code
  <1>4. ASSUME NEW i \in {n - 1, n}
        PROVE  /\ SubSeq(code, i, n) \in Seq(Instruction) /\ Len(SubSeq(code, i, n)) = n - i + 1
               /\ \A j \in 1..(n - i + 1) : SubSeq(code, i, n)[j] = code[i + j - 1]
    <2>1. i \in Int /\ n \in Int /\ i <= n /\ i >= 1
      <3>1. n \in Int /\ n >= 6
        BY <1>1
      <3> QED
        BY <1>4, <3>1
    <2>2. \A j \in i..n : code[j] \in Instruction
      BY <1>1, <2>1, ElementOfSeq
    <2> QED
      BY <2>1, <2>2, SubSeqProperties
  <1>5. PICK last : last = SubSeq(code, n, n)
    OBVIOUS
  <1>6. last \in Seq(Instruction) /\ Len(last) = 1 /\ last[1] = code[n]
    BY <1>1, <1>4, <1>5
  <1>7. PICK two : two = SubSeq(code, n - 1, n)
    OBVIOUS
  <1>8. two \in Seq(Instruction) /\ Len(two) = 2 /\ two[1] = code[n - 1] /\ two[2] = code[n]
    BY <1>1, <1>4, <1>7
  <1>9. k \notin {"edit", "freeze"} => last = <<"runlock">>
    BY <1>2, <1>6
  <1>10. k \in {"edit", "freeze"} => two = <<"unlock", "project unlock">>
    <2>1. two = <<two[1], two[2]>>
      BY <1>8
    <2> QED
      BY <1>3, <1>8, <2>1
  <1> QED
    BY <1>5, <1>7, <1>9, <1>10 DEF Rest, DeferredUnlocks, n, code

LEMMA ReadSnapshotKeeps ==
    ASSUME IInv, NEW r \in Request, ReadSnapshot(r)
    PROVE  IInv'
  <1>1. At(r, "snapshot") /\ UNCHANGED <<locks, data>> /\ UNCHANGED <<state, events, stored>>
    BY DEF ReadSnapshot, data
  <1>2. /\ KindOf(r) \in Kind /\ NextOf(r) = "snapshot"
        /\ Follows(KindOf(r), "snapshot", Upcoming(Tail(todo[r])), Len(todo[r]))
        /\ Len(todo[r]) \in 1..12
    BY <1>1, OnItsWay DEF IInv
  <1>3. /\ local[r] \in Local /\ local[r].head \in 0..Len(events) /\ local[r].checks
        /\ state \in Snapshot
    BY DataTypes DEF IInv, ReadInv, Types
  <1>4. KindOf(r) \notin {"edit", "freeze"} /\ Depth(KindOf(r), "snapshot", Len(todo[r])) = 1
    BY <1>2 DEF Follows
  <1>5. CASE Accepts(KindOf(r))
    <2> DEFINE new == [local[r] EXCEPT !.snapshot = state, !.result = "ok"]
    <2>1. local' = [local EXCEPT ![r] = new] /\ Continue(r)
      BY <1>3, <1>5 DEF ReadSnapshot, IInv, Types
    <2>2. /\ new \in Local /\ new.kind = local[r].kind /\ new.result = "ok"
          /\ new.snapshot = state /\ new.head = local[r].head /\ new.checks = local[r].checks
      BY <1>3 DEF Local
    <2> HIDE DEF new
    <2>3. /\ local' \in [Request -> Local] /\ local'[r] = new
          /\ \A q \in Request \ {r} : local'[q] = local[q]
      BY <2>1, <2>2 DEF IInv, Types
    <2>4. \A q \in Request : KindOf(q)' = KindOf(q)
      BY <2>2, <2>3 DEF KindOf
    <2>5. Moves({r})
      BY <1>1, <2>1, MovesAlone DEF IInv, Instruction
    <2>6. /\ Follows(KindOf(r), "snapshot", NextOf(r)', Len(todo[r]))
          /\ Len(todo'[r]) = Len(todo[r]) - 1
          /\ \A q \in Request \ {r} : todo'[q] = todo[q]
          /\ todo' \in [Request -> Seq(Instruction)] /\ CodeInv'
      BY <1>2, <2>4, <2>5, Moved DEF IInv, Instruction
    <2>7. NextOf(r)' \notin Writing /\ NextOf(r)' \notin Holding
      BY <2>6 DEF Follows, Writing, Holding
    <2>8. Types'
      BY <1>1, <2>3, <2>6 DEF IInv, Types, locks
    <2>9. LockInv'
      <3>1. Depth(KindOf(r), NextOf(r)', Len(todo'[r])) =
               Depth(KindOf(r), NextOf(r), Len(todo[r]))
        BY <1>2, <2>6 DEF Follows
      <3>2. NextOf(r) \notin Writing /\ NextOf(r) \notin Holding
        BY <1>2 DEF Writing, Holding
      <3> QED
        BY <1>1, <1>2, <2>4, <2>6, <2>7, <3>1, <3>2, LocksKept
    <2>10. DataInv'
      BY <1>1, <1>2, <2>3, <2>6, <2>7, DataSame DEF Writing
    <2>11. ReadInv'
      <3>1. KindOf(r) = "verify" => new.snapshot.anchor \in 1..Len(events)
        BY <1>5, <2>2, DataTypes DEF Accepts
      <3>2. local'[r].head <= Len(events) /\ local'[r].checks
        <4>1. local'[r].head = local[r].head /\ local'[r].checks = local[r].checks
          BY <2>2, <2>3
        <4>2. local'[r].checks
          BY <1>3, <4>1
        <4>3. local[r].head <= Len(events)
          BY DEF IInv, ReadInv
        <4> QED
          BY <4>1, <4>2, <4>3
      <3>3. KindOf(r)' = KindOf(r) /\ KindOf(r) # "freeze"
        BY <1>4, <2>4
      <3>4. /\ local'[r].result = "ok"
            /\ KindOf(r) = "verify" => local'[r].snapshot.anchor \in 1..Len(events)
        BY <2>2, <2>3, <3>1
      <3> QED
        BY <1>1, <2>3, <2>6, <3>2, <3>3, <3>4, ReadKept
    <2> QED
      BY <2>6, <2>8, <2>9, <2>10, <2>11 DEF IInv
  <1>6. CASE ~Accepts(KindOf(r))
    <2> DEFINE new == [local[r] EXCEPT !.result = "refused"]
    <2>1. local' = [local EXCEPT ![r] = new] /\ todo' = [todo EXCEPT ![r] = <<"runlock">>]
      BY <1>6 DEF ReadSnapshot
    <2>2. /\ new \in Local /\ new.kind = local[r].kind /\ new.result = "refused"
          /\ new.head = local[r].head /\ new.checks = local[r].checks
      BY <1>3 DEF Local
    <2> HIDE DEF new
    <2>3. /\ local' \in [Request -> Local] /\ local'[r] = new
          /\ \A q \in Request \ {r} : local'[q] = local[q]
      BY <2>1, <2>2 DEF IInv, Types
    <2>4. \A q \in Request : KindOf(q)' = KindOf(q)
      BY <2>2, <2>3 DEF KindOf
    <2>5. PICK end : end = <<"runlock">>
      OBVIOUS
    <2>6. /\ end \in Seq(Instruction) /\ Len(end) = 1 /\ Upcoming(end) = "runlock"
          /\ end = Rest(KindOf(r), Len(Program(KindOf(r))))
      <3>1. "runlock" \in Instruction
        BY DEF Instruction
      <3>2. end \in Seq(Instruction) /\ Len(end) = 1
        BY <2>5, <3>1
      <3>3. Upcoming(end) = "runlock"
        BY <2>5 DEF Upcoming
      <3>4. end = Rest(KindOf(r), Len(Program(KindOf(r))))
        BY <1>2, <1>4, <2>5, EndsOfCode
      <3> QED
        BY <3>2, <3>3, <3>4
    <2>7. /\ todo' \in [Request -> Seq(Instruction)] /\ todo'[r] = end
          /\ \A q \in Request \ {r} : todo'[q] = todo[q]
          /\ NextOf(r)' = "runlock" /\ Len(todo'[r]) = 1
      BY <2>1, <2>5, <2>6 DEF IInv, Types, NextOf
    <2>8. CodeInv'
      <3>1. PICK n \in {6, 7, 10, 12} : n = Len(Program(KindOf(r)))
        BY <1>2, ProgramType
      <3>2. n \in 1..(n + 1)
        BY <3>1
      <3> QED
        BY <1>2, <2>4, <2>6, <2>7, <3>1, <3>2 DEF IInv, CodeInv
    <2>9. Types'
      BY <1>1, <2>3, <2>7 DEF IInv, Types, locks
    <2>10. LockInv'
      <3>1. Depth(KindOf(r), NextOf(r)', Len(todo'[r])) =
               Depth(KindOf(r), NextOf(r), Len(todo[r]))
        <4>1. Depth(KindOf(r), "runlock", 1) = 1
          BY DEF Depth, Inside
        <4> QED
          BY <1>2, <1>4, <2>7, <4>1
      <3> QED
        BY <1>1, <1>2, <2>4, <2>7, <3>1, LocksKept DEF Writing, Holding
    <2>11. DataInv'
      BY <1>1, <1>2, <2>3, <2>7, DataSame
    <2>12. ReadInv'
      <3>1. local'[r].head <= Len(events) /\ local'[r].checks
        <4>1. local'[r].head = local[r].head /\ local'[r].checks = local[r].checks
          BY <2>2, <2>3
        <4>2. local'[r].checks
          BY <1>3, <4>1
        <4>3. local[r].head <= Len(events)
          BY DEF IInv, ReadInv
        <4> QED
          BY <4>1, <4>2, <4>3
      <3>2. KindOf(r)' = KindOf(r) /\ KindOf(r) # "freeze"
        BY <1>4, <2>4
      <3>3. local'[r].result = "refused" /\ Len(todo'[r]) \notin 2..10
        BY <2>2, <2>3, <2>7
      <3> QED
        BY <1>1, <2>3, <2>7, <3>1, <3>2, <3>3, ReadKept
    <2> QED
      BY <2>8, <2>9, <2>10, <2>11, <2>12 DEF IInv
  <1> QED
    BY <1>5, <1>6

\* The command runs on a copy, or the request leaves through the deferred unlocks.
LEMMA RunKeeps ==
    ASSUME IInv, NEW r \in Request, Run(r)
    PROVE  IInv'
  <1>1. At(r, "run") /\ UNCHANGED <<locks, data>> /\ UNCHANGED <<state, events, stored>>
    BY DEF Run, data
  <1>2. /\ KindOf(r) \in Kind /\ NextOf(r) = "run"
        /\ Follows(KindOf(r), "run", Upcoming(Tail(todo[r])), Len(todo[r]))
        /\ Len(todo[r]) \in 1..12
    BY <1>1, OnItsWay DEF IInv
  <1>3. /\ local[r] \in Local /\ local[r].head \in 0..Len(events) /\ local[r].checks
        /\ state \in Snapshot /\ Len(events) \in 1..MaxEvents /\ MaxEvents \in Nat
    BY DataTypes DEF IInv, ReadInv, Types
  <1>4. /\ KindOf(r) \in {"edit", "freeze"} /\ Depth(KindOf(r), "run", Len(todo[r])) = 0
        /\ KindOf(r) = "freeze" => local[r].head > 0
    BY <1>2 DEF Follows, Holding, Writing, IInv, ReadInv
  <1>5. \A q \in Request \ {r} : NextOf(q) \notin Writing
    BY <1>2, Alone DEF Writing
  <1>6. CASE CanRun(r)
    <2> DEFINE change == IF KindOf(r) = "freeze"
                         THEN [state EXCEPT !.frozen = TRUE, !.anchor = local[r].head]
                         ELSE [state EXCEPT !.edits = @ + 1]
               new == [local[r] EXCEPT !.result = "ok", !.snapshot = change]
    <2>1. local' = [local EXCEPT ![r] = new] /\ Continue(r)
      BY <1>3, <1>6 DEF Run, IInv, Types
    <2>2. /\ KindOf(r) = "freeze" => ~state.frozen
          /\ Len(events) < MaxEvents
      BY <1>6 DEF CanRun
    <2>3. Counted(state, Len(events)) /\ state.edits \in Nat /\ state.edits <= Len(events)
      BY <1>3 DEF IInv, DataInv, Counted, Snapshot
    <2>4. change \in Snapshot /\ Counted(change, Len(events) + 1)
      <3>1. CASE KindOf(r) = "freeze"
        <4>1. change = [state EXCEPT !.frozen = TRUE, !.anchor = local[r].head]
          BY <3>1
        <4>2. local[r].head \in 0..MaxEvents
          BY <1>3 DEF Local
        <4>3. /\ change \in Snapshot /\ change.frozen
              /\ change.anchor = local[r].head /\ change.edits = state.edits
          BY <1>3, <4>1, <4>2 DEF Snapshot
        <4>4. Len(events) = state.edits
          BY <2>2, <2>3, <3>1 DEF Counted
        <4> HIDE DEF change
        <4> QED
          BY <1>3, <1>4, <3>1, <4>3, <4>4 DEF Counted
      <3>2. CASE KindOf(r) # "freeze"
        <4>1. change = [state EXCEPT !.edits = state.edits + 1]
          BY <3>2
        <4>2. state.edits + 1 \in 0..MaxEvents
          BY <1>3, <2>2, <2>3
        <4>3. /\ change \in Snapshot /\ change.frozen = state.frozen
              /\ change.anchor = state.anchor /\ change.edits = state.edits + 1
          BY <1>3, <4>1, <4>2 DEF Snapshot
        <4> HIDE DEF change
        <4> QED
          BY <1>3, <2>3, <4>3 DEF Counted
      <3> QED
        BY <3>1, <3>2
    <2> HIDE DEF change
    <2>5. /\ new \in Local /\ new.kind = local[r].kind /\ new.result = "ok"
          /\ new.snapshot = change /\ new.head = local[r].head /\ new.checks = local[r].checks
      BY <1>3, <2>4 DEF Local
    <2> HIDE DEF new
    <2>6. /\ local' \in [Request -> Local] /\ local'[r] = new
          /\ \A q \in Request \ {r} : local'[q] = local[q]
      BY <2>1, <2>5 DEF IInv, Types
    <2>7. \A q \in Request : KindOf(q)' = KindOf(q)
      BY <2>5, <2>6 DEF KindOf
    <2>8. Moves({r})
      BY <1>1, <2>1, MovesAlone DEF IInv, Instruction
    <2>9. /\ Follows(KindOf(r), "run", NextOf(r)', Len(todo[r]))
          /\ Len(todo'[r]) = Len(todo[r]) - 1
          /\ \A q \in Request \ {r} : todo'[q] = todo[q] /\ NextOf(q)' = NextOf(q)
          /\ todo' \in [Request -> Seq(Instruction)] /\ CodeInv'
      BY <1>2, <2>7, <2>8, Moved DEF IInv, Instruction
    <2>10. NextOf(r)' = "store"
      BY <2>9 DEF Follows
    <2>11. Types'
      BY <1>1, <2>6, <2>9 DEF IInv, Types, locks
    <2>12. LockInv'
      <3>1. Depth(KindOf(r), NextOf(r)', Len(todo'[r])) =
               Depth(KindOf(r), NextOf(r), Len(todo[r]))
        BY <1>2, <2>9 DEF Follows
      <3> QED
        BY <1>1, <1>2, <2>7, <2>9, <2>10, <3>1, LocksKept DEF Writing, Holding
    <2>13. DataInv'
      <3>1. \A q \in Request : NextOf(q) # "commit" /\ NextOf(q)' # "commit"
        BY <1>2, <1>5, <2>9, <2>10 DEF Writing
      <3>2. stored = [projection |-> state, log |-> events]
        BY <3>1 DEF IInv, DataInv
      <3>3. \A q \in Request : NextOf(q)' = "store" => q = r
        BY <1>5, <2>9 DEF Writing
      <3> QED
        BY <1>1, <2>2, <2>4, <2>5, <2>6, <3>1, <3>2, <3>3 DEF IInv, DataInv, Counted, Numbered
    <2>14. ReadInv'
      <3>1. local'[r].head <= Len(events) /\ local'[r].checks
        <4>1. local'[r].head = local[r].head /\ local'[r].checks = local[r].checks
          BY <2>5, <2>6
        <4>2. local'[r].checks
          BY <1>3, <4>1
        <4>3. local[r].head <= Len(events)
          BY DEF IInv, ReadInv
        <4> QED
          BY <4>1, <4>2, <4>3
      <3>2. KindOf(r)' = KindOf(r) /\ KindOf(r) # "verify"
        BY <1>4, <2>7
      <3>3. KindOf(r) = "freeze" => local'[r].head > 0
        BY <1>4, <2>5, <2>6
      <3> QED
        BY <1>1, <2>6, <2>9, <3>1, <3>2, <3>3, ReadKept
    <2> QED
      BY <2>9, <2>11, <2>12, <2>13, <2>14 DEF IInv
  <1>7. CASE ~CanRun(r)
    <2> DEFINE new == [local[r] EXCEPT !.result = "refused"]
    <2>1. local' = [local EXCEPT ![r] = new] /\ todo' = [todo EXCEPT ![r] = <<"unlock", "project unlock">>]
      BY <1>7 DEF Run, DeferredUnlocks
    <2>2. /\ new \in Local /\ new.kind = local[r].kind /\ new.result = "refused"
          /\ new.head = local[r].head /\ new.checks = local[r].checks
      BY <1>3 DEF Local
    <2> HIDE DEF new
    <2>3. /\ local' \in [Request -> Local] /\ local'[r] = new
          /\ \A q \in Request \ {r} : local'[q] = local[q]
      BY <2>1, <2>2 DEF IInv, Types
    <2>4. \A q \in Request : KindOf(q)' = KindOf(q)
      BY <2>2, <2>3 DEF KindOf
    <2>5. PICK end : end = <<"unlock", "project unlock">>
      OBVIOUS
    <2>6. /\ end \in Seq(Instruction) /\ Len(end) = 2 /\ Upcoming(end) = "unlock"
          /\ end = Rest(KindOf(r), Len(Program(KindOf(r))) - 1)
      <3>1. PICK n \in {7, 10} : n = Len(Program(KindOf(r))) /\ Program(KindOf(r))[n - 1] = "unlock"
        <4>1. CASE KindOf(r) = "edit"
          <5>1. Program("edit")[6] = "unlock" /\ Len(Program("edit")) = 7
            BY DEF Program, Transaction
          <5> QED
            BY <4>1, <5>1
        <4>2. CASE KindOf(r) = "freeze"
          <5>1. Program("freeze")[9] = "unlock" /\ Len(Program("freeze")) = 10
            BY DEF Program
          <5> QED
            BY <4>2, <5>1
        <4> QED
          BY <1>4, <4>1, <4>2
      <3>2. n - 1 \in 1..n /\ n + 1 - (n - 1) = 2
        BY <3>1
      <3>3. end = Rest(KindOf(r), n - 1)
        BY <1>2, <1>4, <2>5, <3>1, EndsOfCode DEF DeferredUnlocks
      <3>4. /\ end \in Seq(Instruction) /\ end # <<>> /\ Len(end) = 2
            /\ Head(end) = "unlock"
        BY <1>2, <3>1, <3>2, <3>3, RestIs
      <3>5. Upcoming(end) = "unlock"
        BY <3>4 DEF Upcoming
      <3> QED
        BY <3>1, <3>3, <3>4, <3>5
    <2>7. /\ todo' \in [Request -> Seq(Instruction)] /\ todo'[r] = end
          /\ \A q \in Request \ {r} : todo'[q] = todo[q] /\ NextOf(q)' = NextOf(q)
          /\ NextOf(r)' = "unlock" /\ Len(todo'[r]) = 2
      BY <2>1, <2>5, <2>6 DEF IInv, Types, NextOf
    <2>8. CodeInv'
      <3>1. PICK n \in {6, 7, 10, 12} : n = Len(Program(KindOf(r)))
        BY <1>2, ProgramType
      <3>2. n - 1 \in 1..(n + 1)
        BY <3>1
      <3> QED
        BY <1>2, <2>4, <2>6, <2>7, <3>1, <3>2 DEF IInv, CodeInv
    <2>9. Types'
      BY <1>1, <2>3, <2>7 DEF IInv, Types, locks
    <2>10. LockInv'
      <3>1. Depth(KindOf(r), NextOf(r)', Len(todo'[r])) =
               Depth(KindOf(r), NextOf(r), Len(todo[r]))
        <4>1. Depth(KindOf(r), "unlock", 2) = 0
          BY <1>4 DEF Depth, Inside
        <4> QED
          BY <1>2, <1>4, <2>7, <4>1
      <3> QED
        BY <1>1, <1>2, <2>4, <2>7, <3>1, LocksKept DEF Writing, Holding
    <2>11. DataInv'
      BY <1>1, <1>2, <2>3, <2>7, DataSame
    <2>12. ReadInv'
      <3>1. local'[r].head <= Len(events) /\ local'[r].checks
        <4>1. local'[r].head = local[r].head /\ local'[r].checks = local[r].checks
          BY <2>2, <2>3
        <4>2. local'[r].checks
          BY <1>3, <4>1
        <4>3. local[r].head <= Len(events)
          BY DEF IInv, ReadInv
        <4> QED
          BY <4>1, <4>2, <4>3
      <3>2. KindOf(r)' = KindOf(r) /\ KindOf(r) # "verify"
        BY <1>4, <2>4
      <3>3. KindOf(r) = "freeze" => local'[r].head > 0
        BY <1>4, <2>2, <2>3
      <3> QED
        BY <1>1, <2>3, <2>7, <3>1, <3>2, <3>3, ReadKept
    <2> QED
      BY <2>8, <2>9, <2>10, <2>11, <2>12 DEF IInv
  <1> QED
    BY <1>6, <1>7


\* What the event of a request makes of the history.
LEMMA HistoryGrows ==
    ASSUME IInv, NEW r \in Request
    PROVE  /\ NewEvent(r) \in Event
           /\ Append(events, NewEvent(r)) \in Seq(Event)
           /\ Len(Append(events, NewEvent(r))) = Len(events) + 1
           /\ Numbered(Append(events, NewEvent(r)))
  <1>1. Len(events) \in 1..MaxEvents /\ events \in Seq(Event) /\ Numbered(events)
    BY DEF IInv, Types, DataInv
  <1>2. PICK e : e = NewEvent(r)
    OBVIOUS
  <1>3. e \in Event /\ e.sequence = Len(events) + 1
    BY <1>1, <1>2, BoundAssumption DEF NewEvent, Event
  <1>4. /\ Append(events, e) \in Seq(Event)
        /\ Len(Append(events, e)) = Len(events) + 1
        /\ \A i \in 1..Len(events) : Append(events, e)[i] = events[i]
        /\ Append(events, e)[Len(events) + 1] = e
    BY <1>1, <1>3, AppendProperties
  <1>5. Numbered(Append(events, e))
    <2>1. PICK log : log = Append(events, e)
      OBVIOUS
    <2>2. /\ DOMAIN log = 1..(Len(events) + 1)
          /\ \A i \in 1..Len(events) : log[i] = events[i]
          /\ log[Len(events) + 1] = e
      BY <1>4, <2>1
    <2>3. \A i \in 1..Len(events) : events[i].sequence = i
      BY <1>1 DEF Numbered
    <2>4. Numbered(log)
      BY <1>1, <1>3, <2>2, <2>3 DEF Numbered
    <2> QED
      BY <2>1, <2>4
  <1> QED
    BY <1>2, <1>3, <1>4, <1>5

\* The disk changes first.
LEMMA StoreKeeps ==
    ASSUME IInv, NEW r \in Request, Store(r)
    PROVE  IInv'
  <1>1. /\ At(r, "store") /\ Continue(r)
        /\ UNCHANGED <<locks, state, events, local>>
        /\ stored' = [projection |-> local[r].snapshot, log |-> Append(stored.log, NewEvent(r))]
    BY DEF Store
  <1>2. /\ Moves({r}) /\ NextOf(r) = "store"
    BY <1>1, MovesAlone DEF IInv, Instruction
  <1>3. \A q \in Request : KindOf(q)' = KindOf(q) /\ NewEvent(q)' = NewEvent(q)
    BY <1>1 DEF KindOf, NewEvent
  <1>4. /\ Follows(KindOf(r), "store", NextOf(r)', Len(todo[r]))
        /\ Len(todo[r]) \in 1..12 /\ Len(todo'[r]) = Len(todo[r]) - 1
        /\ \A q \in Request \ {r} : todo'[q] = todo[q] /\ NextOf(q)' = NextOf(q)
        /\ todo' \in [Request -> Seq(Instruction)] /\ CodeInv'
    BY <1>2, <1>3, Moved DEF IInv, Instruction
  <1>5. NextOf(r)' = "commit"
    BY <1>4 DEF Follows
  <1>6. \A q \in Request \ {r} : NextOf(q) \notin Writing
    BY <1>2, Alone DEF Writing
  <1>7. stored = [projection |-> state, log |-> events]
    <2>1. \A q \in Request : NextOf(q) # "commit"
      BY <1>2, <1>6 DEF Writing
    <2> QED
      BY <2>1 DEF IInv, DataInv
  <1>8. /\ stored' = [projection |-> local[r].snapshot, log |-> Append(events, NewEvent(r))]
        /\ stored'.log = Append(events, NewEvent(r))
        /\ local[r].snapshot \in Snapshot
    BY <1>1, <1>7 DEF IInv, Types, Local
  <1>9. Types'
    BY <1>1, <1>4, <1>8, HistoryGrows DEF IInv, Types, locks
  <1>10. LockInv'
    <2>1. Depth(KindOf(r), NextOf(r)', Len(todo'[r])) =
             Depth(KindOf(r), NextOf(r), Len(todo[r]))
      BY <1>2, <1>4 DEF Follows
    <2> QED
      BY <1>1, <1>2, <1>3, <1>4, <1>5, <2>1, LocksKept DEF Writing, Holding
  <1>11. DataInv'
    <2>1. \A q \in Request : NextOf(q)' \in {"store", "commit"} => q = r
      BY <1>4, <1>6 DEF Writing
    <2>2. Len(events) < MaxEvents /\ Counted(local[r].snapshot, Len(events) + 1)
      BY <1>2 DEF IInv, DataInv
    <2>3. /\ Len(events) \in 1..MaxEvents /\ Numbered(events)
          /\ Counted(state, Len(events))
      BY DEF IInv, DataInv
    <2>4. Numbered(stored.log)' /\ Len(events) <= Len(stored'.log)
      BY <1>8, <2>3, HistoryGrows DEF Numbered
    <2> QED
      BY <1>1, <1>3, <1>5, <1>8, <2>1, <2>2, <2>3, <2>4 DEF DataInv, Counted, Numbered
  <1>12. ReadInv'
    <2>1. KindOf(r) = "freeze" /\ Len(todo'[r]) <= 8 => local[r].head > 0
      BY <1>4 DEF Follows, IInv, ReadInv
    <2>2. KindOf(r) = "verify" /\ Len(todo'[r]) \in 2..10 => local[r].result = "ok"
      BY <1>4 DEF Follows, IInv, ReadInv
    <2>3. /\ local[r].head <= Len(events) /\ local[r].checks
          /\ KindOf(r) = "verify" /\ local[r].result = "ok" =>
                local[r].snapshot.anchor \in 1..Len(events)
      BY DEF IInv, ReadInv
    <2> QED
      BY <1>1, <1>3, <1>4, <2>1, <2>2, <2>3, ReadKept
  <1> QED
    BY <1>4, <1>9, <1>10, <1>11, <1>12 DEF IInv

\* Then the state in memory.
LEMMA CommitKeeps ==
    ASSUME IInv, NEW r \in Request, Commit(r)
    PROVE  IInv'
  <1>1. /\ At(r, "commit") /\ Continue(r)
        /\ UNCHANGED <<locks, stored, local>>
        /\ state' = local[r].snapshot /\ events' = Append(events, NewEvent(r))
    BY DEF Commit
  <1>2. /\ Moves({r}) /\ NextOf(r) = "commit"
    BY <1>1, MovesAlone DEF IInv, Instruction
  <1>3. \A q \in Request : KindOf(q)' = KindOf(q)
    BY <1>1 DEF KindOf
  <1>4. /\ Follows(KindOf(r), "commit", NextOf(r)', Len(todo[r]))
        /\ Len(todo[r]) \in 1..12 /\ Len(todo'[r]) = Len(todo[r]) - 1
        /\ \A q \in Request \ {r} : todo'[q] = todo[q] /\ NextOf(q)' = NextOf(q)
        /\ todo' \in [Request -> Seq(Instruction)] /\ CodeInv'
    BY <1>2, <1>3, Moved DEF IInv, Instruction
  <1>5. NextOf(r)' = "unlock"
    BY <1>4 DEF Follows
  <1>6. \A q \in Request \ {r} : NextOf(q) \notin Writing
    BY <1>2, Alone DEF Writing
  <1>7. /\ stored = [projection |-> local[r].snapshot, log |-> Append(events, NewEvent(r))]
        /\ Len(events) < MaxEvents /\ Counted(local[r].snapshot, Len(events) + 1)
    BY <1>2 DEF IInv, DataInv
  <1>8. /\ stored' = [projection |-> state', log |-> events']
        /\ events' \in Seq(Event) /\ state' \in Snapshot
        /\ Len(events') = Len(events) + 1 /\ Len(events) \in 1..MaxEvents
        /\ Numbered(events')
    BY <1>1, <1>7, HistoryGrows DEF IInv, Types, Local, DataInv
  <1>9. Types'
    BY <1>1, <1>4, <1>8 DEF IInv, Types, locks
  <1>10. LockInv'
    <2>1. Depth(KindOf(r), NextOf(r)', Len(todo'[r])) =
             Depth(KindOf(r), NextOf(r), Len(todo[r]))
      BY <1>2, <1>4 DEF Follows
    <2> QED
      BY <1>1, <1>2, <1>3, <1>4, <1>5, <2>1, LocksKept DEF Writing, Holding
  <1>11. DataInv'
    <2>1. \A q \in Request : NextOf(q)' \notin {"store", "commit"}
      BY <1>4, <1>5, <1>6 DEF Writing
    <2>2. stored'.log = events'
      BY <1>8
    <2>3. /\ Len(events') \in 1..MaxEvents /\ Len(events') <= Len(stored'.log)
          /\ Counted(state', Len(events')) /\ Numbered(stored'.log)
      BY <1>1, <1>7, <1>8, <2>2, BoundAssumption
    <2> QED
      BY <1>8, <2>1, <2>3 DEF DataInv, Counted, Numbered
  <1>12. ReadInv'
    <2>1. KindOf(r) = "freeze" /\ Len(todo'[r]) <= 8 => local[r].head > 0
      BY <1>4 DEF Follows, IInv, ReadInv
    <2>2. KindOf(r) = "verify" /\ Len(todo'[r]) \in 2..10 => local[r].result = "ok"
      BY <1>4 DEF Follows, IInv, ReadInv
    <2>3. \A q \in Request \ {r} :
             /\ KindOf(q) = "freeze" /\ Len(todo'[q]) <= 8 => local[q].head > 0
             /\ KindOf(q) = "verify" /\ Len(todo'[q]) \in 2..10 => local[q].result = "ok"
      BY <1>4 DEF IInv, ReadInv
    <2>4. \A q \in Request :
             /\ local[q].head \in Nat /\ local[q].head <= Len(events) /\ local[q].checks
             /\ KindOf(q) = "verify" /\ local[q].result = "ok" =>
                   local[q].snapshot.anchor \in 1..Len(events)
      BY DataTypes DEF IInv, ReadInv
    <2>5. \A q \in Request :
             /\ local[q].head <= Len(events')
             /\ KindOf(q) = "verify" /\ local[q].result = "ok" =>
                   local[q].snapshot.anchor \in 1..Len(events')
      BY <1>8, <2>4
    <2> QED
      BY <1>1, <1>3, <2>1, <2>2, <2>3, <2>4, <2>5 DEF ReadInv
  <1> QED
    BY <1>4, <1>9, <1>10, <1>11, <1>12 DEF IInv


\* Where a request begins: it holds nothing and has read nothing.
LEMMA Beginning ==
    ASSUME NEW k \in Kind
    PROVE  /\ Program(k) \in Seq(Instruction) /\ Program(k) = Rest(k, 1)
           /\ 1 \in 1..(Len(Program(k)) + 1)
           /\ Upcoming(Program(k)) \in {"project lock", "rlock"}
           /\ Depth(k, Upcoming(Program(k)), Len(Program(k))) = 0
           /\ k = "freeze" => ~(Len(Program(k)) <= 8)
           /\ k = "verify" => Len(Program(k)) \notin 2..10
  <1>1. PICK n \in {6, 7, 10, 12} : n = Len(Program(k)) /\ Program(k) \in Seq(Instruction)
    BY ProgramType
  <1>2. Program(k) = Rest(k, 1)
    BY <1>1, SubSeqFull DEF Rest
  <1>3. /\ Program("edit")[1] = "project lock" /\ Program("freeze")[1] = "rlock"
        /\ Program("preview")[1] = "rlock" /\ Program("export")[1] = "rlock"
        /\ Program("item")[1] = "rlock" /\ Program("verify")[1] = "rlock"
    BY DEF Program, Transaction
  <1>4. /\ Len(Program("freeze")) = 10 /\ Len(Program("verify")) = 12
        /\ Len(Program("export")) = 6
    BY DEF Program
  <1>5. Program(k)[1] \in {"project lock", "rlock"}
    BY <1>3 DEF Kind
  <1>6. Upcoming(Program(k)) = Program(k)[1]
    <2>1. 1 \in 1..n
      BY <1>1
    <2>2. Rest(k, 1) # <<>> /\ Head(Rest(k, 1)) = Program(k)[1]
      BY <1>1, <2>1, RestIs
    <2> QED
      BY <1>2, <2>2 DEF Upcoming
  <1>7. Depth(k, Upcoming(Program(k)), Len(Program(k))) = 0
    <2>1. CASE k = "export"
      <3>1. n = 6
        BY <1>1, <1>4, <2>1
      <3>2. n \notin {2, 3} /\ n \notin {1, 4, 5}
        BY <3>1
      <3> QED
        BY <1>1, <2>1, <3>2 DEF Depth
    <2>2. CASE k # "export"
      <3>1. Upcoming(Program(k)) \notin Inside
        BY <1>5, <1>6 DEF Inside
      <3> QED
        BY <2>2, <3>1 DEF Depth
    <2> QED
      BY <2>1, <2>2
  <1>8. /\ k = "freeze" => ~(Len(Program(k)) <= 8)
        /\ k = "verify" => Len(Program(k)) \notin 2..10
    <2>1. (k = "freeze" => n = 10) /\ (k = "verify" => n = 12)
      BY <1>1, <1>4
    <2>2. (k = "freeze" => ~(n <= 8)) /\ (k = "verify" => n \notin 2..10)
      BY <2>1
    <2> QED
      BY <1>1, <2>2
  <1>9. 1 \in 1..(Len(Program(k)) + 1)
    BY <1>1
  <1> QED
    BY <1>1, <1>2, <1>5, <1>6, <1>7, <1>8, <1>9

\* A request that is idle holds nothing and waits for nothing.
LEMMA IdleHoldsNothing ==
    ASSUME IInv, NEW r \in Request, Idle(r)
    PROVE  /\ NextOf(r) = "none" /\ readers[r] = 0
           /\ writer # r /\ announced # r /\ r \notin queue
           /\ \A p \in Project : projectLock[p] # r
  <1>1. todo[r] = <<>> /\ NextOf(r) = "none"
    BY DEF Idle, NextOf, Upcoming
  <1>2. readers[r] = 0
    <2>1. PICK n : n = Len(todo[r])
      OBVIOUS
    <2>2. n = 0
      BY <1>1, <2>1
    <2>3. readers[r] = Depth(KindOf(r), "none", n)
      BY <1>1, <2>1 DEF IInv, LockInv, ReadersInv
    <2> QED
      BY <2>2, <2>3 DEF Depth, Inside
  <1>3. writer # r /\ announced # r
    BY <1>1, NoneAssumption DEF IInv, LockInv, WriterInv, Writing
  <1>4. r \notin queue /\ \A p \in Project : projectLock[p] # r
    BY <1>1 DEF IInv, LockInv, QueueInv, ProjectInv, Holding, Writing
  <1> QED
    BY <1>1, <1>2, <1>3, <1>4

LEMMA StartKeeps ==
    ASSUME IInv, NEW r \in Request, Start(r)
    PROVE  IInv'
  <1>1. /\ Idle(r) /\ UNCHANGED <<locks, data>>
        /\ UNCHANGED <<projectLock, writer, announced, readers, queue, state, events, stored>>
    BY DEF Start, locks, data
  <1>2. PICK kind \in Kind : /\ todo' = [todo EXCEPT ![r] = Program(kind)]
                             /\ local' = [local EXCEPT ![r] = Fresh(kind)]
    BY KindAssumption DEF Start
  <1>3. /\ Program(kind) \in Seq(Instruction) /\ Program(kind) = Rest(kind, 1)
        /\ 1 \in 1..(Len(Program(kind)) + 1)
        /\ Upcoming(Program(kind)) \in {"project lock", "rlock"}
        /\ Depth(kind, Upcoming(Program(kind)), Len(Program(kind))) = 0
        /\ kind = "freeze" => ~(Len(Program(kind)) <= 8)
        /\ kind = "verify" => Len(Program(kind)) \notin 2..10
    BY Beginning
  <1>4. PICK new : new = Fresh(kind)
    OBVIOUS
  <1>5. /\ new \in Local /\ new.kind = kind /\ new.head = 0
        /\ new.checks = TRUE /\ new.result = "none"
    <2>1. Unfrozen \in Snapshot
      BY BoundAssumption DEF Unfrozen, Snapshot
    <2> QED
      BY <1>4, <2>1, BoundAssumption DEF Fresh, Local
  <1>6. /\ local' \in [Request -> Local] /\ local'[r] = new /\ KindOf(r)' = kind
        /\ todo' \in [Request -> Seq(Instruction)] /\ todo'[r] = Program(kind)
        /\ \A q \in Request \ {r} : local'[q] = local[q] /\ todo'[q] = todo[q]
    BY <1>2, <1>3, <1>4, <1>5 DEF IInv, Types, KindOf
  <1>7. /\ NextOf(r)' = Upcoming(Program(kind))
        /\ \A q \in Request \ {r} : NextOf(q)' = NextOf(q) /\ KindOf(q)' = KindOf(q)
    BY <1>6 DEF NextOf, KindOf
  <1>8. /\ NextOf(r) = "none" /\ readers[r] = 0
        /\ writer # r /\ announced # r /\ r \notin queue
        /\ \A p \in Project : projectLock[p] # r
    BY <1>1, IdleHoldsNothing
  <1>9. Types'
    BY <1>1, <1>6 DEF IInv, Types
  <1>10. CodeInv'
    <2>1. \E i \in 1..(Len(Program(kind)) + 1) : todo'[r] = Rest(kind, i)
      BY <1>3, <1>6
    <2>2. ASSUME NEW q \in Request \ {r}
          PROVE  \/ KindOf(q)' = "none" /\ todo'[q] = <<>>
                 \/ /\ KindOf(q)' \in Kind
                    /\ \E i \in 1..(Len(Program(KindOf(q)')) + 1) : todo'[q] = Rest(KindOf(q)', i)
      BY <1>6, <1>7 DEF IInv, CodeInv
    <2> QED
      BY <1>6, <2>1, <2>2 DEF CodeInv
  <1>11. ReadersInv'
    <2>1. readers'[r] = Depth(KindOf(r)', NextOf(r)', Len(todo'[r]))
      BY <1>1, <1>3, <1>6, <1>7, <1>8
    <2> QED
      BY <1>1, <1>6, <1>7, <2>1 DEF IInv, LockInv, ReadersInv
  <1>12. WriterInv'
    <2>1. NextOf(r)' \notin Writing /\ NextOf(r) \notin Writing
      BY <1>3, <1>7, <1>8 DEF Writing
    <2>2. announced # None => NextOf(announced)' = "lock"
      <3>1. announced # None => announced \in Request \ {r}
        BY <1>8 DEF IInv, Types
      <3> QED
        BY <1>1, <1>6, <3>1 DEF IInv, LockInv, WriterInv, NextOf
    <2>3. /\ \A q \in Request : writer = q => NextOf(q)' \in Writing
          /\ \A q \in Request : NextOf(q)' \in Writing => writer = q
      BY <1>7, <1>8, <2>1 DEF IInv, LockInv, WriterInv
    <2> QED
      BY <1>1, <2>2, <2>3 DEF IInv, LockInv, WriterInv
  <1>13. QueueInv'
    BY <1>1, <1>7, <1>8 DEF IInv, LockInv, QueueInv, Types
  <1>14. ProjectInv'
    <2>1. NextOf(r)' \notin Holding
      BY <1>3, <1>7 DEF Holding, Writing
    <2>2. \A q \in Request \ {r} : ProjectOf(q)' = ProjectOf(q)
      BY <1>7 DEF ProjectOf
    <2> QED
      BY <1>1, <1>7, <1>8, <2>1, <2>2 DEF IInv, LockInv, ProjectInv
  <1>15. DataInv'
    BY <1>1, <1>3, <1>6, <1>7, <1>8, DataSame
  <1>16. ReadInv'
    <2>1. local'[r].head <= Len(events)
      BY <1>5, <1>6, DataTypes
    <2> QED
      BY <1>1, <1>3, <1>5, <1>6, <2>1, ReadKept
  <1> QED
    BY <1>9, <1>10, <1>11, <1>12, <1>13, <1>14, <1>15, <1>16 DEF IInv, LockInv

-----------------------------------------------------------------------------
(* The theorems *)

LEMMA InitIsFine ==
    ASSUME Init
    PROVE  IInv
  <1>1. /\ \A r \in Request : todo[r] = <<>> /\ NextOf(r) = "none" /\ KindOf(r) = "none"
        /\ \A r \in Request : Len(todo[r]) = 0
    BY DEF Init, NextOf, Upcoming, KindOf, Fresh
  <1>2. Unfrozen \in Snapshot /\ Created \in Event
    BY BoundAssumption DEF Unfrozen, Snapshot, Created, Event
  <1>3. Fresh("none") \in Local /\ Fresh("none").head = 0 /\ Fresh("none").checks = TRUE
    BY <1>2, BoundAssumption DEF Fresh, Local
  <1>4. \A r \in Request : local[r] = Fresh("none")
    BY DEF Init
  <1>5. /\ events \in Seq(Event) /\ Len(events) = 1 /\ Numbered(events)
        /\ state = Unfrozen /\ stored = [projection |-> state, log |-> events]
    BY <1>2 DEF Init, Numbered, Created
  <1>6. Types
    <2>1. todo \in [Request -> Seq(Instruction)]
      BY DEF Init
    <2>2. stored \in [projection : Snapshot, log : Seq(Event)] /\ state \in Snapshot
      BY <1>2, <1>5
    <2>3. local \in [Request -> Local]
      BY <1>3 DEF Init
    <2> QED
      BY <1>5, <2>1, <2>2, <2>3 DEF Init, Types
  <1>7. CodeInv
    BY <1>1 DEF CodeInv
  <1>8. LockInv
    <2>1. ReadersInv
      BY <1>1 DEF Init, ReadersInv, Depth, Inside
    <2>2. WriterInv /\ QueueInv
      BY <1>1, NoneAssumption DEF Init, WriterInv, QueueInv, Writing
    <2>3. ProjectInv
      BY <1>1, NoneAssumption DEF Init, ProjectInv, Holding, Writing
    <2> QED
      BY <2>1, <2>2, <2>3 DEF LockInv
  <1>9. DataInv
    <2>1. Counted(state, Len(events))
      BY <1>5 DEF Counted, Unfrozen
    <2>2. Len(events) \in 1..MaxEvents /\ stored.log = events
      BY <1>5, BoundAssumption
    <2> QED
      BY <1>1, <1>5, <2>1, <2>2 DEF DataInv
  <1>10. ReadInv
    BY <1>1, <1>3, <1>4, <1>5 DEF ReadInv
  <1> QED
    BY <1>6, <1>7, <1>8, <1>9, <1>10 DEF IInv

LEMMA StepKeeps ==
    ASSUME IInv, [Next]_vars
    PROVE  IInv'
  <1>1. CASE UNCHANGED vars
    <2>1. UNCHANGED <<todo, projectLock, writer, announced, readers, queue, state, events,
                      stored, local, data>>
      BY <1>1 DEF vars, locks, data
    <2>2. CodeInv' /\ DataInv' /\ ReadInv' /\ Types'
      BY <2>1, NobodyMoves, DataKept DEF IInv, Types
    <2>3. \A q \in Request : /\ KindOf(q)' = KindOf(q) /\ NextOf(q)' = NextOf(q)
                             /\ ProjectOf(q)' = ProjectOf(q)
      BY <2>1 DEF KindOf, NextOf, ProjectOf
    <2>4. NextOf(announced)' = NextOf(announced)
      BY <2>1 DEF NextOf
    <2>5. LockInv'
      <3>1. ReadersInv'
        BY <2>1, <2>3 DEF IInv, LockInv, ReadersInv
      <3>2. QueueInv'
        BY <2>1, <2>3 DEF IInv, LockInv, QueueInv, Types
      <3>3. ProjectInv'
        BY <2>1, <2>3 DEF IInv, LockInv, ProjectInv
      <3>4. WriterInv'
        BY <2>1, <2>3, <2>4 DEF IInv, LockInv, WriterInv
      <3> QED
        BY <3>1, <3>2, <3>3, <3>4 DEF LockInv
    <2> QED
      BY <2>2, <2>5 DEF IInv
  <1>2. ASSUME NEW r \in Request, Start(r) \/ LockStep(r) \/ DataStep(r)
        PROVE  IInv'
    <2>1. CASE LockStep(r)
      BY <2>1, LockProjectKeeps, UnlockProjectKeeps, AnnounceKeeps, LockKeeps, UnlockKeeps,
         EnterRLockKeeps, QueueRLockKeeps, RUnlockKeeps DEF LockStep
    <2>2. CASE DataStep(r)
      BY <2>2, ReadHeadKeeps, ReadEventsKeeps, ReadSnapshotKeeps, ChecksKeep, RunKeeps,
         StoreKeeps, CommitKeeps DEF DataStep
    <2> QED
      BY <1>2, <2>1, <2>2, StartKeeps
  <1> QED
    BY <1>1, <1>2 DEF Next

THEOREM InvariantHolds == Spec => []IInv
  <1>1. Init => IInv
    BY InitIsFine
  <1>2. IInv /\ [Next]_vars => IInv'
    BY StepKeeps
  <1> QED
    BY <1>1, <1>2, PTL DEF Spec

\* The mutex of the repository admits one writer or readers, nobody asks for more
\* than two read locks, and a goroutine that is idle holds no lock at all, however
\* its request ended (repository.go Update, Read, Events).
THEOREM TypeCorrect == Spec => []TypeOK
  <1>1. IInv => TypeOK
    <2> SUFFICES ASSUME IInv PROVE TypeOK
      OBVIOUS
    <2>1. readers \in [Request -> 0..2]
      BY DepthType DEF IInv, Types, LockInv, ReadersInv
    <2>2. writer # None => \A r \in Request : readers[r] = 0
      BY DEF IInv, LockInv, WriterInv
    <2>3. \A r \in Request : Idle(r) => /\ readers[r] = 0
                                        /\ r \notin {writer, announced} \cup queue
                                        /\ \A p \in Project : projectLock[p] # r
      BY IdleHoldsNothing
    <2> QED
      BY <2>1, <2>2, <2>3 DEF IInv, Types, TypeOK
  <1> QED
    BY <1>1, InvariantHolds, PTL

\* No update is lost, of any number of them to any projects: outside of a write the
\* disk, the history and the state agree, and the state has every change of the
\* history (repository.go Update).
THEOREM UpdatesSerialize == Spec => []UpdatesAreSerial
  <1>1. IInv => UpdatesAreSerial
    <2> SUFFICES ASSUME IInv, writer = None
                 PROVE  /\ stored = [projection |-> state, log |-> events]
                        /\ Len(events) = state.edits + (IF state.frozen THEN 1 ELSE 0)
      BY DEF UpdatesAreSerial
    <2>1. \A r \in Request : NextOf(r) # "commit"
      BY NoneAssumption DEF IInv, LockInv, WriterInv, Writing
    <2> QED
      BY <2>1 DEF IInv, DataInv, Counted
  <1> QED
    BY <1>1, InvariantHolds, PTL

\* Verify never accuses a project that nobody tampered with, whatever is written
\* between its four sections (export.go Verify).
THEOREM VerifyIsRight == Spec => []VerifyNeverAccuses
  <1>1. IInv => VerifyNeverAccuses
    BY DEF IInv, ReadInv, VerifyNeverAccuses
  <1> QED
    BY <1>1, InvariantHolds, PTL

============================================================================
