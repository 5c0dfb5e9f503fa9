--------------------------- MODULE AuditLogProofs ---------------------------
(***************************************************************************)
(* The audit log writes one record at a time, keeps its files within the   *)
(* limit and gives up the oldest records only, as long as no task is       *)
(* cancelled while its thread runs: for any number of tasks, events,       *)
(* record sizes, backups, crashes and failing system calls.                *)
(*                                                                         *)
(* IInv is the inductive invariant of the lock.  FileInv adds what a       *)
(* thread knows of the files while it rotates, KeepInv that the files read *)
(* from the oldest are the end of the history, and ChainInv that a backup  *)
(* is missing, or was closed before it was full, for each append that was  *)
(* cut short at most.                                                      *)
(***************************************************************************)
EXTENDS AuditLog, FiniteSetTheorems, Facts

-----------------------------------------------------------------------------
(***************************************************************************)
(* Typing.                                                                 *)
(***************************************************************************)
\* Giving up the lock leaves lock, queue and threads well typed.
LEMMA ReleaseTyped ==
  ASSUME TypeOK, Release
  PROVE  /\ owner' \in Tasks \cup {None}
         /\ waiters' \in Seq(Tasks)
         /\ thread' \in [Events -> {"none", "check", "unlink", "shift", "open", "write", "done", "failed"}]
<1>1. CASE waiters = <<>>
  BY <1>1 DEF Release, TypeOK
<1>2. CASE waiters # <<>>
  <2>1. Head(waiters) \in Tasks /\ Tail(waiters) \in Seq(Tasks)
    BY <1>2 DEF TypeOK
  <2> QED
    BY <1>2, <2>1 DEF Release, TypeOK
<1> QED
  BY <1>1, <1>2

\* A step of a thread leaves the files well typed.
LEMMA ThreadTyped ==
  ASSUME TypeOK, NEW e \in Events, ThreadStep(e)
  PROVE  TypeOK'
<1>0. MaxBackups \in Nat /\ MaxBackups > 0
  BY BackupsAssumption
<1>1. CASE CheckSize(e)
  BY <1>1 DEF CheckSize, TypeOK
<1>2. CASE UnlinkOldest(e)
  BY <1>0, <1>2 DEF UnlinkOldest, FirstShift, TypeOK, Generations
<1>3. CASE ShiftGeneration(e)
  <2>1. step[e] \in Generations
    BY DEF TypeOK
  <2>2. \A g \in Generations : Moved(g) \in [Generations -> Seq(Events) \cup {None}]
    BY <1>0 DEF Moved, TypeOK, Generations
  <2>3. CASE step[e] > 0
    <3>1. files' = (IF files[step[e]] = None THEN files ELSE Moved(step[e]))
          /\ step' = [step EXCEPT ![e] = step[e] - 1] /\ UNCHANGED thread
      BY <1>3, <2>3 DEF ShiftGeneration
    <3>2. files' \in [Generations -> Seq(Events) \cup {None}]
      BY <2>1, <2>2, <3>1 DEF TypeOK
    <3>3. step[e] - 1 \in Generations
      BY <1>0, <2>1, <2>3 DEF Generations
    <3> QED
      BY <1>3, <3>1, <3>2, <3>3 DEF ShiftGeneration, TypeOK
  <2>4. CASE step[e] = 0
    <3>1. files' = (IF files[0] = None THEN files ELSE Moved(0))
          /\ thread' = [thread EXCEPT ![e] = IF files[0] = None THEN "failed" ELSE "open"]
          /\ UNCHANGED step
      BY <1>3, <2>4 DEF ShiftGeneration
    <3>2. files' \in [Generations -> Seq(Events) \cup {None}]
      BY <2>1, <2>2, <2>4, <3>1 DEF TypeOK
    <3> QED
      BY <1>3, <3>1, <3>2 DEF ShiftGeneration, TypeOK
  <2> QED
    BY <2>1, <2>3, <2>4 DEF Generations
<1>c. 0 \in Generations /\ Contents(files[0]) \in Seq(Events)
  BY <1>0 DEF Contents, TypeOK, Generations
<1>4. CASE OpenFile(e)
  BY <1>4, <1>c DEF OpenFile, TypeOK
<1>5. CASE AppendRecord(e)
  <2>1. Appended(e) \in Seq(Events)
    BY <1>c DEF Appended
  <2> QED
    BY <1>5, <1>c, <2>1 DEF AppendRecord, TypeOK
<1> QED
  BY <1>1, <1>2, <1>3, <1>4, <1>5 DEF ThreadStep

\* Every step leaves the state well typed.
LEMMA NextTyped == TypeOK /\ [Next]_vars => TypeOK'
<1> SUFFICES ASSUME TypeOK, [Next]_vars PROVE TypeOK'
  OBVIOUS
<1>0. MaxEvents \in Nat /\ MaxCrashes \in Nat /\ MaxErrors \in Nat
  BY BoundsAssumption
<1>1. ASSUME NEW t \in Tasks, Log(t) PROVE TypeOK'
  <2>1. next \in Events /\ next + 1 \in 1..MaxEvents + 1
    BY <1>0, <1>1 DEF Log, TypeOK, Events
  <2>2. Append(waiters, t) \in Seq(Tasks)
    BY DEF TypeOK
  <2> QED
    BY <1>1, <2>1, <2>2 DEF Log, TypeOK
<1>2. ASSUME NEW t \in Tasks, LogReturns(t) PROVE TypeOK'
  BY <1>2, ReleaseTyped DEF LogReturns, TypeOK
<1>3. ASSUME NEW t \in Tasks, Cancel(t) PROVE TypeOK'
  <2>1. CASE owner = t
    BY <1>3, <2>1, ReleaseTyped DEF Cancel, TypeOK
  <2>2. CASE owner # t
    <3>1. waiters' \in Seq(Tasks)
      BY <1>3, <2>2, RemoveAtFacts DEF Cancel, TypeOK
    <3> QED
      BY <1>3, <2>2, <3>1 DEF Cancel, TypeOK
  <2> QED
    BY <2>1, <2>2
<1>4. ASSUME NEW e \in Events, ThreadStep(e) PROVE TypeOK'
  BY <1>4, ThreadTyped
<1>5. CASE Crash
  BY <1>0, <1>5 DEF Crash, TypeOK
<1>6. ASSUME NEW e \in Events, AppendFails(e) PROVE TypeOK'
  BY <1>0, <1>6 DEF AppendFails, TypeOK
<1>7. CASE UNCHANGED vars
  BY <1>7 DEF vars, TypeOK
<1> QED
  BY <1>1, <1>2, <1>3, <1>4, <1>5, <1>6, <1>7 DEF Next

\* The logger starts well typed.
LEMMA InitTyped == Init => TypeOK
  BY BoundsAssumption, BackupsAssumption DEF Init, TypeOK, Events, Generations

-----------------------------------------------------------------------------
(***************************************************************************)
(* Mutual exclusion.                                                       *)
(***************************************************************************)
\* Who waits is logging, waits once, and does not hold the lock.
QueueSound ==
  /\ owner = None => waiters = <<>>
  /\ owner # None => event[owner] # None
  /\ \A i \in 1..Len(waiters) : event[waiters[i]] # None /\ waiters[i] # owner
  /\ \A i, j \in 1..Len(waiters) : waiters[i] = waiters[j] => i = j

\* A thread works for the task that holds the lock.
WorksForOwner ==
  \A e \in Events : e \in Running => owner # None /\ e = event[owner]

IInv == TypeOK /\ QueueSound /\ WorksForOwner

\* The lock goes from a task whose thread has ended to the first in line.
LEMMA ReleaseSound ==
  ASSUME TypeOK, QueueSound, Running = {}, NEW t \in Tasks, owner = t,
         event' = [event EXCEPT ![t] = None], Release
  PROVE  QueueSound' /\ WorksForOwner'
<1>1. CASE waiters = <<>>
  BY <1>1 DEF Release, QueueSound, WorksForOwner, Running
<1>2. CASE waiters # <<>>
  <2> DEFINE h == Head(waiters)
  <2>1. /\ h = waiters[1] /\ h \in Tasks /\ h # t /\ event[h] # None /\ event[h] \in Events
        /\ 1 \in 1..Len(waiters)
    BY <1>2 DEF TypeOK, QueueSound
  <2>2. /\ Tail(waiters) \in Seq(Tasks) /\ Len(Tail(waiters)) = Len(waiters) - 1
        /\ Len(waiters) \in Nat
        /\ \A i \in 1..Len(waiters) - 1 : Tail(waiters)[i] = waiters[i + 1]
    BY <1>2 DEF TypeOK
  <2>3. /\ owner' = h /\ waiters' = Tail(waiters)
        /\ thread' = [thread EXCEPT ![event[h]] = "check"]
    BY <1>2 DEF Release
  <2>4. \A x \in Tasks : x # t => event'[x] = event[x]
    BY DEF TypeOK
  <2>5. h # None
    BY <2>1, BoundsAssumption
  <2> HIDE DEF h
  <2>6. \A i \in 1..Len(waiters') :
          /\ i + 1 \in 1..Len(waiters) /\ waiters'[i] = waiters[i + 1]
          /\ waiters'[i] \in Tasks
    BY <2>2, <2>3
  <2>7. QueueSound'
    <3>1. \A i \in 1..Len(waiters') : event'[waiters'[i]] # None /\ waiters'[i] # owner'
      BY <2>1, <2>2, <2>3, <2>4, <2>6 DEF QueueSound
    <3>2. \A i, j \in 1..Len(waiters') : waiters'[i] = waiters'[j] => i = j
      BY <2>2, <2>3, <2>6 DEF QueueSound
    <3>3. owner' # None /\ event'[owner'] # None
      BY <2>1, <2>3, <2>4, <2>5
    <3> QED
      BY <3>1, <3>2, <3>3 DEF QueueSound
  <2>8. WorksForOwner'
    BY <2>1, <2>3, <2>4, <2>5 DEF WorksForOwner, Running, TypeOK
  <2> QED
    BY <2>7, <2>8
<1> QED
  BY <1>1, <1>2

\* Every step keeps the queue sound and the threads in their task's service,
\* when no task is cancelled while it holds the lock.
LEMMA NextSound ==
  ASSUME ~MayCancelOwner, IInv, [Next]_vars
  PROVE  QueueSound' /\ WorksForOwner'
<1> USE DEF IInv
<1>0. None \notin Events
  BY NoneAssumption
<1>1. ASSUME NEW t \in Tasks, Log(t) PROVE QueueSound' /\ WorksForOwner'
  <2>1. /\ t # owner /\ t # None /\ next \in Events
        /\ event' = [event EXCEPT ![t] = next] /\ event'[t] = next
        /\ \A i \in 1..Len(waiters) : waiters[i] # t
        /\ \A x \in Tasks : x # t => event'[x] = event[x]
    BY <1>1, BoundsAssumption DEF Log, TypeOK, QueueSound, Events
  <2>2. next # None
    BY <1>0, <2>1
  <2>3. CASE LockFree
    <3>1. /\ owner = None /\ waiters = <<>> /\ owner' = t /\ waiters' = <<>>
          /\ thread' = [thread EXCEPT ![next] = "check"]
      BY <1>1, <2>3 DEF Log, LockFree
    <3>2. Running = {}
      BY <3>1 DEF WorksForOwner, Running
    <3> QED
      BY <2>1, <2>2, <3>1, <3>2 DEF QueueSound, WorksForOwner, Running, TypeOK
  <2>4. CASE ~LockFree
    <3>1. /\ owner # None /\ owner' = owner /\ waiters' = Append(waiters, t)
          /\ thread' = thread
      BY <1>1, <2>4 DEF Log, LockFree, QueueSound
    <3>2. /\ Len(waiters') = Len(waiters) + 1 /\ Len(waiters) \in Nat
          /\ waiters'[Len(waiters) + 1] = t
          /\ \A i \in 1..Len(waiters) : waiters'[i] = waiters[i] /\ waiters[i] \in Tasks
      BY <3>1 DEF TypeOK
    <3>3. \A i \in 1..Len(waiters') : event'[waiters'[i]] # None /\ waiters'[i] # owner'
      BY <2>1, <2>2, <3>1, <3>2 DEF QueueSound
    <3>4. \A i, j \in 1..Len(waiters') : waiters'[i] = waiters'[j] => i = j
      BY <2>1, <3>2 DEF QueueSound
    <3>5. owner \in Tasks /\ event'[owner] = event[owner]
      BY <2>1, <3>1 DEF TypeOK
    <3> QED
      BY <3>1, <3>3, <3>4, <3>5 DEF QueueSound, WorksForOwner, Running
  <2> QED
    BY <2>3, <2>4
<1>2. ASSUME NEW t \in Tasks, LogReturns(t) PROVE QueueSound' /\ WorksForOwner'
  <2>1. Running = {}
    BY <1>2 DEF LogReturns, WorksForOwner, Running
  <2> QED
    BY <1>2, <2>1, ReleaseSound DEF LogReturns
<1>3. ASSUME NEW t \in Tasks, Cancel(t) PROVE QueueSound' /\ WorksForOwner'
  <2>1. /\ owner # t /\ owner' = owner /\ thread' = thread
        /\ \A x \in Tasks : x # t => event'[x] = event[x]
    BY <1>3 DEF Cancel, TypeOK
  <2>2. PICK n \in 1..Len(waiters) : waiters[n] = t /\ waiters' = RemoveAt(waiters, n)
    BY <1>3, <2>1 DEF Cancel
  <2>3. /\ waiters' \in Seq(Tasks) /\ Len(waiters') = Len(waiters) - 1 /\ Len(waiters) \in Nat
        /\ \A k \in 1..Len(waiters) - 1 :
              waiters'[k] = IF k < n THEN waiters[k] ELSE waiters[k + 1]
    <3>1. waiters \in Seq(Tasks) /\ Len(waiters) \in Nat
      BY DEF TypeOK
    <3>2. /\ RemoveAt(waiters, n) \in Seq(Tasks)
          /\ Len(RemoveAt(waiters, n)) = Len(waiters) - 1
          /\ \A k \in 1..Len(waiters) - 1 :
                RemoveAt(waiters, n)[k] = IF k < n THEN waiters[k] ELSE waiters[k + 1]
      BY <3>1, RemoveAtFacts
    <3> QED
      BY <2>2, <3>1, <3>2
  <2> DEFINE old(k) == IF k < n THEN k ELSE k + 1
  <2>4. \A k \in 1..Len(waiters') :
          /\ old(k) \in 1..Len(waiters) /\ old(k) # n
          /\ waiters'[k] = waiters[old(k)] /\ waiters'[k] \in Tasks
    BY <2>2, <2>3
  <2>5. \A k, l \in 1..Len(waiters') : old(k) = old(l) => k = l
    BY <2>3
  <2> HIDE DEF old
  <2>6. \A k \in 1..Len(waiters') : waiters'[k] # t
    BY <2>2, <2>4 DEF QueueSound
  <2>7. \A k \in 1..Len(waiters') : event'[waiters'[k]] # None /\ waiters'[k] # owner'
    BY <2>1, <2>4, <2>6 DEF QueueSound
  <2>8. \A k, l \in 1..Len(waiters') : waiters'[k] = waiters'[l] => k = l
    <3> SUFFICES ASSUME NEW k \in 1..Len(waiters'), NEW l \in 1..Len(waiters'),
                        waiters'[k] = waiters'[l]
                 PROVE  k = l
      OBVIOUS
    <3>1. waiters[old(k)] = waiters[old(l)]
          /\ old(k) \in 1..Len(waiters) /\ old(l) \in 1..Len(waiters)
      BY <2>4
    <3>2. old(k) = old(l)
      BY <3>1 DEF QueueSound
    <3> QED
      BY <2>5, <3>2
  <2>9. owner # None
    BY <2>2 DEF QueueSound
  <2>10. owner \in Tasks /\ event'[owner] = event[owner]
    BY <2>1, <2>9 DEF TypeOK
  <2> QED
    BY <2>1, <2>7, <2>8, <2>9, <2>10 DEF QueueSound, WorksForOwner, Running
<1>4. ASSUME NEW e \in Events, ThreadStep(e) PROVE QueueSound' /\ WorksForOwner'
  <2>1. /\ UNCHANGED <<event, owner, waiters>>
        /\ e \in Running
        /\ \A f \in Events : f # e => thread'[f] = thread[f]
    BY <1>4 DEF ThreadStep, CheckSize, UnlinkOldest, ShiftGeneration, OpenFile, AppendRecord,
                Running, TypeOK
  <2> QED
    BY <2>1 DEF QueueSound, WorksForOwner, Running
<1>5. CASE Crash
  BY <1>5 DEF Crash, QueueSound, WorksForOwner, Running, TypeOK
<1>6. ASSUME NEW e \in Events, AppendFails(e) PROVE QueueSound' /\ WorksForOwner'
  BY <1>6 DEF AppendFails, QueueSound, WorksForOwner, Running, TypeOK
<1>7. CASE UNCHANGED vars
  BY <1>7 DEF vars, QueueSound, WorksForOwner, Running
<1> QED
  BY <1>1, <1>2, <1>3, <1>4, <1>5, <1>6, <1>7 DEF Next

-----------------------------------------------------------------------------
\* The state is well typed at every step, cancellations of writers included.
THEOREM AuditTyped == Spec => []TypeOK
<1>1. Init => TypeOK
  BY InitTyped
<1>2. TypeOK /\ [Next]_vars => TypeOK'
  BY NextTyped
<1> QED
  BY <1>1, <1>2, PTL DEF Spec

\* At most one thread works on the files, as long as no task is cancelled
\* while its thread runs.
THEOREM AuditSerial ==
  ASSUME ~MayCancelOwner
  PROVE  Spec => []AppendsAreSerial
<1>1. Init => IInv
  <2> SUFFICES ASSUME Init PROVE IInv
    OBVIOUS
  <2>1. QueueSound /\ WorksForOwner
    BY DEF Init, QueueSound, WorksForOwner, Running
  <2> QED
    BY <2>1, InitTyped DEF IInv
<1>2. IInv /\ [Next]_vars => IInv'
  BY NextTyped, NextSound DEF IInv
<1>3. IInv => AppendsAreSerial
  <2> SUFFICES ASSUME IInv PROVE Cardinality(Running) <= 1
    BY DEF AppendsAreSerial
  <2>1. CASE Running = {}
    BY <2>1, FS_EmptySet
  <2>2. CASE Running # {}
    <3>1. PICK e : Running = {e}
      BY <2>2 DEF IInv, WorksForOwner, Running
    <3> QED
      BY <3>1, FS_Singleton
  <2> QED
    BY <2>1, <2>2
<1> QED
  BY <1>1, <1>2, <1>3, PTL DEF Spec

-----------------------------------------------------------------------------
(***************************************************************************)
(* Sizes of files.                                                         *)
(***************************************************************************)
\* The size of a file is summed up record by record.
Sums(records, g) ==
  /\ g[0] = 0
  /\ \A i \in 1..Len(records) : g[i] = g[i - 1] + RecordBytes[records[i]]
  /\ \A i \in 0..Len(records) : g[i] \in Nat

\* The size of a file is the sum of its records, one after the other.
LEMMA SizeUnfolds ==
  ASSUME NEW records \in Seq(Events)
  PROVE  \E g : FileSize(records) = g[Len(records)] /\ Sums(records, g)
<1> DEFINE n == Len(records)
           op == [x \in (1..n) \X Nat |-> x[2] + RecordBytes[records[x[1]]]]
           Body(it) == [t \in SUBSET (DOMAIN records) |->
                          IF t = {} THEN 0 ELSE it[t \ {Max(t)}] + RecordBytes[records[Max(t)]]]
<1>1. n \in Nat /\ DOMAIN records = 1..n
  OBVIOUS
<1>2. \A i \in 1..n : RecordBytes[records[i]] \in Nat
  BY SizesAssumption
<1>3. op \in [(1..n) \X Nat -> Nat]
  BY <1>2
<1>4. PICK it \in [SUBSET (1..n) -> Nat] : FoldsBy(it, n, 0, op)
  <2> HIDE DEF n, op
  <2> QED BY <1>1, <1>3, FoldExists
<1>5. ASSUME NEW t \in SUBSET (1..n)
      PROVE  it[t] = IF t = {} THEN 0 ELSE it[t \ {Max(t)}] + RecordBytes[records[Max(t)]]
  <2>1. CASE t = {}
    BY <1>4, <2>1 DEF FoldsBy
  <2>2. CASE t # {}
    <3>1. Max(t) \in 1..n
      <4> HIDE DEF n
      <4> QED BY <1>1, <2>2, MaxIsIn
    <3>2. t \ {Max(t)} \in SUBSET (1..n)
      OBVIOUS
    <3>3. it[t \ {Max(t)}] \in Nat
      BY <3>2
    <3>4. op[<<Max(t), it[t \ {Max(t)}]>>] = it[t \ {Max(t)}] + RecordBytes[records[Max(t)]]
      BY <3>1, <3>3
    <3> QED BY <1>4, <2>2, <3>4 DEF FoldsBy
  <2> QED BY <2>1, <2>2
<1>6. it = Body(it)
  <2>1. it = [t \in SUBSET (1..n) |-> it[t]]
    OBVIOUS
  <2> HIDE DEF n
  <2> QED BY <1>1, <1>5, <2>1
<1> DEFINE fold == CHOOSE f : f = Body(f)
<1>7. fold = Body(fold)
  <2> HIDE DEF Body
  <2> QED BY <1>6, Zenon DEF fold
<1>8. FileSize(records) = fold[1..n]
  <2>1. FileSize(records) = fold[DOMAIN records]
    BY Zenon DEF FileSize, FoldLeft, MapThenFoldSet
  <2> HIDE DEF fold
  <2> QED BY <1>1, <2>1
<1> HIDE DEF fold
<1> DEFINE g == [i \in 0..n |-> fold[1..i]]
<1>9. g[0] = 0
  <2>1. 1..0 = {} /\ {} \in SUBSET (DOMAIN records)
    OBVIOUS
  <2>2. fold[{}] = 0
    BY <1>7, <2>1
  <2> QED BY <2>1, <2>2
<1>10. ASSUME NEW i \in 1..n PROVE g[i] = g[i - 1] + RecordBytes[records[i]]
  <2>1. 1..i \in SUBSET (DOMAIN records) /\ 1..i # {} /\ i \in 0..n /\ i - 1 \in 0..n
    BY <1>1
  <2>2. Max(1..i) = i /\ (1..i) \ {i} = 1..i - 1
    BY UptoMax
  <2>3. fold[1..i] = fold[1..i - 1] + RecordBytes[records[i]]
    BY <1>7, <2>1, <2>2
  <2> QED BY <2>1, <2>3
<1> DEFINE S == {i \in Nat : g[i] \in Nat}
<1>11. 0 \in S
  BY <1>9
<1> HIDE DEF g
<1>12. \A i \in 0..n - 1 : i \in S => i + 1 \in S
  <2> SUFFICES ASSUME NEW i \in 0..n - 1, g[i] \in Nat PROVE g[i + 1] \in Nat
    OBVIOUS
  <2>1. i + 1 \in 1..n /\ (i + 1) - 1 = i
    BY <1>1
  <2>2. g[i + 1] = g[i] + RecordBytes[records[i + 1]]
    BY <1>10, <2>1
  <2> QED BY <1>2, <2>1, <2>2
<1>13. \A i \in 0..n : i \in S
  <2> HIDE DEF S, n
  <2> QED BY <1>1, <1>11, <1>12, Induction
<1>14. Sums(records, g)
  BY <1>9, <1>10, <1>13 DEF Sums
<1>15. FileSize(records) = g[Len(records)]
  BY <1>1, <1>8 DEF g
<1> QED BY <1>14, <1>15

\* The size of a file and of one with a record more.
LEMMA SizeFacts ==
  ASSUME NEW records \in Seq(Events), NEW e \in Events
  PROVE  /\ FileSize(records) \in Nat
         /\ FileSize(Append(records, e)) = FileSize(records) + RecordBytes[e]
         /\ FileSize(<<e>>) = RecordBytes[e]
<1>0. RecordBytes[e] \in Nat
  BY SizesAssumption
<1>1. PICK g : FileSize(records) = g[Len(records)] /\ Sums(records, g)
  BY SizeUnfolds
<1> DEFINE more == Append(records, e)
<1>2. /\ more \in Seq(Events) /\ Len(records) \in Nat /\ Len(more) = Len(records) + 1
      /\ \A i \in 1..Len(records) : more[i] = records[i]
      /\ more[Len(records) + 1] = e
  OBVIOUS
<1> HIDE DEF more
<1>3. PICK h : FileSize(more) = h[Len(more)] /\ Sums(more, h)
  BY <1>2, SizeUnfolds
<1> DEFINE S == {i \in Nat : h[i] = g[i]}
<1>4. 0 \in S
  BY <1>1, <1>3 DEF Sums
<1>5. \A i \in 0..Len(records) - 1 : i \in S => i + 1 \in S
  <2> SUFFICES ASSUME NEW i \in 0..Len(records) - 1, h[i] = g[i] PROVE h[i + 1] = g[i + 1]
    OBVIOUS
  <2>1. i + 1 \in 1..Len(records) /\ i + 1 \in 1..Len(more) /\ (i + 1) - 1 = i
    BY <1>2
  <2> QED BY <1>1, <1>2, <1>3, <2>1 DEF Sums
<1>6. \A i \in 0..Len(records) : i \in S
  <2> HIDE DEF S
  <2> QED BY <1>2, <1>4, <1>5, Induction
<1>7. h[Len(records)] = g[Len(records)] /\ g[Len(records)] \in Nat
  BY <1>1, <1>2, <1>6 DEF Sums
<1>8. h[Len(records) + 1] = h[Len(records)] + RecordBytes[e]
  <2>1. Len(records) + 1 \in 1..Len(more) /\ (Len(records) + 1) - 1 = Len(records)
    BY <1>2
  <2> QED BY <1>2, <1>3, <2>1 DEF Sums
<1>9. FileSize(<<e>>) = RecordBytes[e]
  <2> DEFINE one == <<e>>
  <2>1. one \in Seq(Events) /\ Len(one) = 1 /\ one[1] = e
    OBVIOUS
  <2> HIDE DEF one
  <2>2. PICK f : FileSize(one) = f[Len(one)] /\ Sums(one, f)
    BY <2>1, SizeUnfolds
  <2>3. 1 \in 1..Len(one) /\ 1 - 1 = 0
    BY <2>1
  <2>4. f[1] = f[1 - 1] + RecordBytes[one[1]] /\ f[0] = 0
    BY <2>2, <2>3 DEF Sums
  <2>5. FileSize(one) = RecordBytes[e]
    BY <1>0, <2>1, <2>2, <2>3, <2>4
  <2> QED BY <2>5 DEF one
<1> QED BY <1>1, <1>2, <1>3, <1>7, <1>8, <1>9 DEF more

-----------------------------------------------------------------------------
(***************************************************************************)
(* What the files hold, from the oldest backup to the current file.        *)
(***************************************************************************)
Files == [Generations -> Seq(Events) \cup {None}]

RetainedIn(fs) == FoldLeft(LAMBDA log, g : log \o Contents(fs[g]), <<>>, OldestFirst)

\* The files are read one after another.
Joins(fs, r) ==
  /\ r[0] = <<>>
  /\ \A i \in 1..MaxBackups + 1 : r[i] = r[i - 1] \o Contents(fs[(MaxBackups + 1) - i])
  /\ \A i \in 0..MaxBackups + 1 : r[i] \in Seq(Events)

\* A file that is missing counts as empty.
LEMMA ContentsTyped ==
  ASSUME NEW fs \in Files, NEW g \in Generations
  PROVE  Contents(fs[g]) \in Seq(Events)
<1>1. fs[g] \in Seq(Events) \cup {None}
  BY DEF Files
<1> QED BY <1>1 DEF Contents

\* The records on disk are the files joined, the oldest first.
LEMMA RetainedUnfolds ==
  ASSUME NEW fs \in Files
  PROVE  \E r : RetainedIn(fs) = r[MaxBackups + 1] /\ Joins(fs, r)
<1> DEFINE n == MaxBackups + 1
           V == Seq(Events)
           op == [x \in (1..n) \X V |-> x[2] \o Contents(fs[OldestFirst[x[1]]])]
           Body(it) == [t \in SUBSET (DOMAIN OldestFirst) |->
                          IF t = {} THEN <<>> ELSE it[t \ {Max(t)}] \o Contents(fs[OldestFirst[Max(t)]])]
<1>1. n \in Nat /\ DOMAIN OldestFirst = 1..n
  BY BackupsAssumption DEF OldestFirst
<1>2. ASSUME NEW i \in 1..n
      PROVE  OldestFirst[i] = n - i /\ Contents(fs[OldestFirst[i]]) \in V
  <2>1. OldestFirst[i] = n - i /\ n - i \in Generations
    BY BackupsAssumption DEF OldestFirst, Generations
  <2> QED BY <2>1, ContentsTyped
<1>3. op \in [(1..n) \X V -> V] /\ <<>> \in V
  <2>1. ASSUME NEW x \in (1..n) \X V PROVE x[2] \o Contents(fs[OldestFirst[x[1]]]) \in V
    <3>1. x[1] \in 1..n /\ x[2] \in V
      OBVIOUS
    <3>2. Contents(fs[OldestFirst[x[1]]]) \in V
      BY <1>2, <3>1
    <3> QED BY <3>1, <3>2, ConcatType
  <2> QED BY <2>1
<1>4. PICK it \in [SUBSET (1..n) -> V] : FoldsBy(it, n, <<>>, op)
  <2> HIDE DEF n, op, V
  <2> QED BY <1>1, <1>3, FoldExists
<1>5. ASSUME NEW t \in SUBSET (1..n)
      PROVE  it[t] = IF t = {} THEN <<>> ELSE it[t \ {Max(t)}] \o Contents(fs[OldestFirst[Max(t)]])
  <2>1. CASE t = {}
    BY <1>4, <2>1 DEF FoldsBy
  <2>2. CASE t # {}
    <3>1. Max(t) \in 1..n
      <4> HIDE DEF n
      <4> QED BY <1>1, <2>2, MaxIsIn
    <3>2. t \ {Max(t)} \in SUBSET (1..n)
      OBVIOUS
    <3>3. it[t \ {Max(t)}] \in V
      <4> HIDE DEF V, n
      <4> QED BY <3>2
    <3>4. op[<<Max(t), it[t \ {Max(t)}]>>] = it[t \ {Max(t)}] \o Contents(fs[OldestFirst[Max(t)]])
      <4> HIDE DEF V, n
      <4> QED BY <3>1, <3>3
    <3> QED BY <1>4, <2>2, <3>4 DEF FoldsBy
  <2> QED BY <2>1, <2>2
<1>6. it = Body(it)
  <2>1. it = [t \in SUBSET (1..n) |-> it[t]]
    OBVIOUS
  <2> HIDE DEF n
  <2> QED BY <1>1, <1>5, <2>1
<1> DEFINE fold == CHOOSE f : f = Body(f)
<1>7. fold = Body(fold)
  <2> HIDE DEF Body
  <2> QED BY <1>6, Zenon DEF fold
<1>8. RetainedIn(fs) = fold[1..n]
  <2>1. RetainedIn(fs) = fold[DOMAIN OldestFirst]
    BY Zenon DEF RetainedIn, FoldLeft, MapThenFoldSet
  <2> HIDE DEF fold
  <2> QED BY <1>1, <2>1
<1> HIDE DEF fold
<1> DEFINE r == [i \in 0..n |-> fold[1..i]]
<1>9. r[0] = <<>>
  <2>1. 1..0 = {} /\ {} \in SUBSET (DOMAIN OldestFirst) /\ 0 \in 0..n
    BY <1>1
  <2>2. fold[{}] = <<>>
    BY <1>7, <2>1
  <2> QED BY <2>1, <2>2
<1>10. ASSUME NEW i \in 1..n PROVE r[i] = r[i - 1] \o Contents(fs[n - i])
  <2>1. 1..i \in SUBSET (DOMAIN OldestFirst) /\ 1..i # {} /\ i \in 0..n /\ i - 1 \in 0..n
    BY <1>1
  <2>2. Max(1..i) = i /\ (1..i) \ {i} = 1..i - 1
    BY <1>1, UptoMax
  <2>3. fold[1..i] = fold[1..i - 1] \o Contents(fs[OldestFirst[i]])
    BY <1>7, <2>1, <2>2
  <2> QED BY <1>2, <2>1, <2>3
<1> HIDE DEF r
<1> DEFINE S == {i \in Nat : r[i] \in V}
<1>11. 0 \in S
  BY <1>3, <1>9
<1>12. \A i \in 0..n - 1 : i \in S => i + 1 \in S
  <2> SUFFICES ASSUME NEW i \in 0..n - 1, r[i] \in V PROVE r[i + 1] \in V
    OBVIOUS
  <2>1. i + 1 \in 1..n /\ (i + 1) - 1 = i
    BY <1>1
  <2>2. r[i + 1] = r[i] \o Contents(fs[OldestFirst[i + 1]]) /\ Contents(fs[OldestFirst[i + 1]]) \in V
    BY <1>2, <1>10, <2>1
  <2> QED BY <2>2, ConcatType
<1>13. \A i \in 0..n : i \in S
  <2> HIDE DEF S, n
  <2> QED BY <1>1, <1>11, <1>12, Induction
<1>14. Joins(fs, r)
  <2>1. \A i \in 0..n : r[i] \in Seq(Events)
    BY <1>13
  <2>2. \A i \in 1..MaxBackups + 1 : r[i] = r[i - 1] \o Contents(fs[(MaxBackups + 1) - i])
    BY <1>10
  <2>3. r[0] = <<>>
    BY <1>9
  <2> HIDE DEF n
  <2>4. \A i \in 0..MaxBackups + 1 : r[i] \in Seq(Events)
    BY <2>1 DEF n
  <2> QED BY <2>2, <2>3, <2>4 DEF Joins
<1>15. RetainedIn(fs) = r[MaxBackups + 1]
  BY <1>1, <1>8 DEF r
<1> QED BY <1>14, <1>15

\* Two readings that differ by what was read first stay so while they read the
\* same files.
SameFiles(fs, ft, a, b) ==
  /\ a \in 0..MaxBackups + 1 /\ b \in a..MaxBackups + 1
  /\ \A i \in a + 1..b : fs[(MaxBackups + 1) - i] = ft[(MaxBackups + 1) - i]

Differ(fs, ft, r, q, u, a, b) ==
  /\ fs \in Files /\ ft \in Files /\ Joins(fs, r) /\ Joins(ft, q) /\ u \in Seq(Events)
  /\ SameFiles(fs, ft, a, b) /\ r[a] = u \o q[a]

\* Files that are the same add the same to both joins.
LEMMA JoinsAgree ==
  ASSUME NEW fs, NEW ft, NEW r, NEW q, NEW u, NEW a, NEW b, Differ(fs, ft, r, q, u, a, b)
  PROVE  r[b] = u \o q[b]
<1> USE DEF Differ
<1>0. MaxBackups \in Nat /\ b - a \in Nat /\ a \in 0..MaxBackups + 1 /\ b \in a..MaxBackups + 1
      /\ a \in Nat /\ b \in Nat
  BY BackupsAssumption DEF SameFiles
<1> DEFINE S == {k \in Nat : r[a + k] = u \o q[a + k]}
<1>1. 0 \in S
  <2>1. a + 0 = a
    BY <1>0
  <2> QED BY <2>1
<1>2. ASSUME NEW k \in 0..(b - a) - 1, r[a + k] = u \o q[a + k]
      PROVE  r[a + (k + 1)] = u \o q[a + (k + 1)]
  <2>n. PICK i : i = a + (k + 1)
    OBVIOUS
  <2>1. i \in 1..MaxBackups + 1 /\ i \in a + 1..b /\ i - 1 = a + k /\ i - 1 \in 0..MaxBackups + 1
        /\ (MaxBackups + 1) - i \in Generations
    BY <1>0, <2>n DEF Generations
  <2>f. PICK f : f = Contents(fs[(MaxBackups + 1) - i])
    OBVIOUS
  <2>2. r[i] = r[i - 1] \o f /\ q[i] = q[i - 1] \o f /\ q[i - 1] \in Seq(Events)
    BY <2>1, <2>f DEF Joins, SameFiles
  <2>3. f \in Seq(Events)
    BY <2>1, <2>f, ContentsTyped
  <2>4. r[i] = (u \o q[i - 1]) \o f
    BY <1>2, <2>1, <2>2
  <2>p. PICK p : p = q[i - 1]
    OBVIOUS
  <2>5. (u \o p) \o f = u \o (p \o f)
    <3>1. p \in Seq(Events)
      BY <2>2, <2>p
    <3> QED BY <2>3, <3>1, ConcatAssoc
  <2>6. r[i] = u \o q[i]
    BY <2>2, <2>4, <2>5, <2>p
  <2> QED BY <2>6, <2>n
<1>3. \A k \in 0..b - a : k \in S
  <2>1. ASSUME NEW k \in 0..(b - a) - 1, k \in S PROVE k + 1 \in S
    <3>1. r[a + (k + 1)] = u \o q[a + (k + 1)]
      BY <1>2, <2>1
    <3>2. k + 1 \in Nat
      BY <1>0
    <3> QED BY <3>1, <3>2
  <2>n. PICK n : n = b - a
    OBVIOUS
  <2> HIDE DEF S
  <2> QED BY <1>0, <1>1, <2>1, <2>n, Induction
<1>4. a + (b - a) = b /\ b - a \in 0..b - a
  BY <1>0
<1>5. b - a \in S
  BY <1>3, <1>4
<1> QED BY <1>4, <1>5

\* An empty sequence adds nothing.
LEMMA EmptyConcat ==
  ASSUME NEW S, NEW s \in Seq(S)
  PROVE  <<>> \o s = s /\ s \o <<>> = s /\ <<>> \in Seq(S)
  OBVIOUS

\* Readings of the same files are the same.
Agree(fs, ft, r, q, a, b) ==
  /\ fs \in Files /\ ft \in Files /\ Joins(fs, r) /\ Joins(ft, q)
  /\ SameFiles(fs, ft, a, b) /\ r[a] = q[a]

\* Joins that agree before the same files agree behind them.
LEMMA JoinsSame ==
  ASSUME NEW fs, NEW ft, NEW r, NEW q, NEW a, NEW b, Agree(fs, ft, r, q, a, b)
  PROVE  r[b] = q[b]
<1> USE DEF Agree
<1>0. a \in 0..MaxBackups + 1 /\ b \in 0..MaxBackups + 1
  BY BackupsAssumption DEF SameFiles
<1>1. q[a] \in Seq(Events) /\ q[b] \in Seq(Events)
  BY <1>0 DEF Joins
<1>2. r[a] = <<>> \o q[a] /\ <<>> \in Seq(Events)
  BY <1>1, EmptyConcat
<1>3. r[b] = <<>> \o q[b]
  <2>u. PICK u : u = <<>>
    OBVIOUS
  <2>1. Differ(fs, ft, r, q, u, a, b)
    BY <1>2, <2>u DEF Differ
  <2>2. r[b] = u \o q[b]
    BY ONLY <2>1, JoinsAgree
  <2> QED BY <2>u, <2>2
<1> QED BY <1>1, <1>3, EmptyConcat

\* Unlinking the oldest backup gives up what was in it.
LEMMA RetainedDrop ==
  ASSUME NEW fs \in Files, NEW ft \in Files, ft = [fs EXCEPT ![MaxBackups] = None]
  PROVE  RetainedIn(fs) = Contents(fs[MaxBackups]) \o RetainedIn(ft)
<1>0. MaxBackups \in Nat /\ MaxBackups \in Generations /\ 1 \in 0..MaxBackups + 1 /\ 1 \in 1..MaxBackups + 1
      /\ (MaxBackups + 1) - 1 = MaxBackups /\ MaxBackups + 1 \in 1..MaxBackups + 1
  BY BackupsAssumption DEF Generations
<1>1. PICK r : RetainedIn(fs) = r[MaxBackups + 1] /\ Joins(fs, r)
  BY RetainedUnfolds
<1>2. PICK q : RetainedIn(ft) = q[MaxBackups + 1] /\ Joins(ft, q)
  BY RetainedUnfolds
<1>f. PICK f : f = Contents(fs[MaxBackups])
  OBVIOUS
<1>3. f \in Seq(Events)
  BY <1>0, <1>f, ContentsTyped
<1>4. ft[MaxBackups] = None
  BY <1>0 DEF Files
<1>5. r[1] = r[1 - 1] \o f /\ r[0] = <<>>
  BY <1>0, <1>1, <1>f DEF Joins
<1>6. q[1] = q[1 - 1] \o <<>> /\ q[0] = <<>>
  BY <1>0, <1>2, <1>4 DEF Joins, Contents
<1>7. r[1] = f /\ q[1] = <<>>
  BY <1>3, <1>5, <1>6, EmptyConcat
<1>8. r[1] = f \o q[1]
  BY <1>3, <1>7, EmptyConcat
<1>9. SameFiles(fs, ft, 1, MaxBackups + 1)
  BY <1>0 DEF Files, Generations, SameFiles
<1>10. r[MaxBackups + 1] = f \o q[MaxBackups + 1]
  <2>n. PICK n : n = MaxBackups + 1
    OBVIOUS
  <2>1. Differ(fs, ft, r, q, f, 1, n)
    BY <1>1, <1>2, <1>3, <1>8, <1>9, <2>n DEF Differ
  <2> QED BY <2>n, <2>1, JoinsAgree
<1> QED BY <1>1, <1>2, <1>f, <1>10

\* Moving a file to the next generation, where there is none, changes nothing.
LEMMA RetainedMove ==
  ASSUME NEW fs \in Files, NEW ft \in Files, NEW g \in 0..MaxBackups - 1, fs[g + 1] = None,
         ft = [fs EXCEPT ![g] = None, ![g + 1] = fs[g]]
  PROVE  RetainedIn(ft) = RetainedIn(fs)
<1> DEFINE k == MaxBackups - g
<1>0. /\ MaxBackups \in Nat /\ g \in Generations /\ g + 1 \in Generations
      /\ k \in 1..MaxBackups /\ k - 1 \in 0..MaxBackups + 1 /\ 0 \in 0..MaxBackups + 1
      /\ k \in 1..MaxBackups + 1 /\ k + 1 \in 1..MaxBackups + 1 /\ (k + 1) - 1 = k
      /\ (MaxBackups + 1) - k = g + 1 /\ (MaxBackups + 1) - (k + 1) = g
      /\ k - 1 \in 0..MaxBackups + 1 /\ k + 1 \in 0..MaxBackups + 1 /\ MaxBackups + 1 \in k + 1..MaxBackups + 1
      /\ k - 1 \in 0..MaxBackups + 1
  BY BackupsAssumption DEF Generations
<1>1. PICK r : RetainedIn(fs) = r[MaxBackups + 1] /\ Joins(fs, r)
  BY RetainedUnfolds
<1>2. PICK q : RetainedIn(ft) = q[MaxBackups + 1] /\ Joins(ft, q)
  BY RetainedUnfolds
<1>f. PICK f : f = Contents(fs[g])
  OBVIOUS
<1>3. f \in Seq(Events)
  BY <1>0, <1>f, ContentsTyped
<1>4. /\ ft[g] = None /\ ft[g + 1] = fs[g]
      /\ \A i \in Generations : i # g /\ i # g + 1 => ft[i] = fs[i]
  BY <1>0 DEF Files
<1>5. SameFiles(fs, ft, 0, k - 1)
  <2> SUFFICES ASSUME NEW i \in 0 + 1..k - 1 PROVE fs[(MaxBackups + 1) - i] = ft[(MaxBackups + 1) - i]
    BY <1>0 DEF SameFiles
  <2>1. (MaxBackups + 1) - i \in Generations /\ (MaxBackups + 1) - i # g /\ (MaxBackups + 1) - i # g + 1
    BY <1>0 DEF Generations
  <2> QED BY <1>4, <2>1
<1>6. SameFiles(fs, ft, k + 1, MaxBackups + 1)
  <2> SUFFICES ASSUME NEW i \in (k + 1) + 1..MaxBackups + 1
               PROVE fs[(MaxBackups + 1) - i] = ft[(MaxBackups + 1) - i]
    BY <1>0 DEF SameFiles
  <2>1. (MaxBackups + 1) - i \in Generations /\ (MaxBackups + 1) - i # g /\ (MaxBackups + 1) - i # g + 1
    BY <1>0 DEF Generations
  <2> QED BY <1>4, <2>1
<1> HIDE DEF k
<1>7. r[k - 1] = q[k - 1]
  <2>1. r[0] = q[0]
    BY <1>1, <1>2 DEF Joins
  <2>2. Agree(fs, ft, r, q, 0, k - 1)
    BY <1>1, <1>2, <1>5, <2>1 DEF Agree
  <2>n. PICK n : n = k - 1
    OBVIOUS
  <2> QED BY <2>n, <2>2, JoinsSame
<1>8. r[k] = r[k - 1] \o <<>> /\ r[k + 1] = r[k] \o f /\ r[k - 1] \in Seq(Events)
  BY <1>0, <1>1, <1>f DEF Joins, Contents
<1>9. q[k] = q[k - 1] \o f /\ q[k + 1] = q[k] \o <<>>
  <2>1. /\ q[k] = q[k - 1] \o Contents(ft[(MaxBackups + 1) - k])
        /\ q[k + 1] = q[(k + 1) - 1] \o Contents(ft[(MaxBackups + 1) - (k + 1)])
    BY <1>0, <1>2 DEF Joins
  <2>2. Contents(ft[g + 1]) = f /\ Contents(ft[g]) = <<>>
    BY <1>4, <1>f DEF Contents
  <2> QED BY <1>0, <2>1, <2>2
<1>10. r[k + 1] = q[k + 1]
  <2>p. PICK p : p = r[k - 1]
    OBVIOUS
  <2>1. p \in Seq(Events) /\ p \o <<>> = p /\ p \o f \in Seq(Events)
    BY <1>3, <1>8, <2>p, EmptyConcat, ConcatType
  <2>2. (p \o f) \o <<>> = p \o f
    BY <2>1, EmptyConcat
  <2> QED BY <1>7, <1>8, <1>9, <2>p, <2>1, <2>2
<1>11. r[MaxBackups + 1] = q[MaxBackups + 1]
  <2>n. PICK n, j : n = MaxBackups + 1 /\ j = k + 1
    OBVIOUS
  <2>1. Agree(fs, ft, r, q, j, n)
    BY <1>1, <1>2, <1>6, <1>10, <2>n DEF Agree
  <2> QED BY <2>n, <2>1, JoinsSame
<1> QED BY <1>1, <1>2, <1>11

\* What is appended to the current file is read last.
LEMMA RetainedAppend ==
  ASSUME NEW fs \in Files, NEW ft \in Files, NEW o \in Seq(Events),
         ft = [fs EXCEPT ![0] = Contents(fs[0]) \o o]
  PROVE  RetainedIn(ft) = RetainedIn(fs) \o o /\ RetainedIn(fs) \in Seq(Events)
<1>0. /\ MaxBackups \in Nat /\ 0 \in Generations /\ 0 \in 0..MaxBackups + 1
      /\ MaxBackups \in 0..MaxBackups + 1 /\ MaxBackups + 1 \in 1..MaxBackups + 1
      /\ (MaxBackups + 1) - (MaxBackups + 1) = 0 /\ (MaxBackups + 1) - 1 = MaxBackups
  BY BackupsAssumption DEF Generations
<1>1. PICK r : RetainedIn(fs) = r[MaxBackups + 1] /\ Joins(fs, r)
  BY RetainedUnfolds
<1>2. PICK q : RetainedIn(ft) = q[MaxBackups + 1] /\ Joins(ft, q)
  BY RetainedUnfolds
<1>f. PICK f : f = Contents(fs[0])
  OBVIOUS
<1>3. f \in Seq(Events) /\ f \o o \in Seq(Events)
  <2>1. f \in Seq(Events)
    BY <1>0, <1>f, ContentsTyped
  <2> QED BY <2>1, ConcatType
<1>4. ft[0] = f \o o /\ \A i \in Generations : i # 0 => ft[i] = fs[i]
  BY <1>0, <1>f DEF Files
<1>5. Contents(ft[0]) = f \o o
  <2>1. ft[0] # None
    BY <1>3, <1>4, NoneAssumption
  <2> QED BY <1>4, <2>1 DEF Contents
<1>6. SameFiles(fs, ft, 0, MaxBackups)
  <2>1. ASSUME NEW i \in 0 + 1..MaxBackups PROVE (MaxBackups + 1) - i \in Generations /\ (MaxBackups + 1) - i # 0
    BY <1>0 DEF Generations
  <2> QED BY <1>0, <1>4, <2>1 DEF SameFiles
<1>7. r[MaxBackups] = q[MaxBackups]
  <2>1. r[0] = q[0]
    BY <1>1, <1>2 DEF Joins
  <2>2. Agree(fs, ft, r, q, 0, MaxBackups)
    BY <1>1, <1>2, <1>6, <2>1 DEF Agree
  <2> QED BY <2>2, JoinsSame
<1>n. PICK n : n = MaxBackups + 1
  OBVIOUS
<1>m. n \in 1..MaxBackups + 1 /\ n - 1 = MaxBackups /\ (MaxBackups + 1) - n = 0 /\ n \in 0..MaxBackups + 1
  BY <1>0, <1>n
<1>8. r[n] = r[MaxBackups] \o f /\ r[MaxBackups] \in Seq(Events) /\ r[n] \in Seq(Events)
  BY <1>0, <1>1, <1>m, <1>f DEF Joins
<1>9. q[n] = q[MaxBackups] \o (f \o o)
  BY <1>0, <1>2, <1>5, <1>m DEF Joins
<1>p. PICK p : p = r[MaxBackups]
  OBVIOUS
<1>10. (p \o f) \o o = p \o (f \o o)
  <2>1. p \in Seq(Events)
    BY <1>8, <1>p
  <2> QED BY <1>3, <2>1, ConcatAssoc
<1>11. q[n] = r[n] \o o
  BY <1>7, <1>8, <1>9, <1>10, <1>p
<1> QED BY <1>1, <1>2, <1>8, <1>11, <1>f, <1>n

-----------------------------------------------------------------------------
(***************************************************************************)
(* Rotation.                                                               *)
(***************************************************************************)
\* While a thread rotates, the current file is there and the record does not
\* fit in, and the place the next file moves to is empty; a thread that writes
\* has checked that the record fits, or has a file of its own for it.
FileInv ==
  /\ \A e \in Events : thread[e] \in {"unlink", "shift"} =>
       files[0] # None /\ FileSize(files[0]) + RecordBytes[e] > MaxFileBytes
  /\ \A e \in Events : thread[e] = "shift" => step[e] < MaxBackups /\ files[step[e] + 1] = None
  /\ \A e \in Events : thread[e] \in {"open", "write"} =>
       Contents(files[0]) = <<>> \/ FileSize(files[0]) + RecordBytes[e] <= MaxFileBytes
  /\ \A g \in Generations : files[g] # None =>
       (FileSize(files[g]) > MaxFileBytes => Len(files[g]) = 1)

\* What was given up is older than what is kept.
KeepInv == \E gone \in Seq(Events) : history = gone \o RetainedIn(files)

\* What has cut an append short.
Faults == crashes + errors

\* A step that leaves the files alone: a thread starts when none runs, and ends
\* in a fault.
Quiet ==
  /\ UNCHANGED <<step, files, history>>
  /\ \A e \in Running' : thread'[e] = thread[e] \/ (Running = {} /\ thread'[e] = "check")
  /\ \/ Faults' = Faults /\ (Running' = {} => Running = {})
     \/ Faults' = Faults + 1 /\ Running' = {}

\* At most one thread works on the files.
LEMMA OneRuns ==
  ASSUME IInv, NEW e \in Running, NEW f \in Running
  PROVE  e = f
  BY DEF IInv, WorksForOwner, Running

\* Every step but those of the threads leaves the files alone.
LEMMA QuietStep ==
  ASSUME ~MayCancelOwner, IInv, [Next]_vars, ~\E e \in Events : ThreadStep(e)
  PROVE  Quiet
<1>0. TypeOK
  BY DEF IInv
<1>1. ASSUME Running = {}, Release, UNCHANGED <<step, files, history, crashes, errors>> PROVE Quiet
  <2>1. CASE waiters = <<>>
    BY <1>1, <2>1 DEF Release, Quiet, Running, Faults
  <2>2. CASE waiters # <<>>
    <3>1. thread' = [thread EXCEPT ![event[Head(waiters)]] = "check"]
      BY <1>1, <2>2 DEF Release
    <3>2. \A e \in Events : e \notin Running
      BY <1>1
    <3>3. ASSUME NEW e \in Running' PROVE thread'[e] = "check"
      BY <1>0, <3>1, <3>2 DEF Running, TypeOK
    <3> QED BY <1>1, <3>3 DEF Quiet, Faults
  <2> QED BY <2>1, <2>2
<1>2. ASSUME NEW t \in Tasks, Log(t) PROVE Quiet
  <2>1. CASE LockFree
    <3>1. Running = {}
      BY <2>1 DEF LockFree, IInv, WorksForOwner, Running
    <3>2. \A e \in Events : e \notin Running
      BY <3>1
    <3>3. thread' = [thread EXCEPT ![next] = "check"] /\ UNCHANGED <<step, files, history, crashes, errors>>
      BY <1>2, <2>1 DEF Log
    <3>4. ASSUME NEW e \in Running' PROVE thread'[e] = "check"
      BY <1>0, <3>2, <3>3 DEF Running, TypeOK
    <3> QED BY <3>1, <3>3, <3>4 DEF Quiet, Faults
  <2>2. CASE ~LockFree
    BY <1>2, <2>2 DEF Log, Quiet, Running, Faults
  <2> QED BY <2>1, <2>2
<1>3. ASSUME NEW t \in Tasks, LogReturns(t) PROVE Quiet
  <2>1. Running = {}
    BY <1>3 DEF LogReturns, IInv, WorksForOwner, Running
  <2> QED BY <1>1, <1>3, <2>1 DEF LogReturns
<1>4. ASSUME NEW t \in Tasks, Cancel(t) PROVE Quiet
  BY <1>4 DEF Cancel, Quiet, Running, Faults
<1>5. CASE Crash
  <2>1. Faults' = Faults + 1
    BY <1>0, <1>5 DEF Crash, TypeOK, Faults
  <2>2. Running' = {}
    BY <1>5 DEF Crash, Running
  <2> QED BY <1>5, <2>1, <2>2 DEF Crash, Quiet
<1>6. ASSUME NEW e \in Events, AppendFails(e) PROVE Quiet
  <2>1. Faults' = Faults + 1
    BY <1>0, <1>6 DEF AppendFails, TypeOK, Faults
  <2>2. e \in Running /\ thread' = [thread EXCEPT ![e] = "failed"] /\ UNCHANGED <<step, files, history>>
    BY <1>6 DEF AppendFails
  <2>3. \A f \in Events : f # e => f \notin Running
    BY <2>2, OneRuns
  <2>4. Running' = {}
    BY <1>0, <2>2, <2>3 DEF Running, TypeOK
  <2> QED BY <2>1, <2>2, <2>4 DEF Quiet
<1>7. CASE UNCHANGED vars
  BY <1>7 DEF vars, Quiet, Running, Faults
<1> QED BY <1>2, <1>3, <1>4, <1>5, <1>6, <1>7 DEF Next

\* The size of a generation is that of its file.
LEMMA SizeIs ==
  ASSUME TypeOK, NEW g \in Generations
  PROVE  /\ files[g] # None => files[g] \in Seq(Events) /\ SizeOf(g) = FileSize(files[g])
         /\ files[g] # None => FileSize(files[g]) \in Nat
         /\ files[g] = None => SizeOf(g) = 0
<1>1. files[g] # None => files[g] \in Seq(Events)
  BY DEF TypeOK
<1>2. ASSUME files[g] # None PROVE FileSize(files[g]) \in Nat
  <2>1. PICK n : FileSize(files[g]) = n[Len(files[g])] /\ Sums(files[g], n)
    BY <1>1, <1>2, SizeUnfolds
  <2>2. Len(files[g]) \in Nat
    BY <1>1, <1>2
  <2> QED BY <2>1, <2>2 DEF Sums
<1> QED BY <1>1, <1>2 DEF SizeOf

\* What a step of a thread does to the files.
LEMMA ThreadFacts ==
  ASSUME IInv, FileInv, NEW e \in Events, ThreadStep(e)
  PROVE  /\ e \in Running /\ \A f \in Events : f # e => f \notin Running /\ f \notin Running' /\ thread'[f] = thread[f]
         /\ Faults' = Faults
         /\ \/ CheckSize(e)
            \/ UnlinkOldest(e)
            \/ /\ thread[e] = "shift" /\ step[e] \in 1..MaxBackups - 1 /\ files[step[e] + 1] = None
               /\ files' = (IF files[step[e]] = None THEN files ELSE Moved(step[e]))
               /\ thread' = thread /\ step'[e] = step[e] - 1 /\ history' = history
            \/ /\ thread[e] = "shift" /\ step[e] = 0 /\ files[1] = None /\ files[0] # None
               /\ files' = Moved(0) /\ thread'[e] = "open" /\ history' = history
            \/ OpenFile(e)
            \/ AppendRecord(e)
<1>0. TypeOK /\ MaxBackups \in Nat /\ MaxBackups > 0
  BY BackupsAssumption DEF IInv
<1>1. e \in Running
  BY DEF ThreadStep, CheckSize, UnlinkOldest, ShiftGeneration, OpenFile, AppendRecord, Running
<1>2. \A f \in Events : f # e => thread'[f] = thread[f]
  BY <1>0 DEF ThreadStep, CheckSize, UnlinkOldest, ShiftGeneration, OpenFile, AppendRecord, TypeOK
<1>3. \A f \in Events : f # e => f \notin Running
  BY <1>1, OneRuns
<1>4. \A f \in Events : f # e => f \notin Running'
  BY <1>2, <1>3 DEF Running
<1>5. Faults' = Faults
  BY DEF ThreadStep, CheckSize, UnlinkOldest, ShiftGeneration, OpenFile, AppendRecord, Faults
<1>6. CASE ShiftGeneration(e)
  <2>1. thread[e] = "shift" /\ step[e] \in 0..MaxBackups - 1 /\ files[step[e] + 1] = None /\ files[0] # None
        /\ history' = history
    BY <1>0, <1>6 DEF ShiftGeneration, FileInv, TypeOK, Generations
  <2>2. CASE step[e] > 0
    BY <1>0, <1>1, <1>2, <1>3, <1>4, <1>5, <1>6, <2>1, <2>2 DEF ShiftGeneration, TypeOK
  <2>3. CASE step[e] = 0
    <3>1. files' = Moved(0) /\ thread'[e] = "open" /\ files[1] = None
      BY <1>0, <1>6, <2>1, <2>3 DEF ShiftGeneration, TypeOK
    <3> QED BY <1>1, <1>2, <1>3, <1>4, <1>5, <2>1, <2>3, <3>1
  <2> QED BY <1>0, <2>1, <2>2, <2>3
<1> QED BY <1>1, <1>2, <1>3, <1>4, <1>5, <1>6 DEF ThreadStep

\* The files after a move.
LEMMA MovedFacts ==
  ASSUME TypeOK, NEW g \in 0..MaxBackups - 1, files' = Moved(g)
  PROVE  /\ files'[g] = None /\ files'[g + 1] = files[g]
         /\ \A i \in Generations : i # g /\ i # g + 1 => files'[i] = files[i]
         /\ g \in Generations /\ g + 1 \in Generations
<1>1. MaxBackups \in Nat
  BY BackupsAssumption
<1>2. g \in Generations /\ g + 1 \in Generations /\ g # g + 1
  BY <1>1 DEF Generations
<1> QED BY <1>2 DEF TypeOK, Moved

\* A record fits into the file it is appended to.
LEMMA AppendedFacts ==
  ASSUME IInv, FileInv, NEW e \in Events, AppendRecord(e)
  PROVE  /\ files'[0] \in Seq(Events) /\ files'[0] # <<>> /\ files'[0] # None
         /\ files'[0] = Contents(files[0]) \o <<e>>
         /\ FileSize(files'[0]) > MaxFileBytes => Len(files'[0]) = 1
         /\ Contents(files[0]) = <<>> => Head(files'[0]) = e
         /\ Contents(files[0]) # <<>> => Head(files'[0]) = Head(files[0])
         /\ \A i \in Generations : i # 0 => files'[i] = files[i]
<1>0. TypeOK /\ 0 \in Generations
  BY BackupsAssumption DEF IInv, Generations
<1>1. files'[0] = Appended(e) /\ \A i \in Generations : i # 0 => files'[i] = files[i]
  BY <1>0 DEF AppendRecord, TypeOK
<1>2. RecordBytes[e] \in Nat /\ MaxFileBytes \in Nat
  BY SizesAssumption
<1>p. PICK p, q : p = Contents(files[0]) /\ q = files'[0]
  OBVIOUS
<1>3. p \in Seq(Events) /\ q = Append(p, e) /\ (p # <<>> => p = files[0])
  BY <1>0, <1>1, <1>p DEF Appended, Contents, TypeOK
<1>4. q \in Seq(Events) /\ q # <<>> /\ q = p \o <<e>>
  BY <1>3
<1>5. CASE p = <<>>
  <2>1. Len(q) = 1 /\ Head(q) = e
    BY <1>3, <1>5
  <2> QED BY <1>1, <1>4, <1>5, <1>p, <2>1, NoneAssumption
<1>6. CASE p # <<>>
  <2>1. Head(q) = Head(p)
    BY <1>3, <1>6
  <2>2. FileSize(q) = FileSize(p) + RecordBytes[e]
    BY <1>3, SizeFacts
  <2>3. FileSize(p) + RecordBytes[e] <= MaxFileBytes /\ FileSize(p) \in Nat
    BY <1>3, <1>6, <1>p, SizeFacts DEF FileInv, AppendRecord
  <2>4. ~(FileSize(q) > MaxFileBytes)
    BY <1>2, <2>2, <2>3
  <2> QED BY <1>1, <1>3, <1>4, <1>6, <1>p, <2>1, <2>4, NoneAssumption
<1> QED BY <1>5, <1>6

\* A file that is opened keeps what it holds, or is new and empty.
LEMMA OpenedFacts ==
  ASSUME TypeOK, NEW e \in Events, OpenFile(e)
  PROVE  /\ files'[0] = Contents(files[0]) /\ files'[0] \in Seq(Events) /\ files'[0] # None
         /\ Contents(files'[0]) = Contents(files[0])
         /\ \A i \in Generations : i # 0 => files'[i] = files[i]
         /\ thread[e] = "open" /\ thread'[e] = "write"
<1>0. 0 \in Generations
  BY BackupsAssumption DEF Generations
<1>1. Contents(files[0]) \in Seq(Events)
  BY <1>0 DEF Contents, TypeOK
<1>2. files'[0] = Contents(files[0]) /\ \A i \in Generations : i # 0 => files'[i] = files[i]
  BY <1>0 DEF OpenFile, TypeOK
<1>3. files'[0] # None
  BY <1>1, <1>2, NoneAssumption
<1>4. thread[e] = "open" /\ thread'[e] = "write"
  BY DEF OpenFile, TypeOK
<1> QED BY <1>1, <1>2, <1>3, <1>4 DEF Contents

\* Every step keeps the files within their limits.
LEMMA FileNext ==
  ASSUME ~MayCancelOwner, IInv, FileInv, [Next]_vars
  PROVE  FileInv'
<1>0. TypeOK /\ MaxBackups \in Nat /\ MaxBackups > 0 /\ 0 \in Generations /\ MaxBackups \in Generations
  BY BackupsAssumption DEF IInv, Generations
<1>1. CASE ~\E e \in Events : ThreadStep(e)
  <2>1. Quiet
    BY <1>1, QuietStep
  <2>2. \A e \in Events : thread'[e] \in {"unlink", "shift", "open", "write"} => thread'[e] = thread[e]
    BY <2>1 DEF Quiet, Running
  <2> QED BY <2>1, <2>2 DEF Quiet, FileInv
<1>2. ASSUME NEW e \in Events, ThreadStep(e) PROVE FileInv'
  <2>f. \A f \in Events : f # e => thread'[f] \notin {"unlink", "shift", "open", "write"}
    BY <1>2, ThreadFacts DEF Running
  <2>n. RecordBytes[e] \in Nat /\ MaxFileBytes \in Nat
    BY SizesAssumption
  <2>1. CASE CheckSize(e)
    <3>1. UNCHANGED files /\ thread'[e] = IF NeedsRotation(e) THEN "unlink" ELSE "open"
      BY <1>0, <2>1 DEF CheckSize, TypeOK
    <3>2. NeedsRotation(e) => files[0] # None /\ FileSize(files[0]) + RecordBytes[e] > MaxFileBytes
      BY <1>0, SizeIs DEF NeedsRotation
    <3>3. ~NeedsRotation(e) => files[0] = None \/ FileSize(files[0]) + RecordBytes[e] <= MaxFileBytes
      BY <1>0, <2>n, SizeIs DEF NeedsRotation
    <3> QED BY <2>f, <3>1, <3>2, <3>3 DEF FileInv, Contents
  <2>2. CASE UnlinkOldest(e)
    <3>1. /\ files'[MaxBackups] = None /\ \A g \in Generations : g # MaxBackups => files'[g] = files[g]
          /\ thread'[e] = "shift" /\ step'[e] = MaxBackups - 1 /\ thread[e] = "unlink"
      BY <1>0, <2>2 DEF UnlinkOldest, TypeOK, FirstShift
    <3>2. step'[e] < MaxBackups /\ step'[e] + 1 = MaxBackups /\ files'[0] = files[0]
      BY <1>0, <3>1
    <3> QED BY <1>0, <2>f, <3>1, <3>2 DEF FileInv
  <2>3. CASE /\ thread[e] = "shift" /\ step[e] \in 1..MaxBackups - 1 /\ files[step[e] + 1] = None
             /\ files' = (IF files[step[e]] = None THEN files ELSE Moved(step[e]))
             /\ thread' = thread /\ step'[e] = step[e] - 1
    <3>g. PICK g : g = step[e]
      OBVIOUS
    <3>1. g \in 1..MaxBackups - 1 /\ g \in 0..MaxBackups - 1 /\ g \in Generations /\ 0 # g /\ 0 # g + 1
          /\ g - 1 < MaxBackups /\ (g - 1) + 1 = g
      BY <1>0, <2>3, <3>g DEF Generations
    <3>2. CASE files[g] = None
      BY <2>f, <2>3, <3>g, <3>1, <3>2 DEF FileInv
    <3>3. CASE files[g] # None
      <4>1. /\ files'[g] = None /\ files'[g + 1] = files[g]
            /\ \A i \in Generations : i # g /\ i # g + 1 => files'[i] = files[i]
        BY <1>0, <2>3, <3>g, <3>1, <3>3, MovedFacts
      <4>2. files'[0] = files[0]
        BY <1>0, <3>1, <4>1
      <4>3. ASSUME NEW i \in Generations, files'[i] # None
            PROVE  FileSize(files'[i]) > MaxFileBytes => Len(files'[i]) = 1
        <5>1. \E j \in Generations : files'[i] = files[j]
          BY <3>1, <4>1, <4>3
        <5> QED BY <4>3, <5>1 DEF FileInv
      <4> QED BY <2>f, <2>3, <3>g, <3>1, <4>1, <4>2, <4>3 DEF FileInv
    <3> QED BY <3>2, <3>3
  <2>4. CASE /\ thread[e] = "shift" /\ files[0] # None /\ files' = Moved(0) /\ thread'[e] = "open"
    <3>1. 0 \in 0..MaxBackups - 1 /\ 0 + 1 = 1
      BY <1>0
    <3>2. /\ files'[0] = None /\ files'[1] = files[0]
          /\ \A i \in Generations : i # 0 /\ i # 1 => files'[i] = files[i]
      BY <1>0, <2>4, <3>1, MovedFacts
    <3>3. ASSUME NEW i \in Generations, files'[i] # None
          PROVE  FileSize(files'[i]) > MaxFileBytes => Len(files'[i]) = 1
      <4>1. \E j \in Generations : files'[i] = files[j]
        BY <1>0, <3>2, <3>3
      <4> QED BY <3>3, <4>1 DEF FileInv
    <3> QED BY <2>f, <2>4, <3>2, <3>3 DEF FileInv, Contents
  <2>5. CASE AppendRecord(e)
    <3>1. thread'[e] = "done"
      BY <1>0, <2>5 DEF AppendRecord, TypeOK
    <3>2. ASSUME NEW i \in Generations, files'[i] # None
          PROVE  FileSize(files'[i]) > MaxFileBytes => Len(files'[i]) = 1
      <4>1. CASE i = 0
        BY <2>5, <4>1, AppendedFacts
      <4>2. CASE i # 0
        <5>1. files'[i] = files[i]
          BY <2>5, <4>2, AppendedFacts
        <5> QED BY <3>2, <5>1 DEF FileInv
      <4> QED BY <4>1, <4>2
    <3> QED BY <2>f, <3>1, <3>2 DEF FileInv
  <2>6. CASE OpenFile(e)
    <3>1. PICK p : p = Contents(files[0])
      OBVIOUS
    <3>2. /\ files'[0] = p /\ Contents(files'[0]) = p /\ thread[e] = "open" /\ thread'[e] = "write"
          /\ p \in Seq(Events) /\ \A i \in Generations : i # 0 => files'[i] = files[i]
      BY <1>0, <2>6, <3>1, OpenedFacts
    <3>3. p # <<>> => p = files[0] /\ files[0] # None
      BY <3>1 DEF Contents
    <3>4. FileSize(p) > MaxFileBytes => Len(p) = 1
      <4>1. CASE p = <<>>
        <5>1. FileSize(p) = 0
          <6>1. PICK n : FileSize(p) = n[Len(p)] /\ Sums(p, n)
            BY <3>2, SizeUnfolds
          <6> QED BY <4>1, <6>1 DEF Sums
        <5> QED BY <2>n, <5>1
      <4>2. CASE p # <<>>
        BY <1>0, <3>3, <4>2 DEF FileInv
      <4> QED BY <4>1, <4>2
    <3> QED BY <2>f, <3>1, <3>2, <3>3, <3>4 DEF FileInv
  <2> QED BY <1>2, <2>1, <2>2, <2>3, <2>4, <2>5, <2>6, ThreadFacts
<1> QED BY <1>1, <1>2

\* What a step of a thread does to what the files hold, and to the history.
LEMMA RetainedStep ==
  ASSUME IInv, TypeOK', FileInv, NEW e \in Events, ThreadStep(e)
  PROVE  /\ RetainedIn(files) \in Seq(Events) /\ RetainedIn(files') \in Seq(Events)
         /\ \/ history' = history /\ RetainedIn(files') = RetainedIn(files)
            \/ /\ UnlinkOldest(e) /\ history' = history
               /\ RetainedIn(files) = Contents(files[MaxBackups]) \o RetainedIn(files')
            \/ /\ AppendRecord(e) /\ history' = history \o <<e>>
               /\ RetainedIn(files') = RetainedIn(files) \o <<e>>
<1>0. TypeOK /\ MaxBackups \in Nat /\ MaxBackups > 0 /\ 0 \in Generations /\ MaxBackups \in Generations
  BY BackupsAssumption DEF IInv, Generations
<1>f. PICK fs, ft : fs = files /\ ft = files'
  OBVIOUS
<1>t. fs \in Files /\ ft \in Files
  BY <1>0, <1>f DEF TypeOK, Files
<1>r. RetainedIn(fs) \in Seq(Events) /\ RetainedIn(ft) \in Seq(Events)
  <2>1. MaxBackups + 1 \in 0..MaxBackups + 1
    BY <1>0
  <2>2. \A x \in Files : RetainedIn(x) \in Seq(Events)
    BY <2>1, RetainedUnfolds DEF Joins
  <2> QED BY <1>t, <2>2
<1>1. CASE CheckSize(e)
  BY <1>f, <1>r, <1>1 DEF CheckSize
<1>2. CASE UnlinkOldest(e)
  <2>1. ft = [fs EXCEPT ![MaxBackups] = None] /\ history' = history
    BY <1>f, <1>2 DEF UnlinkOldest
  <2>2. RetainedIn(fs) = Contents(fs[MaxBackups]) \o RetainedIn(ft)
    BY <1>t, <2>1, RetainedDrop
  <2> QED BY <1>f, <1>r, <1>2, <2>1, <2>2
<1>3. CASE /\ thread[e] = "shift" /\ step[e] \in 1..MaxBackups - 1 /\ files[step[e] + 1] = None
           /\ files' = (IF files[step[e]] = None THEN files ELSE Moved(step[e])) /\ history' = history
  <2>g. PICK g : g = step[e]
    OBVIOUS
  <2>1. g \in 0..MaxBackups - 1 /\ fs[g + 1] = None
    BY <1>0, <1>f, <1>3, <2>g
  <2>2. CASE files[g] = None
    BY <1>f, <1>r, <1>3, <2>g, <2>2
  <2>3. CASE files[g] # None
    <3>1. ft = [fs EXCEPT ![g] = None, ![g + 1] = fs[g]]
      BY <1>f, <1>3, <2>g, <2>3 DEF Moved
    <3>2. RetainedIn(ft) = RetainedIn(fs)
      BY <1>t, <2>1, <3>1, RetainedMove
    <3> QED BY <1>f, <1>r, <1>3, <3>2
  <2> QED BY <2>2, <2>3
<1>4. CASE files[1] = None /\ files' = Moved(0) /\ history' = history
  <2>g. PICK g : g = 0
    OBVIOUS
  <2>1. g \in 0..MaxBackups - 1 /\ fs[g + 1] = None /\ ft = [fs EXCEPT ![g] = None, ![g + 1] = fs[g]]
    BY <1>0, <1>f, <1>4, <2>g DEF Moved
  <2>2. RetainedIn(ft) = RetainedIn(fs)
    BY <1>t, <2>1, RetainedMove
  <2> QED BY <1>f, <1>r, <1>4, <2>2
<1>5. CASE AppendRecord(e)
  <2>1. history \in Seq(Events) /\ history' = Append(history, e)
    BY <1>0, <1>5 DEF AppendRecord, TypeOK
  <2>2. history' = history \o <<e>>
    BY <2>1
  <2>3. files'[0] = Contents(files[0]) \o <<e>>
    BY <1>5, AppendedFacts
  <2>4. ft = [fs EXCEPT ![0] = Contents(fs[0]) \o <<e>>]
    BY <1>0, <1>f, <1>5, <2>3 DEF AppendRecord, TypeOK
  <2>o. PICK o : o = <<e>>
    OBVIOUS
  <2>5. RetainedIn(ft) = RetainedIn(fs) \o o
    <3>1. o \in Seq(Events)
      BY <2>o
    <3> QED BY <1>t, <2>4, <2>o, <3>1, RetainedAppend
  <2> QED BY <1>f, <1>r, <1>5, <2>2, <2>5, <2>o
<1>6. CASE OpenFile(e)
  <2>1. history' = history /\ ft = [fs EXCEPT ![0] = Contents(fs[0])]
    BY <1>f, <1>6 DEF OpenFile
  <2>p. PICK p, o : p = Contents(fs[0]) /\ o = <<>>
    OBVIOUS
  <2>2. p \o o = p /\ o \in Seq(Events)
    <3>1. p \in Seq(Events)
      BY <1>0, <1>t, <2>p, ContentsTyped
    <3> QED BY <2>p, <3>1
  <2>3. RetainedIn(ft) = RetainedIn(fs) \o o
    BY <1>t, <2>1, <2>2, <2>p, RetainedAppend
  <2>4. RetainedIn(ft) = RetainedIn(fs)
    BY <1>r, <2>3, <2>p
  <2> QED BY <1>f, <1>r, <2>1, <2>4
<1> QED BY <1>1, <1>2, <1>3, <1>4, <1>5, <1>6, ThreadFacts

\* Every step keeps the most recent records.
LEMMA KeepNext ==
  ASSUME ~MayCancelOwner, IInv, TypeOK', FileInv, KeepInv, [Next]_vars
  PROVE  KeepInv'
<1>1. CASE ~\E e \in Events : ThreadStep(e)
  <2>1. Quiet
    BY <1>1, QuietStep
  <2> QED BY <2>1 DEF Quiet, KeepInv
<1>2. ASSUME NEW e \in Events, ThreadStep(e) PROVE KeepInv'
  <2>f. PICK r, q, h : r = RetainedIn(files) /\ q = RetainedIn(files') /\ h = history'
    OBVIOUS
  <2>1. PICK gone \in Seq(Events) : history = gone \o r
    BY <2>f DEF KeepInv
  <2>t. r \in Seq(Events) /\ q \in Seq(Events)
    BY <1>2, <2>f, RetainedStep
  <2>s. ASSUME NEW u \in Seq(Events), h = u \o q PROVE KeepInv'
    BY <2>f, <2>s DEF KeepInv
  <2>2. CASE history' = history /\ q = r
    BY <2>f, <2>1, <2>s, <2>2
  <2>3. CASE history' = history /\ r = Contents(files[MaxBackups]) \o q
    <3>c. PICK c : c = Contents(files[MaxBackups])
      OBVIOUS
    <3>1. c \in Seq(Events)
      <4>1. MaxBackups \in Generations /\ files \in Files
        BY BackupsAssumption DEF Generations, IInv, TypeOK, Files
      <4> QED BY <3>c, <4>1, ContentsTyped
    <3>2. gone \o (c \o q) = (gone \o c) \o q /\ gone \o c \in Seq(Events)
      BY <2>t, <3>1, ConcatAssoc, ConcatType
    <3>3. h = (gone \o c) \o q
      BY <2>f, <2>1, <2>3, <3>c, <3>2
    <3> QED BY <2>s, <3>2, <3>3
  <2>4. CASE history' = history \o <<e>> /\ q = r \o <<e>>
    <3>o. PICK o : o = <<e>>
      OBVIOUS
    <3>1. o \in Seq(Events)
      BY <3>o
    <3>2. (gone \o r) \o o = gone \o (r \o o)
      BY <2>t, <3>1, ConcatAssoc
    <3>3. h = gone \o q
      BY <2>f, <2>1, <2>4, <3>o, <3>2
    <3> QED BY <2>s, <3>3
  <2> QED BY <1>2, <2>f, <2>2, <2>3, <2>4, RetainedStep
<1> QED BY <1>1, <1>2

\* The end of a sequence is a suffix of it.
LEMMA EndIsSuffix ==
  ASSUME NEW u \in Seq(Events), NEW v \in Seq(Events)
  PROVE  IsSuffix(v, u \o v)
<1> DEFINE w == u \o v
<1>1. /\ w \in Seq(Events) /\ Len(u) \in Nat /\ Len(v) \in Nat /\ Len(w) = Len(u) + Len(v)
      /\ \A i \in Len(u) + 1..Len(u) + Len(v) : w[i] = v[i - Len(u)]
  BY ConcatFacts
<1> HIDE DEF w
<1> DEFINE a == Reverse(v)
           b == Reverse(w)
<1>2. /\ Len(a) = Len(v) /\ Len(b) = Len(w) /\ a \in Seq(Events) /\ b \in Seq(Events)
      /\ \A i \in 1..Len(v) : a[i] = v[(Len(v) - i) + 1]
      /\ \A i \in 1..Len(w) : b[i] = w[(Len(w) - i) + 1]
  BY <1>1 DEF Reverse
<1> HIDE DEF a, b
<1>3. ASSUME NEW i \in 1..Len(a) PROVE a[i] = b[i]
  <2>1. /\ i \in 1..Len(v) /\ i \in 1..Len(w) /\ (Len(w) - i) + 1 \in Len(u) + 1..Len(u) + Len(v)
        /\ ((Len(w) - i) + 1) - Len(u) = (Len(v) - i) + 1
    BY <1>1, <1>2
  <2> QED BY <1>1, <1>2, <2>1
<1>4. Len(a) \in Nat /\ Len(a) <= Len(b)
  BY <1>1, <1>2
<1>5. SubSeq(a, 1, Len(a)) = SubSeq(b, 1, Len(a))
  <2> DEFINE x == SubSeq(a, 1, Len(a))
             y == SubSeq(b, 1, Len(a))
  <2>1. /\ x \in Seq(Events) /\ Len(x) = Len(a) /\ \A i \in 1..Len(a) : x[i] = a[i]
        /\ y \in Seq(Events) /\ Len(y) = Len(a) /\ \A i \in 1..Len(a) : y[i] = b[i]
    BY <1>2, <1>4
  <2> HIDE DEF x, y
  <2>2. x = y
    BY <1>3, <2>1, SeqEqual
  <2> QED BY <2>2 DEF x, y
<1>6. IsSuffix(v, w)
  BY <1>4, <1>5 DEF IsSuffix, IsPrefix, a, b
<1> QED BY <1>6 DEF w

\* Without files nothing is retained.
LEMMA NoFiles ==
  ASSUME NEW fs \in Files, \A g \in Generations : fs[g] = None
  PROVE  RetainedIn(fs) = <<>>
<1>n. PICK n : n = MaxBackups + 1
  OBVIOUS
<1>0. n \in Nat /\ MaxBackups \in Nat
  BY <1>n, BackupsAssumption
<1>1. PICK r : RetainedIn(fs) = r[MaxBackups + 1] /\ Joins(fs, r)
  BY RetainedUnfolds
<1> DEFINE S == {i \in Nat : r[i] = <<>>}
<1>2. 0 \in S
  BY <1>1 DEF Joins
<1>3. \A i \in 0..n - 1 : i \in S => i + 1 \in S
  <2> SUFFICES ASSUME NEW i \in 0..n - 1, r[i] = <<>> PROVE r[i + 1] = <<>>
    OBVIOUS
  <2>1. i + 1 \in 1..MaxBackups + 1 /\ (i + 1) - 1 = i /\ (MaxBackups + 1) - (i + 1) \in Generations
    BY <1>0, <1>n DEF Generations
  <2>2. r[i + 1] = r[i] \o Contents(fs[(MaxBackups + 1) - (i + 1)])
    BY <1>1, <2>1 DEF Joins
  <2>3. Contents(fs[(MaxBackups + 1) - (i + 1)]) = <<>>
    BY <2>1 DEF Contents
  <2> QED BY <2>2, <2>3
<1>4. \A i \in 0..n : i \in S
  <2> HIDE DEF S
  <2> QED BY <1>0, <1>2, <1>3, Induction
<1> QED BY <1>0, <1>1, <1>4, <1>n

\* The logger starts without files and without threads.
LEMMA InitKept == Init => IInv /\ FileInv /\ KeepInv
<1> SUFFICES ASSUME Init PROVE IInv /\ FileInv /\ KeepInv
  OBVIOUS
<1>1. IInv
  <2>1. QueueSound /\ WorksForOwner
    BY DEF Init, QueueSound, WorksForOwner, Running
  <2> QED BY <2>1, InitTyped DEF IInv
<1>2. FileInv
  BY DEF Init, FileInv
<1>3. files \in Files /\ \A g \in Generations : files[g] = None
  BY DEF Init, Files
<1>4. RetainedIn(files) = <<>>
  <2>1. PICK fs : fs = files
    OBVIOUS
  <2> QED BY <1>3, <2>1, NoFiles
<1>5. history = <<>> \o RetainedIn(files)
  BY <1>4 DEF Init
<1>6. <<>> \in Seq(Events)
  OBVIOUS
<1> QED BY <1>1, <1>2, <1>5, <1>6 DEF KeepInv

\* The log is what its files hold.
LEMMA RetainedIsIn == Retained = RetainedIn(files)
  BY Zenon DEF Retained, RetainedIn

\* No file grows past its limit unless a single record does, as long as no
\* task is cancelled while its thread runs: the thread that appends has
\* checked the file that is still the current one.
THEOREM AuditBounded ==
  ASSUME ~MayCancelOwner
  PROVE  Spec => []FilesAreBounded
<1>1. Init => IInv /\ FileInv
  BY InitKept
<1>2. IInv /\ FileInv /\ [Next]_vars => IInv' /\ FileInv'
  BY NextTyped, NextSound, FileNext DEF IInv
<1>3. IInv /\ FileInv => FilesAreBounded
  <2> SUFFICES ASSUME IInv, FileInv, NEW g \in Generations, SizeOf(g) > MaxFileBytes
               PROVE  Len(files[g]) = 1
    BY DEF FilesAreBounded
  <2>1. files[g] # None
    BY SizeIs, SizesAssumption DEF IInv
  <2> QED BY <2>1, SizeIs DEF IInv, FileInv
<1> QED
  BY <1>1, <1>2, <1>3, PTL DEF Spec

\* The log is the most recent part of what was appended, also in the middle of
\* a rotation and after a crash there, as long as no task is cancelled while
\* its thread runs.
THEOREM AuditKeepsRecent ==
  ASSUME ~MayCancelOwner
  PROVE  Spec => []KeepsRecent
<1>1. Init => IInv /\ FileInv /\ KeepInv
  BY InitKept
<1>2. IInv /\ FileInv /\ KeepInv /\ [Next]_vars => IInv' /\ FileInv' /\ KeepInv'
  BY NextTyped, NextSound, FileNext, KeepNext DEF IInv
<1>3. IInv /\ FileInv /\ KeepInv => KeepsRecent
  <2> SUFFICES ASSUME IInv, KeepInv PROVE IsSuffix(Retained, history)
    BY DEF KeepsRecent
  <2>1. PICK gone \in Seq(Events) : history = gone \o RetainedIn(files)
    BY DEF KeepInv
  <2>2. RetainedIn(files) \in Seq(Events)
    <3>1. MaxBackups + 1 \in 0..MaxBackups + 1 /\ files \in Files
      BY BackupsAssumption DEF IInv, TypeOK, Files
    <3>2. \A x \in Files : RetainedIn(x) \in Seq(Events)
      BY <3>1, RetainedUnfolds DEF Joins
    <3> QED BY <3>1, <3>2
  <2>3. PICK r : r = RetainedIn(files)
    OBVIOUS
  <2>4. IsSuffix(r, gone \o r)
    BY <2>2, <2>3, EndIsSuffix
  <2> QED BY <2>1, <2>3, <2>4, RetainedIsIn
<1> QED
  BY <1>1, <1>2, <1>3, PTL DEF Spec

-----------------------------------------------------------------------------
(***************************************************************************)
(* Retention.                                                              *)
(***************************************************************************)
\* The generation before g when generation h is empty because files move.
Newer(g, h) == IF g - 1 = h THEN g - 2 ELSE g - 1

Holds(fs, g) == Contents(fs[g]) # <<>>

\* Full, when generation h is empty because files move and the record to come
\* has b bytes.
FullIn(fs, g, h, b) ==
  /\ Holds(fs, g)
  /\ IF g = 1 /\ h = 0 THEN FileSize(fs[1]) + b > MaxFileBytes
     ELSE (g > 0 /\ Holds(fs, Newer(g, h))) =>
            FileSize(fs[g]) + RecordBytes[Head(fs[Newer(g, h)])] > MaxFileBytes

\* Before a record is given up, the generations behind the oldest one that
\* holds something are not missed.
Missed(fs, g, lost) == lost \/ \E i \in Generations : i >= g /\ Holds(fs, i)

Bad(fs, h, b, lost) ==
  {g \in Generations : g # h /\ Missed(fs, g, lost) /\ ~FullIn(fs, g, h, b)}

\* No generation is empty because files move.
NoHole == MaxBackups + 1

\* A set in which one element took the place of another is not larger.
LEMMA SwapCardinality ==
  ASSUME NEW S, IsFiniteSet(S), NEW T, NEW a, NEW b, T \subseteq (S \ {a}) \cup {b}, b \in T => a \in S
  PROVE  Cardinality(T) <= Cardinality(S)
<1>1. IsFiniteSet(S \ {a}) /\ Cardinality(S \ {a}) = IF a \in S THEN Cardinality(S) - 1 ELSE Cardinality(S)
  BY FS_RemoveElement
<1>2. Cardinality(S) \in Nat /\ Cardinality(S \ {a}) \in Nat
  BY <1>1, FS_CardinalityType
<1>3. CASE b \in T
  <2>1. IsFiniteSet((S \ {a}) \cup {b}) /\ Cardinality((S \ {a}) \cup {b}) <= Cardinality(S \ {a}) + 1
    <3>1. /\ IsFiniteSet((S \ {a}) \cup {b})
          /\ Cardinality((S \ {a}) \cup {b}) = IF b \in S \ {a} THEN Cardinality(S \ {a}) ELSE Cardinality(S \ {a}) + 1
      BY <1>1, FS_AddElement
    <3> QED BY <1>2, <3>1
  <2>2. Cardinality(T) <= Cardinality((S \ {a}) \cup {b})
    BY <2>1, FS_Subset
  <2>3. Cardinality(T) \in Nat /\ Cardinality((S \ {a}) \cup {b}) \in Nat
    BY <2>1, FS_Subset, FS_CardinalityType
  <2> QED BY <1>1, <1>2, <1>3, <2>1, <2>2, <2>3
<1>4. CASE b \notin T
  <2>1. T \subseteq S
    BY <1>4
  <2> QED BY <2>1, FS_Subset
<1> QED BY <1>3, <1>4

\* There are finitely many generations.
LEMMA BadFinite ==
  ASSUME NEW fs, NEW h, NEW b, NEW lost
  PROVE  IsFiniteSet(Bad(fs, h, b, lost)) /\ Cardinality(Bad(fs, h, b, lost)) \in Nat
<1>1. IsFiniteSet(Generations)
  BY FS_Interval, BackupsAssumption DEF Generations
<1>2. Bad(fs, h, b, lost) \subseteq Generations
  BY DEF Bad
<1> QED BY <1>1, <1>2, FS_Subset, FS_CardinalityType

\* Dropping the oldest backup opens a hole there; it is missed from then on.
LEMMA BadUnlink ==
  ASSUME NEW fs, NEW ft, NEW b, NEW c, NEW lost \in BOOLEAN, NEW gone \in BOOLEAN,
         ft[MaxBackups] = None, \A g \in Generations : g # MaxBackups => ft[g] = fs[g],
         gone => lost \/ Holds(fs, MaxBackups)
  PROVE  Bad(ft, MaxBackups, c, gone) \subseteq Bad(fs, NoHole, b, lost)
<1>0. MaxBackups \in Nat /\ MaxBackups > 0 /\ MaxBackups \in Generations
  BY BackupsAssumption DEF Generations
<1> SUFFICES ASSUME NEW g \in Generations, g # MaxBackups, Missed(ft, g, gone), ~FullIn(ft, g, MaxBackups, c)
             PROVE  g \in Bad(fs, NoHole, b, lost)
  BY DEF Bad
<1>1. /\ g \in 0..MaxBackups - 1 /\ g # NoHole /\ g - 1 # NoHole /\ g - 1 # MaxBackups
      /\ NoHole # 0 /\ MaxBackups # 0 /\ MaxBackups >= g
  BY <1>0 DEF Generations, NoHole
<1>2. ft[g] = fs[g] /\ (g > 0 => ft[g - 1] = fs[g - 1])
  <2>1. g > 0 => g - 1 \in Generations
    BY <1>0, <1>1 DEF Generations
  <2> QED BY <1>1, <2>1
<1>3. Newer(g, MaxBackups) = g - 1 /\ Newer(g, NoHole) = g - 1
  BY <1>1 DEF Newer
<1>4. ~FullIn(fs, g, NoHole, b)
  BY <1>1, <1>2, <1>3 DEF FullIn, Holds
<1>5. Missed(fs, g, lost)
  <2>1. ~Holds(ft, MaxBackups)
    BY DEF Holds, Contents
  <2>2. \A i \in Generations : Holds(ft, i) => Holds(fs, i)
    BY <2>1 DEF Holds
  <2> QED BY <1>0, <1>1, <2>2 DEF Missed
<1> QED BY <1>1, <1>4, <1>5 DEF Bad

\* The place of generation g becomes the hole, and g + 1 takes over its part.
LEMMA BadShift ==
  ASSUME NEW fs, NEW ft, NEW b, NEW lost \in BOOLEAN, NEW g \in 1..MaxBackups - 1,
         fs[g + 1] = None, ft[g] = None, ft[g + 1] = fs[g],
         \A i \in Generations : i # g /\ i # g + 1 => ft[i] = fs[i]
  PROVE  Cardinality(Bad(ft, g, b, lost)) <= Cardinality(Bad(fs, g + 1, b, lost))
<1>0. MaxBackups \in Nat /\ MaxBackups > 0
  BY BackupsAssumption
<1>g. g \in Nat /\ g # 0 /\ g + 1 # 0 /\ g \in Generations /\ g + 1 \in Generations /\ g - 1 \in Generations
      /\ g # g + 1 /\ g - 1 # g /\ g - 1 # g + 1 /\ g - 1 >= 0 /\ g > 0 /\ g + 1 > 0
  BY <1>0 DEF Generations
<1>h. ~Holds(fs, g + 1) /\ ~Holds(ft, g) /\ (Holds(ft, g + 1) <=> Holds(fs, g))
      /\ \A i \in Generations : i # g /\ i # g + 1 => (Holds(ft, i) <=> Holds(fs, i))
  BY DEF Holds, Contents
<1>1. ASSUME NEW i \in Generations, i # g, i # g + 1, i \in Bad(ft, g, b, lost)
      PROVE  i \in Bad(fs, g + 1, b, lost)
  <2>1. Missed(fs, i, lost)
    <3> SUFFICES ASSUME NEW k \in Generations, k >= i, Holds(ft, k)
                 PROVE  \E l \in Generations : l >= i /\ Holds(fs, l)
      BY <1>1 DEF Bad, Missed
    <3>1. CASE k = g + 1
      <4>1. g >= i
        BY <1>1, <1>g, <3>1 DEF Generations
      <4> QED BY <1>g, <1>h, <3>1, <4>1
    <3>2. CASE k # g + 1
      BY <1>h, <3>2
    <3> QED BY <3>1, <3>2
  <2>2. ~FullIn(fs, i, g + 1, b)
    <3> SUFFICES ASSUME FullIn(fs, i, g + 1, b) PROVE FullIn(ft, i, g, b)
      BY <1>1 DEF Bad
    <3>i. i \in Nat /\ ft[i] = fs[i] /\ Holds(ft, i)
      BY <1>1, <1>h DEF FullIn, Generations
    <3>1. CASE i = g + 2
      <4>1. Newer(i, g) = g + 1 /\ Newer(i, g + 1) = g /\ i > 0
        BY <1>g, <3>1 DEF Newer
      <4> QED BY <1>g, <1>h, <3>i, <4>1 DEF FullIn
    <3>2. CASE i # g + 2 /\ i > 0
      <4>1. Newer(i, g) = i - 1 /\ Newer(i, g + 1) = i - 1 /\ i - 1 # g /\ i - 1 # g + 1 /\ i - 1 \in Generations
        BY <1>0, <1>1, <1>g, <3>2 DEF Newer, Generations
      <4>2. ft[i - 1] = fs[i - 1] /\ (Holds(ft, i - 1) <=> Holds(fs, i - 1))
        BY <1>h, <4>1
      <4> QED BY <1>g, <3>i, <3>2, <4>1, <4>2 DEF FullIn
    <3>3. CASE ~(i > 0)
      <4>1. i # 1
        BY <3>3
      <4> QED BY <3>i, <3>3, <4>1 DEF FullIn
    <3> QED BY <3>1, <3>2, <3>3
  <2> QED BY <1>1, <2>1, <2>2 DEF Bad
<1>2. ASSUME g + 1 \in Bad(ft, g, b, lost) PROVE g \in Bad(fs, g + 1, b, lost)
  <2>1. Missed(fs, g, lost)
    <3> SUFFICES ASSUME NEW k \in Generations, k >= g + 1, Holds(ft, k)
                 PROVE  \E l \in Generations : l >= g /\ Holds(fs, l)
      BY <1>2 DEF Bad, Missed
    <3>1. CASE k = g + 1
      BY <1>g, <1>h, <3>1
    <3>2. CASE k # g + 1
      <4>1. k # g /\ k >= g
        BY <1>g DEF Generations
      <4> QED BY <1>h, <3>2, <4>1
    <3> QED BY <3>1, <3>2
  <2>2. ~FullIn(fs, g, g + 1, b)
    <3> SUFFICES ASSUME FullIn(fs, g, g + 1, b) PROVE FullIn(ft, g + 1, g, b)
      BY <1>2 DEF Bad
    <3>1. Newer(g + 1, g) = g - 1 /\ Newer(g, g + 1) = g - 1
      BY <1>g DEF Newer
    <3>2. ft[g - 1] = fs[g - 1] /\ (Holds(ft, g - 1) <=> Holds(fs, g - 1))
      BY <1>g, <1>h
    <3> QED BY <1>g, <1>h, <3>1, <3>2 DEF FullIn
  <2> QED BY <1>g, <2>1, <2>2 DEF Bad
<1>3. Bad(ft, g, b, lost) \subseteq (Bad(fs, g + 1, b, lost) \ {g}) \cup {g + 1}
  <2> SUFFICES ASSUME NEW i \in Bad(ft, g, b, lost), i # g + 1 PROVE i \in Bad(fs, g + 1, b, lost) /\ i # g
    OBVIOUS
  <2>1. i \in Generations /\ i # g
    BY DEF Bad
  <2> QED BY <1>1, <2>1
<1> QED BY <1>2, <1>3, BadFinite, SwapCardinality

\* The current file becomes the newest backup because the record does not fit.
LEMMA BadCurrent ==
  ASSUME NEW fs, NEW ft, NEW b, NEW lost \in BOOLEAN, fs[1] = None, ft[0] = None, ft[1] = fs[0],
         \A i \in Generations : i # 0 /\ i # 1 => ft[i] = fs[i], FileSize(fs[0]) + b > MaxFileBytes
  PROVE  Cardinality(Bad(ft, 0, b, lost)) <= Cardinality(Bad(fs, 1, b, lost))
<1>0. MaxBackups \in Nat /\ MaxBackups > 0 /\ 0 \in Generations /\ 1 \in Generations
  BY BackupsAssumption DEF Generations
<1>h. ~Holds(fs, 1) /\ ~Holds(ft, 0) /\ (Holds(ft, 1) <=> Holds(fs, 0))
      /\ \A i \in Generations : i # 0 /\ i # 1 => (Holds(ft, i) <=> Holds(fs, i))
  BY DEF Holds, Contents
<1>1. ASSUME NEW i \in Generations, i # 0, i # 1, i \in Bad(ft, 0, b, lost)
      PROVE  i \in Bad(fs, 1, b, lost)
  <2>1. Missed(fs, i, lost)
    <3> SUFFICES ASSUME NEW k \in Generations, k >= i, Holds(ft, k)
                 PROVE  \E l \in Generations : l >= i /\ Holds(fs, l)
      BY <1>1 DEF Bad, Missed
    <3>1. k # 0 /\ k # 1
      BY <1>1 DEF Generations
    <3> QED BY <1>h, <3>1
  <2>2. ~FullIn(fs, i, 1, b)
    <3> SUFFICES ASSUME FullIn(fs, i, 1, b) PROVE FullIn(ft, i, 0, b)
      BY <1>1 DEF Bad
    <3>i. i \in Nat /\ i > 0 /\ ft[i] = fs[i] /\ Holds(ft, i)
      BY <1>1, <1>h DEF FullIn, Generations
    <3>1. CASE i = 2
      <4>1. Newer(i, 0) = 1 /\ Newer(i, 1) = 0
        BY <3>1 DEF Newer
      <4> QED BY <1>1, <1>h, <3>i, <4>1 DEF FullIn
    <3>2. CASE i # 2
      <4>1. Newer(i, 0) = i - 1 /\ Newer(i, 1) = i - 1 /\ i - 1 # 0 /\ i - 1 # 1 /\ i - 1 \in Generations
        BY <1>0, <1>1, <3>2 DEF Newer, Generations
      <4>2. ft[i - 1] = fs[i - 1] /\ (Holds(ft, i - 1) <=> Holds(fs, i - 1))
        BY <1>h, <4>1
      <4> QED BY <1>1, <3>i, <4>1, <4>2 DEF FullIn
    <3> QED BY <3>1, <3>2
  <2> QED BY <1>1, <2>1, <2>2 DEF Bad
<1>2. ASSUME 1 \in Bad(ft, 0, b, lost) PROVE 0 \in Bad(fs, 1, b, lost)
  <2>1. ~Holds(fs, 0)
    BY <1>2, <1>h DEF Bad, FullIn
  <2>2. Missed(fs, 0, lost)
    <3> SUFFICES ASSUME NEW k \in Generations, k >= 1, Holds(ft, k)
                 PROVE  \E l \in Generations : l >= 0 /\ Holds(fs, l)
      BY <1>2 DEF Bad, Missed
    <3>1. CASE k = 1
      BY <1>h, <2>1, <3>1
    <3>2. CASE k # 1
      <4>1. k # 0 /\ k >= 0
        BY DEF Generations
      <4> QED BY <1>h, <3>2, <4>1
    <3> QED BY <3>1, <3>2
  <2> QED BY <1>0, <2>1, <2>2 DEF Bad, FullIn
<1>3. Bad(ft, 0, b, lost) \subseteq (Bad(fs, 1, b, lost) \ {0}) \cup {1}
  <2> SUFFICES ASSUME NEW i \in Bad(ft, 0, b, lost), i # 1 PROVE i \in Bad(fs, 1, b, lost) /\ i # 0
    OBVIOUS
  <2>1. i \in Generations /\ i # 0
    BY DEF Bad
  <2> QED BY <1>1, <2>1
<1> QED BY <1>2, <1>3, BadFinite, SwapCardinality

\* A record is to begin a file that was missed until now.
LEMMA BadBegin ==
  ASSUME NEW fs, NEW b, NEW c, NEW lost \in BOOLEAN, ~Holds(fs, 0)
  PROVE  Cardinality(Bad(fs, 0, b, lost)) <= Cardinality(Bad(fs, NoHole, c, lost))
<1>0. MaxBackups \in Nat /\ MaxBackups > 0 /\ 0 \in Generations /\ NoHole # 0 /\ NoHole \notin Generations
  BY BackupsAssumption DEF Generations, NoHole
<1>1. ASSUME NEW i \in Generations, i # 0, i # 1, i \in Bad(fs, 0, b, lost)
      PROVE  i \in Bad(fs, NoHole, c, lost)
  <2>1. Newer(i, 0) = i - 1 /\ Newer(i, NoHole) = i - 1
    BY <1>0, <1>1 DEF Newer, Generations, NoHole
  <2>2. ~FullIn(fs, i, NoHole, c)
    BY <1>0, <1>1, <2>1 DEF Bad, FullIn
  <2> QED BY <1>0, <1>1, <2>2 DEF Bad
<1>2. ASSUME 1 \in Bad(fs, 0, b, lost) PROVE 0 \in Bad(fs, NoHole, c, lost)
  <2>1. Missed(fs, 0, lost)
    <3>1. Missed(fs, 1, lost)
      BY <1>2 DEF Bad
    <3>2. \A k \in Generations : k >= 1 => k >= 0
      BY DEF Generations
    <3> QED BY <3>1, <3>2 DEF Missed
  <2> QED BY <1>0, <2>1 DEF Bad, FullIn
<1>3. Bad(fs, 0, b, lost) \subseteq (Bad(fs, NoHole, c, lost) \ {0}) \cup {1}
  <2> SUFFICES ASSUME NEW i \in Bad(fs, 0, b, lost), i # 1 PROVE i \in Bad(fs, NoHole, c, lost) /\ i # 0
    OBVIOUS
  <2>1. i \in Generations /\ i # 0
    BY DEF Bad
  <2> QED BY <1>1, <2>1
<1> QED BY <1>2, <1>3, BadFinite, SwapCardinality

\* A new current file begins with the record that did not fit into the old one;
\* a record that fits leaves the beginning of the file as it was.
LEMMA BadAppend ==
  ASSUME NEW fs, NEW ft, NEW b, NEW c, NEW h, NEW e, NEW lost \in BOOLEAN, Holds(ft, 0),
         (h = 0 /\ b = RecordBytes[e] /\ Head(ft[0]) = e) \/ (h = NoHole /\ Holds(fs, 0) /\ Head(ft[0]) = Head(fs[0])),
         \A i \in Generations : i # 0 => ft[i] = fs[i]
  PROVE  Bad(ft, NoHole, c, lost) \subseteq Bad(fs, h, b, lost)
<1>0. MaxBackups \in Nat /\ MaxBackups > 0 /\ NoHole # 0 /\ NoHole \notin Generations
  BY BackupsAssumption DEF NoHole, Generations
<1> SUFFICES ASSUME NEW g \in Generations, Missed(ft, g, lost), ~FullIn(ft, g, NoHole, c)
             PROVE  g \in Bad(fs, h, b, lost)
  BY DEF Bad
<1>1. g # 0 /\ g > 0 /\ g # h
  <2>1. FullIn(ft, 0, NoHole, c)
    BY DEF FullIn
  <2>2. g # 0
    BY <2>1
  <2> QED BY <1>0, <2>2 DEF Generations
<1>2. ft[g] = fs[g] /\ (Holds(ft, g) <=> Holds(fs, g))
  BY <1>1 DEF Holds
<1>3. Missed(fs, g, lost)
  <2> SUFFICES ASSUME NEW k \in Generations, k >= g, Holds(ft, k)
               PROVE  \E l \in Generations : l >= g /\ Holds(fs, l)
    BY DEF Missed
  <2>1. k # 0
    BY <1>1 DEF Generations
  <2> QED BY <2>1 DEF Holds
<1>4. ~FullIn(fs, g, h, b)
  <2> SUFFICES ASSUME FullIn(fs, g, h, b) PROVE FullIn(ft, g, NoHole, c)
    OBVIOUS
  <2>n. Newer(g, NoHole) = g - 1 /\ g - 1 \in Generations
    BY <1>0, <1>1 DEF Newer, Generations, NoHole
  <2>1. CASE g = 1
    <3>1. g - 1 = 0 /\ Newer(g, NoHole) = 0
      BY <2>1, <2>n
    <3>2. CASE h = 0 /\ b = RecordBytes[e] /\ Head(ft[0]) = e
      BY <1>0, <1>1, <1>2, <2>1, <3>1, <3>2 DEF FullIn
    <3>3. CASE h = NoHole /\ Holds(fs, 0) /\ Head(ft[0]) = Head(fs[0])
      BY <1>0, <1>1, <1>2, <2>1, <3>1, <3>3 DEF FullIn
    <3> QED BY <3>2, <3>3
  <2>2. CASE g # 1
    <3>1. Newer(g, h) = g - 1 /\ g - 1 # 0
      BY <1>0, <1>1, <2>2, <2>n DEF Newer, Generations
    <3>2. ft[g - 1] = fs[g - 1] /\ (Holds(ft, g - 1) <=> Holds(fs, g - 1))
      BY <2>n, <3>1 DEF Holds
    <3> QED BY <1>1, <1>2, <2>2, <2>n, <3>1, <3>2 DEF FullIn
  <2> QED BY <2>1, <2>2
<1> QED BY <1>1, <1>3, <1>4 DEF Bad

\* An append cut short leaves its hole behind, and nothing else.
LEMMA BadFault ==
  ASSUME NEW fs, NEW b, NEW c, NEW h, NEW lost \in BOOLEAN, h = NoHole \/ (h \in Generations /\ ~Holds(fs, h))
  PROVE  Cardinality(Bad(fs, NoHole, c, lost)) <= Cardinality(Bad(fs, h, b, lost)) + 1
<1>0. MaxBackups \in Nat /\ MaxBackups > 0 /\ NoHole # 0 /\ NoHole \notin Generations
  BY BackupsAssumption DEF NoHole, Generations
<1>1. Bad(fs, NoHole, c, lost) \subseteq Bad(fs, h, b, lost) \cup {h}
  <2> SUFFICES ASSUME NEW g \in Generations, g # h, Missed(fs, g, lost), FullIn(fs, g, h, b)
               PROVE  FullIn(fs, g, NoHole, c)
    BY DEF Bad
  <2>1. g \in Nat /\ g - 1 # NoHole /\ Newer(g, NoHole) = g - 1
    BY <1>0 DEF Generations, NoHole, Newer
  <2>2. CASE g - 1 = h
    BY <1>0, <2>1, <2>2 DEF FullIn
  <2>3. CASE g - 1 # h
    <3>1. Newer(g, h) = g - 1 /\ ~(g = 1 /\ h = 0)
      BY <2>3 DEF Newer
    <3> QED BY <1>0, <2>1, <3>1 DEF FullIn
  <2> QED BY <2>2, <2>3
<1>2. IsFiniteSet(Bad(fs, h, b, lost)) /\ Cardinality(Bad(fs, h, b, lost)) \in Nat
  BY BadFinite
<1>3. /\ IsFiniteSet(Bad(fs, h, b, lost) \cup {h})
      /\ Cardinality(Bad(fs, h, b, lost) \cup {h}) <= Cardinality(Bad(fs, h, b, lost)) + 1
      /\ Cardinality(Bad(fs, h, b, lost) \cup {h}) \in Nat
  <2>1. /\ IsFiniteSet(Bad(fs, h, b, lost) \cup {h})
        /\ Cardinality(Bad(fs, h, b, lost) \cup {h}) =
             IF h \in Bad(fs, h, b, lost) THEN Cardinality(Bad(fs, h, b, lost)) ELSE Cardinality(Bad(fs, h, b, lost)) + 1
    BY <1>2, FS_AddElement
  <2> QED BY <1>2, <2>1
<1>4. Cardinality(Bad(fs, NoHole, c, lost)) <= Cardinality(Bad(fs, h, b, lost) \cup {h})
      /\ Cardinality(Bad(fs, NoHole, c, lost)) \in Nat
  BY <1>1, <1>3, FS_Subset, FS_CardinalityType
<1> QED BY <1>2, <1>3, <1>4

\* Without a hole the record to come does not matter.
LEMMA AnyRecord ==
  ASSUME NEW fs, NEW b, NEW c, NEW lost
  PROVE  Bad(fs, NoHole, b, lost) = Bad(fs, NoHole, c, lost)
<1>1. NoHole # 0
  BY BackupsAssumption DEF NoHole
<1> QED BY <1>1 DEF Bad, FullIn

\* The generation that is empty because the thread of event e moves files.
Hole(e) ==
  IF thread[e] = "shift" THEN step[e] + 1
  ELSE IF thread[e] \in {"open", "write"} /\ ~Holds(files, 0) THEN 0
  ELSE NoHole

Lost == Len(RetainedIn(files)) < Len(history)

\* The faults account for what is missing and for what is not full, but for
\* the hole that a running thread has opened.
Chained(h, b) == Cardinality(Bad(files, h, b, Lost)) <= Faults

ChainInv ==
  /\ \A e \in Running : Chained(Hole(e), RecordBytes[e])
  /\ Running = {} => Chained(NoHole, 0)

\* A step of a thread gives a record up only with the oldest backup.
LEMMA LostStep ==
  ASSUME IInv, TypeOK', FileInv, NEW e \in Events, ThreadStep(e), Lost'
  PROVE  Lost \/ (UnlinkOldest(e) /\ Holds(files, MaxBackups))
<1>f. PICK r, q, h, k : r = RetainedIn(files) /\ q = RetainedIn(files') /\ h = history /\ k = history'
  OBVIOUS
<1>1. /\ r \in Seq(Events) /\ q \in Seq(Events) /\ h \in Seq(Events) /\ k \in Seq(Events)
      /\ Len(q) < Len(k)
  BY <1>f, RetainedStep DEF IInv, TypeOK, Lost
<1>2. CASE k = h /\ q = r
  BY <1>f, <1>1, <1>2 DEF Lost
<1>3. CASE UnlinkOldest(e) /\ k = h /\ r = Contents(files[MaxBackups]) \o q
  <2>1. CASE ~Holds(files, MaxBackups)
    <3>1. r = q
      BY <1>1, <1>3, <2>1 DEF Holds
    <3> QED BY <1>f, <1>1, <1>3, <3>1 DEF Lost
  <2> QED BY <1>3, <2>1
<1>4. CASE k = h \o <<e>> /\ q = r \o <<e>>
  <2>1. Len(k) = Len(h) + 1 /\ Len(q) = Len(r) + 1 /\ Len(r) \in Nat /\ Len(h) \in Nat
    BY <1>1, <1>4
  <2>2. Len(r) < Len(h)
    BY <1>1, <2>1
  <2> QED BY <1>f, <2>2 DEF Lost
<1> QED BY <1>f, <1>2, <1>3, <1>4, RetainedStep

\* Every step keeps the account.
LEMMA ChainNext ==
  ASSUME ~MayCancelOwner, IInv, TypeOK', FileInv, ChainInv, [Next]_vars
  PROVE  ChainInv'
<1>0. TypeOK /\ MaxBackups \in Nat /\ MaxBackups > 0 /\ 0 \in Generations /\ MaxBackups \in Generations
  BY BackupsAssumption DEF IInv, Generations
<1>t. Lost \in BOOLEAN /\ Lost' \in BOOLEAN /\ Faults \in Nat
  BY <1>0 DEF Lost, Faults, TypeOK
<1>f. PICK fs, ft, lost, gone : fs = files /\ ft = files' /\ lost = Lost /\ gone = Lost'
  OBVIOUS
<1>c. \A h, b, l : Cardinality(Bad(fs, h, b, l)) \in Nat /\ Cardinality(Bad(ft, h, b, l)) \in Nat
  BY BadFinite
<1>1. CASE ~\E e \in Events : ThreadStep(e)
  <2>1. Quiet
    BY <1>1, QuietStep
  <2>2. gone = lost /\ ft = fs
    BY <1>f, <2>1 DEF Quiet, Lost
  <2>3. ASSUME NEW e \in Running' PROVE (Chained(Hole(e), RecordBytes[e]))'
    <3>h. PICK b : b = RecordBytes[e]
      OBVIOUS
    <3>0. Faults' = Faults
      BY <2>1, <2>3 DEF Quiet
    <3>1. CASE thread'[e] = thread[e]
      <4>1. e \in Running /\ Hole(e)' = Hole(e)
        BY <2>1, <2>3, <3>1 DEF Quiet, Running, Hole
      <4>2. Chained(Hole(e), RecordBytes[e])
        BY <4>1 DEF ChainInv
      <4> QED BY <1>f, <2>2, <3>0, <4>1, <4>2 DEF Chained
    <3>2. CASE Running = {} /\ thread'[e] = "check"
      <4>1. Hole(e)' = NoHole
        BY <3>2 DEF Hole
      <4>2. Cardinality(Bad(fs, NoHole, 0, lost)) <= Faults
        BY <1>f, <3>2 DEF ChainInv, Chained
      <4>3. Bad(fs, NoHole, 0, lost) = Bad(fs, NoHole, b, lost)
        BY AnyRecord
      <4> QED BY <1>f, <2>2, <3>0, <3>h, <4>1, <4>2, <4>3 DEF Chained
    <3> QED BY <2>1, <2>3, <3>1, <3>2 DEF Quiet
  <2>4. ASSUME Running' = {} PROVE Chained(NoHole, 0)'
    <3>1. CASE Running = {}
      <4>1. Cardinality(Bad(fs, NoHole, 0, lost)) <= Faults
        BY <1>f, <3>1 DEF ChainInv, Chained
      <4>2. Cardinality(Bad(fs, NoHole, 0, lost)) <= Faults'
        BY <1>c, <1>t, <2>1, <4>1 DEF Quiet
      <4> QED BY <1>f, <2>2, <4>2 DEF Chained
    <3>2. ASSUME NEW e \in Running PROVE Chained(NoHole, 0)'
      <4>1. Faults' = Faults + 1
        BY <2>1, <2>4, <3>2 DEF Quiet
      <4>h. PICK h, b : h = Hole(e) /\ b = RecordBytes[e]
        OBVIOUS
      <4>2. Cardinality(Bad(fs, h, b, lost)) <= Faults
        BY <1>f, <3>2, <4>h DEF ChainInv, Chained
      <4>3. h = NoHole \/ (h \in Generations /\ ~Holds(fs, h))
        <5>1. CASE thread[e] = "shift"
          <6>1. h = step[e] + 1 /\ step[e] \in Generations /\ step[e] < MaxBackups /\ fs[step[e] + 1] = None
            BY <1>0, <1>f, <3>2, <4>h, <5>1 DEF Hole, FileInv, TypeOK, Running
          <6>2. h \in Generations
            BY <1>0, <6>1 DEF Generations
          <6> QED BY <6>1, <6>2 DEF Holds, Contents
        <5>2. CASE thread[e] # "shift"
          BY <1>0, <1>f, <4>h, <5>2 DEF Hole
        <5> QED BY <5>1, <5>2
      <4>4. Cardinality(Bad(fs, NoHole, 0, lost)) <= Cardinality(Bad(fs, h, b, lost)) + 1
        BY <1>f, <1>t, <4>3, BadFault
      <4>5. Cardinality(Bad(fs, NoHole, 0, lost)) <= Faults'
        BY <1>c, <1>t, <4>1, <4>2, <4>4
      <4> QED BY <1>f, <2>2, <4>5 DEF Chained
    <3> QED BY <3>1, <3>2
  <2> QED BY <2>3, <2>4 DEF ChainInv
<1>2. ASSUME NEW e \in Events, ThreadStep(e) PROVE ChainInv'
  <2>0. /\ e \in Running /\ Faults' = Faults /\ \A f \in Running' : f = e
    BY <1>2, ThreadFacts DEF Running
  <2>h. PICK h, b : h = Hole(e) /\ b = RecordBytes[e]
    OBVIOUS
  <2>1. Cardinality(Bad(fs, h, b, lost)) <= Faults
    BY <1>f, <2>0, <2>h DEF ChainInv, Chained
  <2>2. gone => lost \/ (UnlinkOldest(e) /\ Holds(fs, MaxBackups))
    BY <1>2, <1>f, LostStep
  <2>m. lost => gone
    <3>f. PICK r, q, k, l : r = RetainedIn(files) /\ q = RetainedIn(files') /\ k = history /\ l = history'
      OBVIOUS
    <3>1. r \in Seq(Events) /\ q \in Seq(Events) /\ k \in Seq(Events) /\ l \in Seq(Events)
      BY <1>0, <1>2, <3>f, RetainedStep DEF TypeOK
    <3>2. CASE l = k /\ q = r
      BY <1>f, <3>f, <3>2 DEF Lost
    <3>3. CASE l = k /\ r = Contents(files[MaxBackups]) \o q
      <4>p. PICK p : p = Contents(files[MaxBackups])
        OBVIOUS
      <4>1. p \in Seq(Events)
        BY <1>0, <4>p, ContentsTyped DEF TypeOK, Files
      <4>2. Len(r) = Len(p) + Len(q) /\ Len(p) \in Nat /\ Len(q) \in Nat /\ Len(k) \in Nat
        BY <3>1, <3>3, <4>1, <4>p
      <4>3. Len(r) < Len(k) => Len(q) < Len(l)
        BY <3>3, <4>2
      <4> QED BY <1>f, <3>f, <4>3 DEF Lost
    <3>4. CASE l = k \o <<e>> /\ q = r \o <<e>>
      <4>1. Len(l) = Len(k) + 1 /\ Len(q) = Len(r) + 1 /\ Len(r) \in Nat /\ Len(k) \in Nat
        BY <3>1, <3>4
      <4>2. Len(r) < Len(k) => Len(q) < Len(l)
        BY <4>1
      <4> QED BY <1>f, <3>f, <4>2 DEF Lost
    <3> QED BY <1>2, <3>f, <3>2, <3>3, <3>4, RetainedStep
  <2>n. ~UnlinkOldest(e) => gone = lost
    BY <1>f, <1>t, <2>2, <2>m
  <2>s. ASSUME NEW k, e \in Running', Hole(e)' = k, Cardinality(Bad(ft, k, b, gone)) <= Faults
        PROVE  ChainInv'
    <3>1. (Chained(Hole(e), RecordBytes[e]))'
      BY <1>f, <2>0, <2>h, <2>s DEF Chained
    <3> QED BY <2>0, <2>s, <3>1 DEF ChainInv
  <2>3. CASE CheckSize(e)
    <3>1. ft = fs /\ thread[e] = "check" /\ thread'[e] \in {"unlink", "open"} /\ h = NoHole /\ ~UnlinkOldest(e)
      BY <1>0, <1>f, <2>3, <2>h DEF CheckSize, TypeOK, Hole, UnlinkOldest
    <3>2. e \in Running'
      BY <3>1 DEF Running
    <3>3. CASE thread'[e] = "open" /\ ~Holds(fs, 0)
      <4>1. Hole(e)' = 0
        BY <1>f, <3>1, <3>3 DEF Hole
      <4>2. Cardinality(Bad(fs, 0, b, lost)) <= Cardinality(Bad(fs, NoHole, b, lost))
        BY <1>f, <1>t, <3>3, BadBegin
      <4>3. Cardinality(Bad(ft, 0, b, gone)) <= Faults
        BY <1>c, <1>t, <2>1, <2>n, <3>1, <4>2
      <4> QED BY <2>s, <3>2, <4>1, <4>3
    <3>4. CASE ~(thread'[e] = "open" /\ ~Holds(fs, 0))
      <4>1. Hole(e)' = NoHole
        BY <1>f, <3>1, <3>4 DEF Hole
      <4> QED BY <2>1, <2>n, <2>s, <3>1, <3>2, <4>1
    <3> QED BY <3>3, <3>4
  <2>4. CASE UnlinkOldest(e)
    <3>1. /\ ft[MaxBackups] = None /\ \A g \in Generations : g # MaxBackups => ft[g] = fs[g]
          /\ thread'[e] = "shift" /\ step'[e] = MaxBackups - 1 /\ thread[e] = "unlink"
      BY <1>0, <1>f, <2>4 DEF UnlinkOldest, TypeOK, FirstShift
    <3>2. Hole(e)' = MaxBackups /\ h = NoHole /\ e \in Running'
      BY <1>0, <2>h, <3>1 DEF Hole, Running
    <3>3. Bad(ft, MaxBackups, b, gone) \subseteq Bad(fs, NoHole, b, lost)
      BY <1>f, <1>t, <2>2, <3>1, BadUnlink
    <3>4. Cardinality(Bad(ft, MaxBackups, b, gone)) <= Cardinality(Bad(fs, NoHole, b, lost))
      BY <3>3, BadFinite, FS_Subset
    <3>5. Cardinality(Bad(ft, MaxBackups, b, gone)) <= Faults
      BY <1>c, <1>t, <2>1, <3>2, <3>4
    <3> QED BY <2>s, <3>2, <3>5
  <2>5. CASE /\ thread[e] = "shift" /\ step[e] \in 1..MaxBackups - 1 /\ files[step[e] + 1] = None
             /\ files' = (IF files[step[e]] = None THEN files ELSE Moved(step[e]))
             /\ thread' = thread /\ step'[e] = step[e] - 1 /\ history' = history
    <3>g. PICK g : g = step[e]
      OBVIOUS
    <3>1. g \in 1..MaxBackups - 1 /\ g \in 0..MaxBackups - 1 /\ (g - 1) + 1 = g /\ h = g + 1 /\ fs[g + 1] = None
      BY <1>0, <1>f, <2>5, <2>h, <3>g DEF Hole
    <3>2. Hole(e)' = g /\ e \in Running' /\ ~UnlinkOldest(e)
      BY <2>5, <3>g, <3>1 DEF Hole, Running, UnlinkOldest
    <3>3. /\ ft[g] = None /\ ft[g + 1] = fs[g]
          /\ \A i \in Generations : i # g /\ i # g + 1 => ft[i] = fs[i]
      <4>1. CASE fs[g] = None
        BY <1>f, <2>5, <3>g, <3>1, <4>1
      <4>2. CASE fs[g] # None
        BY <1>0, <1>f, <2>5, <3>g, <3>1, <4>2, MovedFacts
      <4> QED BY <4>1, <4>2
    <3>4. Cardinality(Bad(ft, g, b, gone)) <= Cardinality(Bad(fs, g + 1, b, lost))
      BY <1>f, <1>t, <2>n, <3>1, <3>2, <3>3, BadShift
    <3>5. Cardinality(Bad(ft, g, b, gone)) <= Faults
      BY <1>c, <1>t, <2>1, <3>1, <3>4
    <3> QED BY <2>s, <3>2, <3>5
  <2>6. CASE /\ thread[e] = "shift" /\ step[e] = 0 /\ files[1] = None /\ files[0] # None
             /\ files' = Moved(0) /\ thread'[e] = "open" /\ history' = history
    <3>1. 0 \in 0..MaxBackups - 1 /\ 0 + 1 = 1
      BY <1>0
    <3>2. /\ ft[0] = None /\ ft[1] = fs[0] /\ fs[1] = None /\ fs[0] # None
          /\ \A i \in Generations : i # 0 /\ i # 1 => ft[i] = fs[i]
      BY <1>0, <1>f, <2>6, <3>1, MovedFacts
    <3>3. FileSize(fs[0]) + b > MaxFileBytes
      BY <1>f, <2>h, <2>6 DEF FileInv
    <3>4. h = 1 /\ Hole(e)' = 0 /\ e \in Running' /\ ~UnlinkOldest(e)
      BY <1>f, <2>6, <2>h, <3>1, <3>2 DEF Hole, Running, UnlinkOldest, Holds, Contents
    <3>5. Cardinality(Bad(ft, 0, b, gone)) <= Cardinality(Bad(fs, 1, b, lost))
      BY <1>f, <1>t, <2>n, <3>2, <3>3, <3>4, BadCurrent
    <3>6. Cardinality(Bad(ft, 0, b, gone)) <= Faults
      BY <1>c, <1>t, <2>1, <3>4, <3>5
    <3> QED BY <2>s, <3>4, <3>6
  <2>7. CASE OpenFile(e)
    <3>1. /\ ft[0] = Contents(fs[0]) /\ Contents(ft[0]) = Contents(fs[0])
          /\ \A i \in Generations : i # 0 => ft[i] = fs[i]
          /\ thread[e] = "open" /\ thread'[e] = "write" /\ ~UnlinkOldest(e)
      BY <1>0, <1>f, <2>7, OpenedFacts DEF UnlinkOldest
    <3>2. /\ \A i \in Generations : Holds(ft, i) <=> Holds(fs, i)
          /\ \A i \in Generations : Holds(ft, i) => ft[i] = fs[i]
      BY <1>0, <3>1 DEF Holds, Contents
    <3>3. Hole(e)' = h /\ e \in Running' /\ (h = 0 \/ h = NoHole)
      BY <1>0, <1>f, <2>h, <3>1, <3>2 DEF Hole, Running
    <3>4. Bad(ft, h, b, lost) \subseteq Bad(fs, h, b, lost)
      <4> SUFFICES ASSUME NEW g \in Generations, g # h, FullIn(fs, g, h, b) PROVE FullIn(ft, g, h, b)
        BY <3>2 DEF Bad, Missed
      <4>1. CASE g = 1 /\ h = 0
        BY <3>2, <4>1 DEF FullIn
      <4>2. CASE g > 0 /\ ~(g = 1 /\ h = 0)
        <5>1. Newer(g, h) = g - 1 /\ g - 1 \in Generations
          BY <1>0, <3>3, <4>2 DEF Newer, Generations, NoHole
        <5> QED BY <3>2, <4>2, <5>1 DEF FullIn
      <4>3. CASE ~(g > 0) /\ g # 1
        BY <3>2, <4>3 DEF FullIn
      <4> QED BY <4>1, <4>2, <4>3 DEF Generations
    <3>5. Cardinality(Bad(ft, h, b, lost)) <= Cardinality(Bad(fs, h, b, lost))
      BY <3>4, BadFinite, FS_Subset
    <3>6. Cardinality(Bad(ft, h, b, gone)) <= Faults
      BY <1>c, <1>t, <2>1, <2>n, <3>1, <3>5
    <3> QED BY <2>s, <3>3, <3>6
  <2>8. CASE AppendRecord(e)
    <3>1. /\ Holds(ft, 0) /\ (~Holds(fs, 0) => Head(ft[0]) = e) /\ (Holds(fs, 0) => Head(ft[0]) = Head(fs[0]))
          /\ \A i \in Generations : i # 0 => ft[i] = fs[i]
      BY <1>f, <2>8, AppendedFacts DEF Holds, Contents
    <3>2. thread'[e] = "done" /\ thread[e] = "write" /\ ~UnlinkOldest(e)
      BY <1>0, <2>8 DEF AppendRecord, TypeOK, UnlinkOldest
    <3>3. Running' = {}
      BY <2>0, <3>2 DEF Running
    <3>4. h = IF Holds(fs, 0) THEN NoHole ELSE 0
      BY <1>f, <2>h, <3>2 DEF Hole
    <3>5. Bad(ft, NoHole, 0, lost) \subseteq Bad(fs, h, b, lost)
      <4>1. (h = 0 /\ b = RecordBytes[e] /\ Head(ft[0]) = e) \/ (h = NoHole /\ Holds(fs, 0) /\ Head(ft[0]) = Head(fs[0]))
        <5>1. CASE Holds(fs, 0)
          BY <3>1, <3>4, <5>1
        <5>2. CASE ~Holds(fs, 0)
          BY <2>h, <3>1, <3>4, <5>2
        <5> QED BY <5>1, <5>2
      <4> QED BY <1>f, <1>t, <3>1, <4>1, BadAppend
    <3>6. Cardinality(Bad(ft, NoHole, 0, lost)) <= Cardinality(Bad(fs, h, b, lost))
      BY <3>5, BadFinite, FS_Subset
    <3>7. Cardinality(Bad(ft, NoHole, 0, gone)) <= Faults'
      BY <1>c, <1>t, <2>0, <2>1, <2>n, <3>2, <3>6
    <3> QED BY <1>f, <3>3, <3>7 DEF ChainInv, Chained
  <2> QED BY <1>2, <2>3, <2>4, <2>5, <2>6, <2>7, <2>8, ThreadFacts
<1> QED BY <1>1, <1>2

\* Once a record is given up, all generations are there and full, except for
\* at most one for each append that a crash or a failing system call has cut
\* short, as long as no task is cancelled while its thread runs.
THEOREM AuditRetention ==
  ASSUME ~MayCancelOwner
  PROVE  Spec => []RetentionIsFull
<1>1. Init => IInv /\ FileInv /\ ChainInv
  <2> SUFFICES ASSUME Init PROVE ChainInv
    BY InitKept
  <2>1. files \in Files /\ \A g \in Generations : files[g] = None
    BY DEF Init, Files
  <2>2. RetainedIn(files) = <<>>
    <3>1. PICK fs : fs = files
      OBVIOUS
    <3> QED BY <2>1, <3>1, NoFiles
  <2>3. ~Lost /\ Running = {} /\ Faults = 0
    BY <2>2 DEF Init, Lost, Running, Faults
  <2>4. Bad(files, NoHole, 0, Lost) = {}
    BY <2>1, <2>3 DEF Bad, Missed, Holds, Contents
  <2> QED BY <2>3, <2>4, FS_EmptySet DEF ChainInv, Chained
<1>2. IInv /\ FileInv /\ ChainInv /\ [Next]_vars => IInv' /\ FileInv' /\ ChainInv'
  BY NextTyped, NextSound, FileNext, ChainNext DEF IInv
<1>3. IInv /\ FileInv /\ ChainInv => RetentionIsFull
  <2> SUFFICES ASSUME IInv, ChainInv, Running = {}, Len(Retained) < Len(history)
               PROVE  Cardinality({g \in Generations : ~Full(g)}) <= crashes + errors
    BY DEF RetentionIsFull
  <2>0. MaxBackups \in Nat /\ NoHole # 0 /\ TypeOK
    BY BackupsAssumption DEF NoHole, IInv
  <2>1. Lost /\ Cardinality(Bad(files, NoHole, 0, Lost)) <= crashes + errors
    BY RetainedIsIn DEF ChainInv, Chained, Lost, Faults
  <2>2. {g \in Generations : ~Full(g)} \subseteq Bad(files, NoHole, 0, Lost)
    <3> SUFFICES ASSUME NEW g \in Generations, FullIn(files, g, NoHole, 0) PROVE Full(g)
      BY <2>0, <2>1 DEF Bad, Missed, NoHole, Generations
    <3>1. g # NoHole /\ Newer(g, NoHole) = g - 1 /\ (g > 0 => g - 1 \in Generations)
      BY <2>0 DEF Generations, NoHole, Newer
    <3>2. files[g] # None /\ SizeOf(g) = FileSize(files[g])
      BY <2>0, SizeIs DEF FullIn, Holds, Contents
    <3> QED BY <2>0, <3>1, <3>2 DEF FullIn, Full, Holds
  <2>3. /\ Cardinality({g \in Generations : ~Full(g)}) <= Cardinality(Bad(files, NoHole, 0, Lost))
        /\ Cardinality({g \in Generations : ~Full(g)}) \in Nat
        /\ Cardinality(Bad(files, NoHole, 0, Lost)) \in Nat
    BY <2>2, BadFinite, FS_Subset, FS_CardinalityType
  <2>4. crashes \in Nat /\ errors \in Nat
    BY <2>0, BoundsAssumption DEF TypeOK
  <2>5. Cardinality(Bad(files, NoHole, 0, Lost)) <= crashes + errors
    BY <2>1
  <2> QED BY <2>3, <2>4, <2>5
<1> QED
  BY <1>1, <1>2, <1>3, PTL DEF Spec

=============================================================================
