------------------------------ MODULE AuditLog ------------------------------
(***************************************************************************)
(* JsonlAuditLogger of audit.py: connection tasks call log(), which takes  *)
(* an asyncio.Lock and hands _append to a worker thread.  The thread       *)
(* rotates the file when the record does not fit and appends the record.   *)
(*                                                                         *)
(* Events are numbered in the order of the calls.  The current file is     *)
(* generation 0, "audit.jsonl.i" is generation i.  A cancelled task leaves *)
(* its thread running; a crash of the process leaves only the files, an    *)
(* OSError ends the append where it is.  A record is written whole or not  *)
(* at all.                                                                 *)
(***************************************************************************)
EXTENDS Integers, Sequences, FiniteSets, SequencesExt

CONSTANTS
  Tasks,         \* connection tasks that write audit events
  None,          \* no task; no file
  MaxEvents,     \* bound on the events of a behaviour
  RecordBytes,   \* encoded length of each record
  MaxFileBytes,  \* max_file_bytes
  MaxBackups,    \* max_backups
  MayCancelOwner, \* a task may be cancelled while its thread appends
  MaxCrashes,    \* bound on crashes of the process
  MaxErrors      \* bound on system calls that fail

Events == 1..MaxEvents

ASSUME BoundsAssumption == MaxEvents \in Nat /\ MaxCrashes \in Nat /\ MaxErrors \in Nat /\ None \notin Tasks
ASSUME NoneAssumption == None \notin Events /\ None \notin Seq(Events)
ASSUME SizesAssumption == RecordBytes \in [Events -> Nat \ {0}] /\ MaxFileBytes \in Nat
ASSUME BackupsAssumption == MaxBackups \in Nat \ {0}
ASSUME CancelAssumption == MayCancelOwner \in BOOLEAN

Generations == 0..MaxBackups

VARIABLES
  event,    \* per task: the event it logs, None when it logs none
  owner,    \* the task that holds the lock
  waiters,  \* the tasks that wait for the lock, first come first served
  thread,   \* per event: where the thread that appends it is
  step,     \* per event: the generation the rotation moves next
  files,    \* per generation: the events in the file, None when there is no file
  history,  \* the events appended so far, in order
  next,     \* the number of the next event
  crashes,
  errors    \* appends that raised

vars == <<event, owner, waiters, thread, step, files, history, next, crashes, errors>>

Init ==
  /\ event = [t \in Tasks |-> None]
  /\ owner = None /\ waiters = <<>>
  /\ thread = [e \in Events |-> "none"]
  /\ step = [e \in Events |-> 0]
  /\ files = [g \in Generations |-> None]
  /\ history = <<>> /\ next = 1 /\ crashes = 0 /\ errors = 0

-----------------------------------------------------------------------------
Running == {e \in Events : thread[e] \in {"check", "unlink", "shift", "open", "write"}}

FileSize(records) == FoldLeft(LAMBDA n, e : n + RecordBytes[e], 0, records)

SizeOf(g) == IF files[g] = None THEN 0 ELSE FileSize(files[g])

\* (slip) the lock is not taken
LockFree_Always == TRUE

LockFree == owner = None /\ waiters = <<>>

\* log: the event is handed to a thread when the lock is free.
Log(t) ==
  /\ event[t] = None /\ next <= MaxEvents
  /\ event' = [event EXCEPT ![t] = next]
  /\ next' = next + 1
  /\ \/ /\ LockFree
        /\ owner' = t
        /\ thread' = [thread EXCEPT ![next] = "check"]
        /\ UNCHANGED waiters
     \/ /\ ~LockFree
        /\ waiters' = Append(waiters, t)
        /\ UNCHANGED <<owner, thread>>
  /\ UNCHANGED <<step, files, history, crashes, errors>>

\* (slip) the next task in line is not woken
Release_NoWake == owner' = None /\ UNCHANGED <<waiters, thread>>

\* Leaving "async with": the first waiter gets the lock and starts its thread.
Release ==
  IF waiters = <<>> THEN owner' = None /\ UNCHANGED <<waiters, thread>>
  ELSE /\ owner' = Head(waiters)
       /\ waiters' = Tail(waiters)
       /\ thread' = [thread EXCEPT ![event[Head(waiters)]] = "check"]

\* to_thread returns or raises; _write_audit_event swallows the exception.
LogReturns(t) ==
  /\ owner = t /\ thread[event[t]] \in {"done", "failed"}
  /\ event' = [event EXCEPT ![t] = None]
  /\ Release
  /\ UNCHANGED <<step, files, history, next, crashes, errors>>

\* The connection is torn down around a task that waits for the lock or for
\* its thread: the lock is given up, the thread is not stopped.
Cancel(t) ==
  /\ event[t] # None /\ (owner = t => MayCancelOwner)
  /\ event' = [event EXCEPT ![t] = None]
  /\ IF owner = t THEN Release
     ELSE /\ \E i \in 1..Len(waiters) :
                waiters[i] = t /\ waiters' = RemoveAt(waiters, i)
          /\ UNCHANGED <<owner, thread>>
  /\ UNCHANGED <<step, files, history, next, crashes, errors>>

-----------------------------------------------------------------------------
(***************************************************************************)
(* The thread of event e: _append and _rotate_if_needed, one action per    *)
(* system call that another thread or a crash can come between.            *)
(***************************************************************************)
\* (slip) a record that fills the file exactly counts as too large
NeedsRotation_Early(e) == files[0] # None /\ SizeOf(0) + RecordBytes[e] >= MaxFileBytes

\* (slip) the incoming record is not counted
NeedsRotation_IgnoresRecord(e) == files[0] # None /\ SizeOf(0) > MaxFileBytes

NeedsRotation(e) == files[0] # None /\ SizeOf(0) + RecordBytes[e] > MaxFileBytes

CheckSize(e) ==
  /\ thread[e] = "check"
  /\ thread' = [thread EXCEPT ![e] = IF NeedsRotation(e) THEN "unlink" ELSE "open"]
  /\ UNCHANGED <<event, owner, waiters, step, files, history, next, crashes, errors>>

\* The backups are moved from the second oldest to the newest.
FirstShift == MaxBackups - 1

UnlinkOldest(e) ==
  /\ thread[e] = "unlink"
  /\ files' = [files EXCEPT ![MaxBackups] = None]
  /\ thread' = [thread EXCEPT ![e] = "shift"]
  /\ step' = [step EXCEPT ![e] = FirstShift]
  /\ UNCHANGED <<event, owner, waiters, history, next, crashes, errors>>

\* The files after generation g took the place of generation g + 1.
Moved(g) == [files EXCEPT ![g] = None, ![g + 1] = files[g]]

\* A missing backup is skipped; the current file must be there to be moved.
ShiftGeneration(e) ==
  /\ thread[e] = "shift"
  /\ LET g == step[e]
     IN  \/ /\ g > 0
            /\ files' = IF files[g] = None THEN files ELSE Moved(g)
            /\ step' = [step EXCEPT ![e] = g - 1]
            /\ UNCHANGED thread
         \/ /\ g = 0
            /\ files' = IF files[0] = None THEN files ELSE Moved(0)
            /\ thread' = [thread EXCEPT ![e] = IF files[0] = None THEN "failed" ELSE "open"]
            /\ UNCHANGED step
  /\ UNCHANGED <<event, owner, waiters, history, next, crashes, errors>>

Contents(file) == IF file = None THEN <<>> ELSE file

\* open(..., "a") makes the file when there is none.
OpenFile(e) ==
  /\ thread[e] = "open"
  /\ files' = [files EXCEPT ![0] = Contents(files[0])]
  /\ thread' = [thread EXCEPT ![e] = "write"]
  /\ UNCHANGED <<event, owner, waiters, step, history, next, crashes, errors>>

\* (slip) the file is opened with "w"
Appended_Truncates(e) == <<e>>

Appended(e) == Append(Contents(files[0]), e)

AppendRecord(e) ==
  /\ thread[e] = "write"
  /\ files' = [files EXCEPT ![0] = Appended(e)]
  /\ history' = Append(history, e)
  /\ thread' = [thread EXCEPT ![e] = "done"]
  /\ UNCHANGED <<event, owner, waiters, step, next, crashes, errors>>

ThreadStep(e) ==
  CheckSize(e) \/ UnlinkOldest(e) \/ ShiftGeneration(e) \/ OpenFile(e) \/ AppendRecord(e)

\* The next system call raises: the files stay as they are, also in the middle
\* of a rotation.
AppendFails(e) ==
  /\ errors < MaxErrors /\ e \in Running
  /\ errors' = errors + 1
  /\ thread' = [thread EXCEPT ![e] = "failed"]
  /\ UNCHANGED <<event, owner, waiters, step, files, history, next, crashes>>

\* The process is killed and started again: tasks, threads and lock are new.
Crash ==
  /\ crashes < MaxCrashes
  /\ crashes' = crashes + 1
  /\ event' = [t \in Tasks |-> None]
  /\ owner' = None /\ waiters' = <<>>
  /\ thread' = [e \in Events |-> IF e \in Running THEN "failed" ELSE thread[e]]
  /\ UNCHANGED <<step, files, history, next, errors>>

-----------------------------------------------------------------------------
Next ==
  \/ \E t \in Tasks : Log(t) \/ LogReturns(t) \/ Cancel(t)
  \/ \E e \in Events : ThreadStep(e) \/ AppendFails(e)
  \/ Crash

Spec == Init /\ [][Next]_vars

\* The event loop resumes a task whose thread has ended; threads are run.
FairSpec == /\ Spec
            /\ \A t \in Tasks : WF_vars(LogReturns(t))
            /\ \A e \in Events : WF_vars(ThreadStep(e))

-----------------------------------------------------------------------------
TypeOK ==
  /\ event \in [Tasks -> Events \cup {None}]
  /\ owner \in Tasks \cup {None}
  /\ waiters \in Seq(Tasks)
  /\ thread \in [Events -> {"none", "check", "unlink", "shift", "open", "write", "done", "failed"}]
  /\ step \in [Events -> Generations]
  /\ files \in [Generations -> Seq(Events) \cup {None}]
  /\ history \in Seq(Events)
  /\ next \in 1..MaxEvents + 1
  /\ crashes \in 0..MaxCrashes /\ errors \in 0..MaxErrors

\* At most one thread works on the files: "Serialize append-only JSONL
\* writes" (class docstring).
AppendsAreSerial == Cardinality(Running) <= 1

\* The backups from the oldest to the newest and then the current file.
OldestFirst == [i \in 1..MaxBackups + 1 |-> MaxBackups + 1 - i]

Retained == FoldLeft(LAMBDA log, g : log \o Contents(files[g]), <<>>, OldestFirst)

\* Read from the oldest backup to the current file, the log is the most recent
\* part of what was appended, in order and without gaps, at every step of a
\* rotation, also after a crash or an error in the middle of one: only the
\* oldest records are ever given up.
KeepsRecent == IsSuffix(Retained, history)

\* There is a file of generation g, and a backup was closed because the next
\* record did not fit in.
Full(g) ==
  /\ Contents(files[g]) # <<>>
  /\ (g > 0 /\ Contents(files[g - 1]) # <<>>) =>
       SizeOf(g) + RecordBytes[Head(files[g - 1])] > MaxFileBytes

\* Records are not given up early: once one is gone, all generations are there
\* and full, except for at most one for each append that a crash or an error
\* has cut short, although the rotation left half done begins again at the
\* oldest backup and unlinks that one too.
RetentionIsFull ==
  (Running = {} /\ Len(Retained) < Len(history)) =>
    Cardinality({g \in Generations : ~Full(g)}) <= crashes + errors

\* A file exceeds its limit only when a single record does.
FilesAreBounded ==
  \A g \in Generations : SizeOf(g) > MaxFileBytes => Len(files[g]) = 1

\* Every call of log returns, unless the process crashes or the task is
\* cancelled, which end the call as well.
EveryLogReturns == \A t \in Tasks : event[t] # None ~> event[t] = None

=============================================================================
