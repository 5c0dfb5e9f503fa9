------------------------------ MODULE Workers -------------------------------
(***************************************************************************)
(* What the connections share: the event loop, the pool of threads behind  *)
(* asyncio.to_thread, the confirmation provider with its one dialog at a   *)
(* time, and the audit log with its lock.                                  *)
(*                                                                         *)
(* Each connection judges one statement after the other: _evaluate_and_    *)
(* decide asks the operator when the policy says so and writes an audit    *)
(* event before the statement is sent on or refused.  Dialogs and audit    *)
(* writes run in the same threads; a thread that waits for the dialog lock *)
(* is taken for as long as it waits.  What the log files look like is left *)
(* to AuditLog, what the policy says to Policy.                            *)
(***************************************************************************)
EXTENDS Naturals, Sequences, SequencesExt, FiniteSets

CONSTANTS
  Connections,       \* places for connections; one that ended can be taken again
  Threads,           \* the threads of the pool
  Nobody             \* neither

ASSUME WorkersAssumption == Nobody \notin Connections \cup Threads

VARIABLES
  provider,          \* the confirmation provider, fixed
  auditing,          \* an audit logger is configured and enabled, fixed
  loop,              \* the connection that blocks the event loop, or Nobody
  task,              \* per connection: what it waits for
  req,               \* per connection: the statement it judges
  jobs,              \* the queue of the pool
  thread,            \* per thread: its job, and how far it is
  dialogLock,        \* the thread that holds _dialog_lock, or Nobody
  auditLock,         \* who wants the audit lock; the first has it or gets it next
  event              \* the statement the last step sent on, if it did

vars == <<provider, auditing, loop, task, req, jobs, thread, dialogLock, auditLock, event>>
pool == <<jobs, thread, dialogLock>>

Providers == {"popup", "cli", "approve", "deny"}
Actions   == {"ALLOW", "CONFIRM", "BLOCK"}
Gestures  == {"proceed", "cancel", "escape", "enter", "close"}
Lines     == {"y", "other"}

\* said: whether the operator meant yes; log: what became of its audit event.
Blank   == [action |-> "none", said |-> "nothing", approved |-> FALSE, log |-> "none"]
Nothing == Blank
YesNo(b) == IF b THEN "yes" ELSE "no"
Free    == [kind |-> "none", for |-> Nobody, at |-> "idle"]
Waiting == {"confirm", "answered", "raised", "lock", "audit", "written"}

Init ==
  /\ provider \in Providers /\ auditing \in BOOLEAN
  /\ loop = Nobody
  /\ task = [c \in Connections |-> "idle"]
  /\ req = [c \in Connections |-> Blank]
  /\ jobs = <<>> /\ thread = [t \in Threads |-> Free]
  /\ dialogLock = Nobody /\ auditLock = <<>>
  /\ event = Nothing

Running == loop = Nobody
Fixed   == UNCHANGED <<provider, auditing>>

-----------------------------------------------------------------------------
(***************************************************************************)
(* A connection's task on the event loop.                                  *)
(***************************************************************************)
Submit(kind, c) == jobs' = Append(jobs, [kind |-> kind, for |-> c])

\* The end of _evaluate_and_decide: the statement r is sent on or refused.
Decided(c, r) ==
  /\ task' = [task EXCEPT ![c] = "idle"]
  /\ req' = [req EXCEPT ![c] = Blank]
  /\ event' = IF r.approved THEN r ELSE Nothing

\* _write_audit_event and log: with the lock free the write is handed to the
\* pool at once, otherwise the task queues up for the lock.
Record(c, r) ==
  IF auditing
    THEN /\ auditLock' = Append(auditLock, c)
         /\ req' = [req EXCEPT ![c] = r]
         /\ event' = Nothing
         /\ IF auditLock = <<>>
              THEN Submit("append", c) /\ task' = [task EXCEPT ![c] = "audit"]
              ELSE UNCHANGED jobs /\ task' = [task EXCEPT ![c] = "lock"]
    ELSE Decided(c, r) /\ UNCHANGED <<auditLock, jobs>>

\* (slip) the dialog runs on the event loop
AskPopup_OnLoop(c, r) ==
  /\ loop' = c
  /\ task' = [task EXCEPT ![c] = "confirm"] /\ req' = [req EXCEPT ![c] = r]
  /\ UNCHANGED <<jobs, auditLock>> /\ event' = Nothing

\* PopupConfirmationProvider.confirm
AskPopup(c, r) ==
  /\ Submit("dialog", c)
  /\ task' = [task EXCEPT ![c] = "confirm"] /\ req' = [req EXCEPT ![c] = r]
  /\ UNCHANGED <<loop, auditLock>> /\ event' = Nothing

\* CliConfirmationProvider.confirm: input() blocks the event loop.
AskCli(c, r) ==
  /\ loop' = c
  /\ task' = [task EXCEPT ![c] = "confirm"] /\ req' = [req EXCEPT ![c] = r]
  /\ UNCHANGED <<jobs, auditLock>> /\ event' = Nothing

\* _evaluate_and_decide up to its first wait.
Judge(c, action) ==
  LET r == [Blank EXCEPT !.action = action]
  IN  /\ Running /\ task[c] = "idle"
      /\ \/ action # "CONFIRM" /\ Record(c, [r EXCEPT !.approved = (action = "ALLOW")])
                               /\ UNCHANGED loop
         \/ action = "CONFIRM" /\ provider = "popup" /\ AskPopup(c, r)
         \/ action = "CONFIRM" /\ provider = "cli" /\ AskCli(c, r)
         \/ action = "CONFIRM" /\ provider \in {"approve", "deny"}
                               /\ Record(c, [r EXCEPT !.said = YesNo(provider = "approve"),
                                                      !.approved = (provider = "approve")])
                               /\ UNCHANGED loop
      /\ UNCHANGED <<thread, dialogLock>> /\ Fixed

\* The operator's line at the prompt: only y is yes.
CliAnswers(line) ==
  /\ loop # Nobody
  /\ loop' = Nobody
  /\ Record(loop, [req[loop] EXCEPT !.said = YesNo(line = "y"), !.approved = (line = "y")])
  /\ UNCHANGED <<thread, dialogLock>> /\ Fixed

\* The prompt cannot be read, and the connection ends.
CliRaises ==
  /\ loop # Nobody
  /\ loop' = Nobody
  /\ task' = [task EXCEPT ![loop] = "ended"] /\ req' = [req EXCEPT ![loop] = Blank]
  /\ event' = Nothing
  /\ UNCHANGED <<pool, auditLock>> /\ Fixed

\* The dialog's thread is done: on to the audit event, or, when the dialog
\* could not be shown, the connection ends.
ConfirmReturns(c) ==
  /\ Running
  /\ \/ /\ task[c] = "answered"
        /\ Record(c, req[c])
     \/ /\ task[c] = "raised"
        /\ task' = [task EXCEPT ![c] = "ended"] /\ req' = [req EXCEPT ![c] = Blank]
        /\ UNCHANGED <<jobs, auditLock>> /\ event' = Nothing
  /\ UNCHANGED <<loop, thread, dialogLock>> /\ Fixed

\* The lock is passed on to the task that has waited longest.
AuditLockAcquired(c) ==
  /\ Running /\ task[c] = "lock" /\ Head(auditLock) = c
  /\ Submit("append", c)
  /\ task' = [task EXCEPT ![c] = "audit"]
  /\ event' = Nothing
  /\ UNCHANGED <<loop, req, thread, dialogLock, auditLock>> /\ Fixed

\* The write is over; a failed one is reported and otherwise ignored.
LogReturns(c) ==
  /\ Running /\ task[c] = "written"
  /\ auditLock' = Tail(auditLock)
  /\ Decided(c, req[c])
  /\ UNCHANGED <<loop, pool>> /\ Fixed

\* (slip) the thread goes on for whoever is at the connection's place
Abandoned_Kept(job, c) == job

\* A running job whose task is cancelled goes on for nobody.
Abandoned(job, c) == IF job.for = c THEN [job EXCEPT !.for = Nobody] ELSE job

\* The task is cancelled where it waits: its peer has gone or the proxy stops.
\* A job still in the queue is dropped, a running one goes on for nobody, and
\* the audit lock is given back although the write may go on.
Cancel(c) ==
  /\ Running /\ task[c] \in Waiting
  /\ task' = [task EXCEPT ![c] = "ended"] /\ req' = [req EXCEPT ![c] = Blank]
  /\ jobs' = RemoveFirstMatch(jobs, LAMBDA j : j.for = c)
  /\ thread' = [t \in Threads |-> Abandoned(thread[t], c)]
  /\ auditLock' = RemoveFirst(auditLock, c)
  /\ event' = Nothing
  /\ UNCHANGED <<loop, dialogLock>> /\ Fixed

\* A new connection.
Accept(c) ==
  /\ Running /\ task[c] = "ended"
  /\ task' = [task EXCEPT ![c] = "idle"]
  /\ event' = Nothing
  /\ UNCHANGED <<loop, req, pool, auditLock>> /\ Fixed

-----------------------------------------------------------------------------
(***************************************************************************)
(* The threads.                                                            *)
(***************************************************************************)
ThreadOnly == UNCHANGED <<loop, auditLock>> /\ event' = Nothing /\ Fixed

StartJob(t) ==
  /\ thread[t] = Free /\ jobs # <<>>
  /\ thread' = [thread EXCEPT ![t] =
       [kind |-> Head(jobs).kind, for |-> Head(jobs).for,
        at |-> IF Head(jobs).kind = "dialog" THEN "locking" ELSE "writing"]]
  /\ jobs' = Tail(jobs)
  /\ UNCHANGED <<task, req, dialogLock>> /\ ThreadOnly

\* (slip) no lock
AcquireDialog_Unlocked(t) ==
  /\ thread[t].at = "locking"
  /\ dialogLock' = t
  /\ thread' = [thread EXCEPT ![t].at = "opening"]
  /\ UNCHANGED <<task, req, jobs>> /\ ThreadOnly

AcquireDialog(t) ==
  /\ thread[t].at = "locking" /\ dialogLock = Nobody
  /\ dialogLock' = t
  /\ thread' = [thread EXCEPT ![t].at = "opening"]
  /\ UNCHANGED <<task, req, jobs>> /\ ThreadOnly

DialogOpens(t) ==
  /\ thread[t].at = "opening"
  /\ thread' = [thread EXCEPT ![t].at = "open"]
  /\ UNCHANGED <<task, req, jobs, dialogLock>> /\ ThreadOnly

\* The job of t is over; r is the statement as it leaves it.
Returns(t, state, r) ==
  LET c == thread[t].for
  IN  /\ thread' = [thread EXCEPT ![t] = Free]
      /\ task' = IF c = Nobody THEN task ELSE [task EXCEPT ![c] = state]
      /\ req' = IF c = Nobody THEN req ELSE [req EXCEPT ![c] = r]

\* (slip) the lock is not released when the dialog raises
DialogRaises_Locked(t) ==
  /\ thread[t].at = "opening"
  /\ Returns(t, "raised", req[thread[t].for])
  /\ UNCHANGED <<jobs, dialogLock>> /\ ThreadOnly

\* Tk is missing or there is no display.
DialogRaises(t) ==
  /\ thread[t].at = "opening"
  /\ dialogLock' = Nobody
  /\ Returns(t, "raised", req[thread[t].for])
  /\ UNCHANGED jobs /\ ThreadOnly

\* (slip) Return takes the button on the right
Finish_Enter(gesture) == gesture \in {"proceed", "enter"}

\* What finish is called with.
Finish(gesture) == gesture = "proceed"

\* The operator ends the dialog.
DialogEnds(t, gesture) ==
  /\ thread[t].at = "open"
  /\ dialogLock' = Nobody
  /\ Returns(t, "answered",
             [req[thread[t].for] EXCEPT !.said = YesNo(gesture = "proceed"),
                                        !.approved = Finish(gesture)])
  /\ UNCHANGED jobs /\ ThreadOnly

\* _append writes the event or raises.
Appends(t, outcome) ==
  /\ thread[t].at = "writing"
  /\ Returns(t, "written", [req[thread[t].for] EXCEPT !.log = outcome])
  /\ UNCHANGED <<jobs, dialogLock>> /\ ThreadOnly

-----------------------------------------------------------------------------
Resume(c) == ConfirmReturns(c) \/ AuditLockAcquired(c) \/ LogReturns(c)

Proceeds(t) == DialogOpens(t) \/ DialogRaises(t) \/ \E o \in {"recorded", "failed"} : Appends(t, o)

Operator == \/ CliRaises \/ \E line \in Lines : CliAnswers(line)
            \/ \E t \in Threads, g \in Gestures : DialogEnds(t, g)

Peers == \E c \in Connections :
           Cancel(c) \/ Accept(c) \/ \E action \in Actions : Judge(c, action)

Next == \/ \E c \in Connections : Resume(c)
        \/ \E t \in Threads : StartJob(t) \/ AcquireDialog(t) \/ Proceeds(t)
        \/ Operator \/ Peers

\* The event loop resumes every task whose wait is over: it keeps them in
\* line, so a prompt that blocks it again and again delays them but does not
\* pass them over.  An idle thread takes the next job and a running one
\* proceeds.  A thread that waits for the dialog lock is not passed over for
\* ever.  The operator owes nothing.
Fairness ==
  /\ \A c \in Connections : SF_vars(Resume(c))
  /\ WF_vars(\E t \in Threads : StartJob(t))
  /\ \A t \in Threads : WF_vars(Proceeds(t)) /\ SF_vars(AcquireDialog(t))

FairSpec == Init /\ [][Next]_vars /\ Fairness

-----------------------------------------------------------------------------
\* What a job of the pool is for a task that waits for it.
Serves(kind) == IF kind = "dialog" THEN "confirm" ELSE "audit"

\* The answer of a thread goes to the statement it was asked about: a job in
\* the queue or in a thread belongs to a task that waits for a job of this
\* kind, and no task has two.  A dialog that outlives its connection answers
\* nobody, also not the next connection in the same place, which may be
\* asking about a statement of its own (PopupConfirmationProvider.confirm,
\* JsonlAuditLogger.log, cancelled in asyncio.to_thread).
AnswersReachTheirStatement ==
  /\ \A t \in Threads : LET c == thread[t].for
                        IN  c # Nobody => task[c] = Serves(thread[t].kind)
  /\ \A i \in 1..Len(jobs) : task[jobs[i].for] = Serves(jobs[i].kind)
  /\ \A t, u \in Threads : thread[t].for = thread[u].for => t = u \/ thread[t].for = Nobody
  /\ \A i, j \in 1..Len(jobs) : jobs[i].for = jobs[j].for => i = j
  /\ \A t \in Threads, i \in 1..Len(jobs) : thread[t].for # jobs[i].for

\* At most one dialog is on the screen, whichever connections ask and
\* whichever were cancelled while theirs was open (_dialog_lock).
DialogsAreSerial == \A t, u \in Threads : thread[t].at = "open" /\ thread[u].at = "open" => t = u

\* A statement that needed a confirmation is sent on only if the operator
\* chose Proceed, or typed y, for that very statement; every other gesture,
\* closing the window and the Return key included, refuses it.  And whatever
\* is sent on was written to the log before, or the write failed.
SentWasApproved ==
  event # Nothing =>
    /\ event.action = "ALLOW" \/ event.said = "yes"
    /\ auditing => event.log \in {"recorded", "failed"}

\* As long as every dialog and every prompt is answered sooner or later, every
\* statement is decided or its connection ends: dialogs that wait for each
\* other cannot take all threads from the audit writes for good, and a dialog
\* that raised or whose connection is gone does not hold up the next.
EveryRequestIsDecided ==
  []<>(Running /\ \A t \in Threads : thread[t].at # "open") =>
    \A c \in Connections : task[c] \in Waiting ~> task[c] \notin Waiting

\* While the pool has a thread to spare now and then, a statement that needs no
\* confirmation does not wait for the operator, however long a dialog is open.
AllowedIsNotHeldUp ==
  (provider = "popup" /\ []<>(\E t \in Threads : thread[t] = Free)) =>
    \A c \in Connections :
      (task[c] \in Waiting /\ req[c].action # "CONFIRM") ~> task[c] \notin Waiting

=============================================================================
