---------------------------- MODULE WorkersProofs ----------------------------
(***************************************************************************)
(* Proofs about Workers, for any number of connections and threads and     *)
(* every confirmation provider.                                            *)
(*                                                                         *)
(* None of the three invariants is inductive by itself.  That at most one  *)
(* dialog is open needs to know who holds the dialog lock.  That an answer *)
(* reaches the statement it was asked about needs that the prompt and the  *)
(* dialogs are never used together, and that a thread is what its job is.  *)
(* That only approved statements are sent on needs what is known of a      *)
(* statement at each stage.                                                *)
(***************************************************************************)
EXTENDS Workers, Facts

Statement == [action : Actions \cup {"none"}, said : {"nothing", "yes", "no"},
              approved : BOOLEAN, log : {"none", "recorded", "failed"}]

Job == [kind : {"dialog", "append"}, for : Connections]

Typed ==
  /\ provider \in Providers /\ auditing \in BOOLEAN
  /\ loop \in Connections \cup {Nobody}
  /\ task \in [Connections -> {"idle", "ended"} \cup Waiting]
  /\ req \in [Connections -> Statement]
  /\ jobs \in Seq(Job)
  /\ thread \in [Threads -> [kind : {"none", "dialog", "append"},
                             for : Connections \cup {Nobody},
                             at : {"idle", "locking", "opening", "open", "writing"}]]
  /\ dialogLock \in Threads \cup {Nobody}
  /\ auditLock \in Seq(Connections)
  /\ event \in Statement

\* Where a thread is fits its job, and who shows a dialog holds the lock.
ThreadsAreSound ==
  \A t \in Threads :
    /\ thread[t].at \in {"locking", "opening", "open"} => thread[t].kind = "dialog"
    /\ thread[t].at = "writing" => thread[t].kind = "append"
    /\ thread[t].at = "idle" => thread[t] = Free
    /\ thread[t].at \in {"opening", "open"} => dialogLock = t

\* The prompt is used without threads, dialogs never block the event loop.
OneWayToAsk ==
  /\ loop # Nobody => provider = "cli" /\ task[loop] = "confirm"
  /\ \A t \in Threads : thread[t].kind = "dialog" => provider = "popup"
  /\ \A i \in 1..Len(jobs) : jobs[i].kind = "dialog" => provider = "popup"

\* An approval comes from the policy or from the operator.
Justified(r) == r.approved => r.action = "ALLOW" \/ r.said = "yes"

Written(r) == r.log \in {"recorded", "failed"}

StatementsAreSound ==
  \A c \in Connections : Justified(req[c]) /\ (task[c] = "written" => Written(req[c]))

IInv == /\ Typed /\ ThreadsAreSound /\ OneWayToAsk /\ StatementsAreSound
        /\ AnswersReachTheirStatement /\ SentWasApproved

\* No job of the pool is for c.
Unserved(c) == /\ \A t \in Threads : thread[t].for # c
               /\ \A i \in 1..Len(jobs) : jobs[i].for # c

-----------------------------------------------------------------------------
\* Nothing is under way at the start.
LEMMA InitInv == Init => IInv
  <1> SUFFICES ASSUME Init PROVE IInv
    OBVIOUS
  <1> USE DEF Init, Blank, Nothing, Free
  <1>1. Typed
    BY DEF Typed, Statement, Waiting
  <1>2. ThreadsAreSound /\ OneWayToAsk
    BY DEF ThreadsAreSound, OneWayToAsk
  <1>3. StatementsAreSound
    BY DEF StatementsAreSound, Justified
  <1>4. AnswersReachTheirStatement /\ SentWasApproved
    BY DEF AnswersReachTheirStatement, SentWasApproved
  <1> QED BY <1>1, <1>2, <1>3, <1>4 DEF IInv

\* A task that waits for no job has none.
LEMMA IdleIsUnserved ==
  ASSUME IInv, NEW c \in Connections, task[c] \notin {"confirm", "audit"} \/ loop = c
  PROVE  Unserved(c)
  <1> USE WorkersAssumption DEF IInv
  <1>1. ASSUME NEW t \in Threads PROVE thread[t].for # c
    BY DEF AnswersReachTheirStatement, Serves, OneWayToAsk, Typed
  <1>2. ASSUME NEW i \in 1..Len(jobs) PROVE jobs[i].for # c
    <2>1. jobs[i] \in Job
      BY DEF Typed
    <2> QED BY <2>1 DEF AnswersReachTheirStatement, Serves, OneWayToAsk, Job
  <1> QED BY <1>1, <1>2 DEF Unserved

\* A job is handed to the pool for a task that had none and now waits for it.
LEMMA SubmitStep ==
  ASSUME IInv, NEW c \in Connections, NEW kind \in {"dialog", "append"}, Unserved(c),
         Submit(kind, c), task' = [task EXCEPT ![c] = Serves(kind)], UNCHANGED thread
  PROVE  /\ jobs' \in Seq(Job) /\ AnswersReachTheirStatement'
         /\ \A i \in 1..Len(jobs') : jobs'[i].kind = "dialog" =>
              kind = "dialog" \/ provider = "popup"
  <1> DEFINE j == [kind |-> kind, for |-> c]
  <1>1. /\ j \in Job /\ jobs \in Seq(Job) /\ jobs' = Append(jobs, j)
        /\ task \in [Connections -> {"idle", "ended"} \cup Waiting]
        /\ j.kind = kind /\ j.for = c
    BY DEF IInv, Typed, Job, Submit
  <1> HIDE DEF j
  <1>2. /\ jobs' \in Seq(Job) /\ Len(jobs) \in Nat /\ Len(jobs') = Len(jobs) + 1
        /\ \A i \in 1..Len(jobs) : jobs'[i] = jobs[i] /\ jobs[i] \in Job
        /\ jobs'[Len(jobs) + 1] = j
    BY <1>1, AppendFacts
  <1>3. \A i \in 1..Len(jobs') : i \in 1..Len(jobs) \/ i = Len(jobs) + 1
    BY <1>2
  <1>4. /\ task'[c] = Serves(kind)
        /\ \A d \in Connections : d # c => task'[d] = task[d]
    BY <1>1
  <1>5. AnswersReachTheirStatement'
    <2>1. \A t \in Threads : LET d == thread'[t].for
                             IN  d # Nobody => task'[d] = Serves(thread'[t].kind)
      BY <1>4 DEF IInv, AnswersReachTheirStatement, Unserved, Typed
    <2>2. \A i \in 1..Len(jobs') : task'[jobs'[i].for] = Serves(jobs'[i].kind)
      BY <1>1, <1>2, <1>3, <1>4 DEF IInv, AnswersReachTheirStatement, Unserved, Job
    <2>3. \A t, u \in Threads : thread'[t].for = thread'[u].for => t = u \/ thread'[t].for = Nobody
      BY DEF IInv, AnswersReachTheirStatement
    <2>4. \A i, k \in 1..Len(jobs') : jobs'[i].for = jobs'[k].for => i = k
      BY <1>1, <1>2, <1>3 DEF IInv, AnswersReachTheirStatement, Unserved
    <2>5. \A t \in Threads, i \in 1..Len(jobs') : thread'[t].for # jobs'[i].for
      BY <1>1, <1>2, <1>3 DEF IInv, AnswersReachTheirStatement, Unserved
    <2> QED BY <2>1, <2>2, <2>3, <2>4, <2>5 DEF AnswersReachTheirStatement, Serves
  <1>6. \A i \in 1..Len(jobs') : jobs'[i].kind = "dialog" => kind = "dialog" \/ provider = "popup"
    BY <1>1, <1>2, <1>3 DEF IInv, OneWayToAsk
  <1> QED BY <1>2, <1>5, <1>6

\* A task without a job that goes on to wait for something else, or stops.
LEMMA MoveStep ==
  ASSUME IInv, NEW c \in Connections, NEW s, Unserved(c),
         task' = [task EXCEPT ![c] = s], UNCHANGED <<jobs, thread>>
  PROVE  AnswersReachTheirStatement'
  <1>1. \A d \in Connections : d # c => task'[d] = task[d]
    BY DEF IInv, Typed
  <1>2. \A i \in 1..Len(jobs) : jobs[i] \in Job
    BY DEF IInv, Typed
  <1>3. \A t \in Threads : LET d == thread[t].for
                           IN  d # Nobody => task'[d] = Serves(thread[t].kind)
    BY <1>1 DEF IInv, AnswersReachTheirStatement, Unserved, Typed
  <1>4. \A i \in 1..Len(jobs) : task'[jobs[i].for] = Serves(jobs[i].kind)
    BY <1>1, <1>2 DEF IInv, AnswersReachTheirStatement, Unserved, Job
  <1> QED BY <1>3, <1>4 DEF IInv, AnswersReachTheirStatement, Serves

\* A justified statement is audited, or decided at once without a log.
LEMMA RecordStep ==
  ASSUME IInv, NEW c \in Connections, NEW r \in Statement, Justified(r), Unserved(c),
         Record(c, r), UNCHANGED <<thread, dialogLock, provider, auditing>>,
         loop' = loop \/ loop' = Nobody, loop # Nobody => loop = c /\ loop' = Nobody
  PROVE  IInv'
  <1> USE DEF IInv
  <1> DEFINE s == task'[c]
  <1>0. Blank \in Statement /\ Justified(Blank)
    BY DEF Blank, Statement, Justified
  <1>1. /\ task' = [task EXCEPT ![c] = s] /\ s \in {"idle", "audit", "lock"}
        /\ req' \in [Connections -> Statement]
        /\ \A d \in Connections : Justified(req'[d]) /\ (d # c => req'[d] = req[d])
        /\ auditLock' \in Seq(Connections)
        /\ \/ s = "audit" /\ Submit("append", c)
           \/ s # "audit" /\ UNCHANGED jobs
    <2>1. CASE auditing
      <3>1. /\ auditLock' = Append(auditLock, c) /\ req' = [req EXCEPT ![c] = r]
            /\ \/ Submit("append", c) /\ task' = [task EXCEPT ![c] = "audit"]
               \/ UNCHANGED jobs /\ task' = [task EXCEPT ![c] = "lock"]
        BY <2>1 DEF Record
      <3> QED BY <3>1 DEF Typed, StatementsAreSound
    <2>2. CASE ~auditing
      <3>1. /\ task' = [task EXCEPT ![c] = "idle"] /\ req' = [req EXCEPT ![c] = Blank]
            /\ UNCHANGED <<auditLock, jobs>>
        BY <2>2 DEF Record, Decided
      <3> QED BY <1>0, <3>1 DEF Typed, StatementsAreSound
    <2> QED BY <2>1, <2>2
  <1>2. event' \in Statement /\ SentWasApproved'
    <2>1. CASE auditing
      BY <1>0, <2>1 DEF Record, SentWasApproved, Nothing
    <2>2. CASE ~auditing
      <3>1. event' = IF r.approved THEN r ELSE Nothing
        BY <2>2 DEF Record, Decided
      <3> QED BY <1>0, <2>2, <3>1 DEF SentWasApproved, Nothing, Justified
    <2> QED BY <2>1, <2>2
  <1>3. /\ jobs' \in Seq(Job) /\ AnswersReachTheirStatement'
        /\ \A i \in 1..Len(jobs') : jobs'[i].kind = "dialog" => provider = "popup"
    <2>1. CASE s = "audit" /\ Submit("append", c)
      <3>1. "append" \in {"dialog", "append"} /\ Serves("append") = s
        BY <2>1 DEF Serves
      <3> HIDE DEF s
      <3> QED BY <1>1, <2>1, <3>1, SubmitStep
    <2>2. CASE UNCHANGED jobs
      <3> HIDE DEF s
      <3> QED BY <1>1, <2>2, MoveStep DEF Typed, OneWayToAsk
    <2> QED BY <1>1, <2>1, <2>2
  <1> HIDE DEF s
  <1>4. Typed'
    BY <1>1, <1>2, <1>3 DEF Typed, Waiting
  <1>5. ThreadsAreSound'
    BY DEF ThreadsAreSound
  <1>6. OneWayToAsk'
    BY <1>3 DEF OneWayToAsk
  <1>7. StatementsAreSound'
    BY <1>1 DEF StatementsAreSound, Typed
  <1> QED BY <1>2, <1>3, <1>4, <1>5, <1>6, <1>7

\* A statement is judged: audited at once, or put to the operator.
LEMMA JudgeInv ==
  ASSUME IInv, NEW c \in Connections, NEW action \in Actions, Judge(c, action)
  PROVE  IInv'
  <1> DEFINE r == [Blank EXCEPT !.action = action]
  <1>1. r \in Statement /\ r.approved = FALSE /\ r.action = action
    BY DEF Statement, Blank, Actions
  <1>2. Unserved(c) /\ loop = Nobody
    BY IdleIsUnserved DEF Judge, Running
  <1>3. UNCHANGED <<thread, dialogLock, provider, auditing>>
    BY DEF Judge, Fixed
  <1>4. CASE action # "CONFIRM" /\ Record(c, [r EXCEPT !.approved = (action = "ALLOW")])
             /\ UNCHANGED loop
    <2> DEFINE q == [r EXCEPT !.approved = (action = "ALLOW")]
    <2>1. q \in Statement /\ Justified(q)
      BY <1>1 DEF Statement, Justified
    <2> HIDE DEF q
    <2> QED BY <1>2, <1>3, <1>4, <2>1, RecordStep DEF q
  <1>5. CASE provider = "popup" /\ AskPopup(c, r)
    <2> USE DEF IInv
    <2>1. /\ Submit("dialog", c) /\ task' = [task EXCEPT ![c] = "confirm"]
          /\ req' = [req EXCEPT ![c] = r] /\ UNCHANGED <<loop, auditLock>> /\ event' = Nothing
      BY <1>5 DEF AskPopup
    <2>2. jobs' \in Seq(Job) /\ AnswersReachTheirStatement'
      <3>1. "dialog" \in {"dialog", "append"} /\ Serves("dialog") = "confirm"
        BY DEF Serves
      <3> QED BY <1>2, <1>3, <2>1, <3>1, SubmitStep
    <2>3. Typed'
      <3>1. event' \in Statement
        BY <2>1 DEF Nothing, Blank, Statement
      <3>2. req' \in [Connections -> Statement]
        BY <1>1, <2>1 DEF Typed
      <3> QED BY <1>3, <2>1, <2>2, <3>1, <3>2 DEF Typed, Waiting
    <2>4. ThreadsAreSound' /\ SentWasApproved'
      BY <1>3, <2>1 DEF ThreadsAreSound, SentWasApproved, Nothing
    <2>5. OneWayToAsk'
      BY <1>2, <1>3, <1>5, <2>1 DEF OneWayToAsk
    <2>6. StatementsAreSound'
      BY <1>1, <2>1 DEF StatementsAreSound, Justified, Typed
    <2> QED BY <2>2, <2>3, <2>4, <2>5, <2>6
  <1>6. CASE provider = "cli" /\ AskCli(c, r)
    <2> USE DEF IInv
    <2>1. /\ loop' = c /\ task' = [task EXCEPT ![c] = "confirm"]
          /\ req' = [req EXCEPT ![c] = r] /\ UNCHANGED <<jobs, auditLock>> /\ event' = Nothing
      BY <1>6 DEF AskCli
    <2>2. AnswersReachTheirStatement'
      BY <1>2, <1>3, <2>1, MoveStep
    <2>3. Typed'
      <3>1. event' \in Statement
        BY <2>1 DEF Nothing, Blank, Statement
      <3>2. req' \in [Connections -> Statement]
        BY <1>1, <2>1 DEF Typed
      <3> QED BY <1>3, <2>1, <3>1, <3>2 DEF Typed, Waiting
    <2>4. ThreadsAreSound' /\ SentWasApproved'
      BY <1>3, <2>1 DEF ThreadsAreSound, SentWasApproved, Nothing
    <2>5. OneWayToAsk'
      BY <1>3, <1>6, <2>1 DEF OneWayToAsk, Typed
    <2>6. StatementsAreSound'
      BY <1>1, <2>1 DEF StatementsAreSound, Justified, Typed
    <2> QED BY <2>2, <2>3, <2>4, <2>5, <2>6
  <1>7. CASE /\ Record(c, [r EXCEPT !.said = YesNo(provider = "approve"),
                                    !.approved = (provider = "approve")])
             /\ UNCHANGED loop
    <2> DEFINE q == [r EXCEPT !.said = YesNo(provider = "approve"),
                              !.approved = (provider = "approve")]
    <2>1. q \in Statement /\ Justified(q)
      BY <1>1 DEF Statement, Justified, YesNo
    <2> HIDE DEF q
    <2> QED BY <1>2, <1>3, <1>7, <2>1, RecordStep DEF q
  <1> QED BY <1>4, <1>5, <1>6, <1>7 DEF Judge

\* A task without a job comes to rest.
LEMMA RestStep ==
  ASSUME IInv, NEW c \in Connections, NEW s \in {"idle", "ended"}, Unserved(c),
         task' = [task EXCEPT ![c] = s], req' = [req EXCEPT ![c] = Blank] \/ UNCHANGED req,
         event' \in Statement, SentWasApproved', auditLock' \in Seq(Connections),
         UNCHANGED <<provider, auditing, jobs, thread, dialogLock>>,
         loop' = loop \/ loop' = Nobody, loop # Nobody => loop = c /\ loop' = Nobody
  PROVE  IInv'
  <1> USE DEF IInv
  <1>1. Blank \in Statement /\ Justified(Blank)
    BY DEF Blank, Statement, Justified
  <1>2. AnswersReachTheirStatement'
    BY MoveStep
  <1>3. Typed'
    BY <1>1 DEF Typed
  <1>4. ThreadsAreSound' /\ OneWayToAsk'
    BY DEF ThreadsAreSound, OneWayToAsk
  <1>5. StatementsAreSound'
    BY <1>1 DEF StatementsAreSound, Typed
  <1> QED BY <1>2, <1>3, <1>4, <1>5

\* Nothing is sent on in a step without a decision.
LEMMA QuietStep ==
  ASSUME event' = Nothing
  PROVE  event' \in Statement /\ SentWasApproved'
  BY DEF Nothing, Blank, Statement, SentWasApproved

\* The prompt is answered or cannot be read.
LEMMA PromptInv ==
  ASSUME IInv, CliRaises \/ \E line \in Lines : CliAnswers(line)
  PROVE  IInv'
  <1>1. loop \in Connections /\ loop' = Nobody /\ Unserved(loop)
    BY IdleIsUnserved DEF IInv, Typed, CliRaises, CliAnswers
  <1>2. CASE CliRaises
    <2>1. /\ task' = [task EXCEPT ![loop] = "ended"] /\ req' = [req EXCEPT ![loop] = Blank]
          /\ event' = Nothing
          /\ UNCHANGED <<provider, auditing, jobs, thread, dialogLock, auditLock>>
      BY <1>2 DEF CliRaises, pool, Fixed
    <2>2. auditLock' \in Seq(Connections)
      BY <2>1 DEF IInv, Typed
    <2> QED BY <1>1, <2>1, <2>2, QuietStep, RestStep
  <1>3. ASSUME NEW line \in Lines, CliAnswers(line) PROVE IInv'
    <2> DEFINE r == [req[loop] EXCEPT !.said = YesNo(line = "y"), !.approved = (line = "y")]
    <2>1. r \in Statement /\ Justified(r)
      BY <1>1 DEF IInv, Typed, Statement, Justified, YesNo
    <2>2. Record(loop, r) /\ UNCHANGED <<thread, dialogLock, provider, auditing>>
      BY <1>3 DEF CliAnswers, Fixed
    <2> HIDE DEF r
    <2> QED BY <1>1, <2>1, <2>2, RecordStep
  <1> QED BY <1>2, <1>3

\* A task goes on after a dialog, or after the audit write.
LEMMA ResumeInv ==
  ASSUME IInv, NEW c \in Connections, ConfirmReturns(c) \/ LogReturns(c) \/ Accept(c)
  PROVE  IInv'
  <1>1. loop = Nobody /\ UNCHANGED <<loop, thread, dialogLock, provider, auditing>>
    BY DEF ConfirmReturns, LogReturns, Accept, Running, Fixed, pool
  <1>2. Unserved(c)
    BY IdleIsUnserved DEF ConfirmReturns, LogReturns, Accept
  <1>3. CASE task[c] = "answered" /\ Record(c, req[c])
    <2>1. req[c] \in Statement /\ Justified(req[c])
      BY DEF IInv, Typed, StatementsAreSound
    <2> QED BY <1>1, <1>2, <1>3, <2>1, RecordStep
  <1>4. CASE /\ task' = [task EXCEPT ![c] = "ended"] /\ req' = [req EXCEPT ![c] = Blank]
             /\ UNCHANGED <<jobs, auditLock>> /\ event' = Nothing
    <2>1. auditLock' \in Seq(Connections)
      BY <1>4 DEF IInv, Typed
    <2> QED BY <1>1, <1>2, <1>4, <2>1, QuietStep, RestStep
  <1>5. CASE LogReturns(c)
    <2>1. /\ task' = [task EXCEPT ![c] = "idle"] /\ req' = [req EXCEPT ![c] = Blank]
          /\ event' = IF req[c].approved THEN req[c] ELSE Nothing
          /\ auditLock' = Tail(auditLock) /\ UNCHANGED jobs /\ task[c] = "written"
      BY <1>5 DEF LogReturns, Decided, pool
    <2>2. event' \in Statement /\ SentWasApproved'
      <3>1. req[c] \in Statement /\ Justified(req[c]) /\ Written(req[c])
        BY <2>1 DEF IInv, Typed, StatementsAreSound
      <3>2. CASE req[c].approved
        BY <2>1, <3>1, <3>2 DEF SentWasApproved, Justified, Written
      <3>3. CASE ~req[c].approved
        BY <2>1, <3>3, QuietStep
      <3> QED BY <3>2, <3>3
    <2>3. auditLock' \in Seq(Connections)
      <3>1. CASE auditLock = <<>>
        BY <2>1, <3>1 DEF IInv, Typed
      <3>2. CASE auditLock # <<>>
        BY <2>1, <3>2, TailFacts DEF IInv, Typed
      <3> QED BY <3>1, <3>2
    <2> QED BY <1>1, <1>2, <2>1, <2>2, <2>3, RestStep
  <1>6. CASE Accept(c)
    <2>1. /\ task' = [task EXCEPT ![c] = "idle"] /\ event' = Nothing
          /\ UNCHANGED <<req, jobs, auditLock>>
      BY <1>6 DEF Accept, pool
    <2>2. auditLock' \in Seq(Connections)
      BY <2>1 DEF IInv, Typed
    <2> QED BY <1>1, <1>2, <2>1, <2>2, QuietStep, RestStep
  <1> QED BY <1>3, <1>4, <1>5, <1>6 DEF ConfirmReturns

\* The audit lock is passed on.
LEMMA LockInv ==
  ASSUME IInv, NEW c \in Connections, AuditLockAcquired(c)
  PROVE  IInv'
  <1> USE DEF IInv
  <1>1. /\ Submit("append", c) /\ task' = [task EXCEPT ![c] = "audit"] /\ event' = Nothing
        /\ UNCHANGED <<loop, req, thread, dialogLock, auditLock, provider, auditing>>
        /\ loop = Nobody /\ task[c] = "lock"
    BY DEF AuditLockAcquired, Fixed, Running
  <1>2. Unserved(c)
    BY <1>1, IdleIsUnserved
  <1>3. /\ jobs' \in Seq(Job) /\ AnswersReachTheirStatement'
        /\ \A i \in 1..Len(jobs') : jobs'[i].kind = "dialog" => provider = "popup"
    <2>1. "append" \in {"dialog", "append"} /\ Serves("append") = "audit"
      BY DEF Serves
    <2> QED BY <1>1, <1>2, <2>1, SubmitStep
  <1>4. Typed'
    BY <1>1, <1>3, QuietStep DEF Typed, Waiting
  <1>5. ThreadsAreSound' /\ OneWayToAsk'
    BY <1>1, <1>3 DEF ThreadsAreSound, OneWayToAsk
  <1>6. StatementsAreSound'
    BY <1>1 DEF StatementsAreSound, Typed
  <1> QED BY <1>1, <1>3, <1>4, <1>5, <1>6, QuietStep

\* The audit queue without the first entry of c.
LEMMA GiveBackLock ==
  ASSUME NEW q \in Seq(Connections), NEW c \in Connections
  PROVE  RemoveFirst(q, c) \in Seq(Connections)
  <1>1. CASE \E i \in 1..Len(q) : q[i] = c
    <2> DEFINE I == {i \in 1..Len(q) : q[i] = c}
    <2>1. I \in SUBSET Nat /\ I # {}
      BY <1>1
    <2>2. RemoveFirst(q, c) = RemoveAt(q, Min(I))
      BY <1>1, <2>1 DEF RemoveFirst, SelectInSeq
    <2>3. Min(I) \in 1..Len(q)
      <3>1. Min(I) \in I
        <4> HIDE DEF I
        <4> QED BY <2>1, MinIsLeast
      <3> QED BY <3>1
    <2> QED BY <2>2, <2>3, RemoveAtFacts
  <1>2. CASE ~\E i \in 1..Len(q) : q[i] = c
    BY <1>2 DEF RemoveFirst
  <1> QED BY <1>1, <1>2

\* Without the job of c, if it has one in the queue, there is none for c and
\* the others are as they were.
LEMMA DropJob ==
  ASSUME IInv, NEW c \in Connections, jobs' = RemoveFirstMatch(jobs, LAMBDA j : j.for = c)
  PROVE  /\ jobs' \in Seq(Job)
         /\ \A i \in 1..Len(jobs') : jobs'[i].for # c /\ \E k \in 1..Len(jobs) : jobs'[i] = jobs[k]
         /\ \A i, k \in 1..Len(jobs') : jobs'[i].for = jobs'[k].for => i = k
  <1>1. jobs \in Seq(Job) /\ Len(jobs) \in Nat
    BY DEF IInv, Typed
  <1>2. \A i, k \in 1..Len(jobs) : jobs[i].for = jobs[k].for => i = k
    BY DEF IInv, AnswersReachTheirStatement
  <1>3. CASE \E i \in 1..Len(jobs) : jobs[i].for = c
    <2> DEFINE I == {i \in 1..Len(jobs) : jobs[i].for = c}
               m == Min(I)
    <2>1. I \in SUBSET Nat /\ I # {}
      BY <1>3
    <2>2. jobs' = RemoveAt(jobs, m)
      BY <1>3, <2>1 DEF RemoveFirstMatch, SelectInSeq
    <2>3. m \in 1..Len(jobs) /\ jobs[m].for = c
      <3>1. m \in I
        <4> HIDE DEF I
        <4> QED BY <2>1, MinIsLeast
      <3> QED BY <3>1
    <2> HIDE DEF m, I
    <2> DEFINE at(k) == IF k < m THEN k ELSE k + 1
    <2>4. /\ jobs' \in Seq(Job) /\ Len(jobs') = Len(jobs) - 1
          /\ \A k \in 1..Len(jobs) - 1 : jobs'[k] = IF k < m THEN jobs[k] ELSE jobs[k + 1]
      BY <1>1, <2>2, <2>3, RemoveAtFacts
    <2>5. ASSUME NEW k \in 1..Len(jobs')
          PROVE  jobs'[k] = jobs[at(k)] /\ at(k) \in 1..Len(jobs) /\ at(k) # m
      <3>1. k \in 1..Len(jobs) - 1 /\ m \in 1..Len(jobs)
        BY <2>3, <2>4
      <3>2. jobs'[k] = jobs[at(k)]
        BY <2>4, <3>1
      <3> QED BY <1>1, <3>1, <3>2
    <2>6. \A i, k \in 1..Len(jobs') : at(i) = at(k) => i = k
      BY <1>1, <2>3, <2>4
    <2> HIDE DEF at
    <2>7. \A i \in 1..Len(jobs') : jobs'[i].for # c /\ \E k \in 1..Len(jobs) : jobs'[i] = jobs[k]
      BY <1>2, <2>3, <2>5
    <2>8. ASSUME NEW i \in 1..Len(jobs'), NEW k \in 1..Len(jobs'), jobs'[i].for = jobs'[k].for
          PROVE  i = k
      <3>1. at(i) \in 1..Len(jobs) /\ at(k) \in 1..Len(jobs) /\ jobs[at(i)].for = jobs[at(k)].for
        BY <2>5, <2>8
      <3>2. at(i) = at(k)
        BY <1>2, <3>1
      <3> QED BY <2>6, <3>2
    <2> QED BY <2>4, <2>7, <2>8
  <1>4. CASE ~\E i \in 1..Len(jobs) : jobs[i].for = c
    BY <1>1, <1>2, <1>4 DEF RemoveFirstMatch
  <1> QED BY <1>3, <1>4

\* A task is cancelled where it waits.
LEMMA CancelInv ==
  ASSUME IInv, NEW c \in Connections, Cancel(c)
  PROVE  IInv'
  <1> USE DEF IInv
  <1>1. /\ task' = [task EXCEPT ![c] = "ended"] /\ req' = [req EXCEPT ![c] = Blank]
        /\ jobs' = RemoveFirstMatch(jobs, LAMBDA j : j.for = c)
        /\ thread' = [t \in Threads |-> Abandoned(thread[t], c)]
        /\ auditLock' = RemoveFirst(auditLock, c) /\ event' = Nothing
        /\ UNCHANGED <<loop, dialogLock, provider, auditing>> /\ loop = Nobody
    BY DEF Cancel, Fixed, Running
  <1>2. /\ jobs' \in Seq(Job)
        /\ \A i \in 1..Len(jobs') : jobs'[i].for # c /\ \E k \in 1..Len(jobs) : jobs'[i] = jobs[k]
        /\ \A i, k \in 1..Len(jobs') : jobs'[i].for = jobs'[k].for => i = k
    BY <1>1, DropJob
  <1>3. \A i \in 1..Len(jobs') : jobs'[i] \in Job
    BY <1>2
  <1>4. auditLock' \in Seq(Connections)
    BY <1>1, GiveBackLock DEF Typed
  <1>5. \A t \in Threads :
          /\ thread'[t].kind = thread[t].kind /\ thread'[t].at = thread[t].at
          /\ thread'[t].for = IF thread[t].for = c THEN Nobody ELSE thread[t].for
    BY <1>1 DEF Abandoned, Typed
  <1>6. Blank \in Statement /\ Justified(Blank)
    BY DEF Blank, Statement, Justified
  <1>7. \A d \in Connections : d # c => task'[d] = task[d]
    BY <1>1 DEF Typed
  <1>8. Typed'
    <2>1. thread' \in [Threads -> [kind : {"none", "dialog", "append"},
                                   for : Connections \cup {Nobody},
                                   at : {"idle", "locking", "opening", "open", "writing"}]]
      BY <1>1 DEF Abandoned, Typed
    <2>2. req' \in [Connections -> Statement]
      BY <1>1, <1>6 DEF Typed
    <2>3. task' \in [Connections -> {"idle", "ended"} \cup Waiting]
      BY <1>1 DEF Typed
    <2> QED BY <1>1, <1>2, <1>4, <2>1, <2>2, <2>3, QuietStep DEF Typed
  <1>9. ThreadsAreSound'
    <2> SUFFICES ASSUME NEW t \in Threads
                 PROVE  /\ thread'[t].at \in {"locking", "opening", "open"} => thread'[t].kind = "dialog"
                        /\ thread'[t].at = "writing" => thread'[t].kind = "append"
                        /\ thread'[t].at = "idle" => thread'[t] = Free
                        /\ thread'[t].at \in {"opening", "open"} => dialogLock' = t
      BY DEF ThreadsAreSound, Free
    <2>1. thread'[t].at = "idle" => thread'[t] = Free
      BY <1>1, WorkersAssumption DEF ThreadsAreSound, Free, Abandoned
    <2> QED BY <1>1, <1>5, <2>1 DEF ThreadsAreSound
  <1>10. OneWayToAsk'
    BY <1>1, <1>2, <1>5 DEF OneWayToAsk
  <1>11. StatementsAreSound'
    BY <1>1, <1>6 DEF StatementsAreSound, Typed
  <1>12. AnswersReachTheirStatement'
    <2>1. \A t \in Threads : LET d == thread'[t].for
                             IN  d # Nobody => task'[d] = Serves(thread'[t].kind)
      BY <1>5, <1>7 DEF AnswersReachTheirStatement, Typed
    <2>2. \A i \in 1..Len(jobs') : task'[jobs'[i].for] = Serves(jobs'[i].kind)
      BY <1>2, <1>3, <1>7 DEF AnswersReachTheirStatement, Job
    <2>3. \A t, u \in Threads : thread'[t].for = thread'[u].for => t = u \/ thread'[t].for = Nobody
      BY <1>5 DEF AnswersReachTheirStatement
    <2>4. \A t \in Threads, i \in 1..Len(jobs') : thread'[t].for # jobs'[i].for
      BY <1>2, <1>3, <1>5, WorkersAssumption DEF AnswersReachTheirStatement, Job
    <2> QED BY <1>2, <2>1, <2>2, <2>3, <2>4 DEF AnswersReachTheirStatement, Serves
  <1> QED BY <1>1, <1>8, <1>9, <1>10, <1>11, <1>12, QuietStep

\* A thread that is not free takes a step of its dialog.
LEMMA DialogInv ==
  ASSUME IInv, NEW t \in Threads, AcquireDialog(t) \/ DialogOpens(t)
  PROVE  IInv'
  <1> USE DEF IInv
  <1> DEFINE a == thread'[t].at
  <1>1. /\ thread' = [thread EXCEPT ![t].at = a] /\ a \in {"opening", "open"}
        /\ thread[t].at \in {"locking", "opening"} /\ dialogLock' = t
        /\ dialogLock \in {Nobody, t}
        /\ UNCHANGED <<task, req, jobs, loop, auditLock, provider, auditing>> /\ event' = Nothing
    <2>1. CASE AcquireDialog(t)
      BY <2>1 DEF AcquireDialog, ThreadOnly, Fixed, Typed
    <2>2. CASE DialogOpens(t)
      BY <2>2 DEF DialogOpens, ThreadOnly, Fixed, Typed, ThreadsAreSound
    <2> QED BY <2>1, <2>2
  <1> HIDE DEF a
  <1>2. \A u \in Threads : /\ thread'[u].kind = thread[u].kind /\ thread'[u].for = thread[u].for
                           /\ u # t => thread'[u] = thread[u]
                           /\ u = t => thread'[u].at = a
    BY <1>1 DEF Typed
  <1>3. Typed'
    BY <1>1, QuietStep DEF Typed
  <1>4. ThreadsAreSound'
    <2> SUFFICES ASSUME NEW u \in Threads
                 PROVE  /\ thread'[u].at \in {"locking", "opening", "open"} => thread'[u].kind = "dialog"
                        /\ thread'[u].at = "writing" => thread'[u].kind = "append"
                        /\ thread'[u].at = "idle" => thread'[u] = Free
                        /\ thread'[u].at \in {"opening", "open"} => dialogLock' = u
      BY DEF ThreadsAreSound, Free
    <2>1. CASE u = t
      BY <1>1, <1>2, <2>1 DEF ThreadsAreSound
    <2>2. CASE u # t
      BY <1>1, <1>2, <2>2, WorkersAssumption DEF ThreadsAreSound
    <2> QED BY <2>1, <2>2
  <1>5. OneWayToAsk' /\ StatementsAreSound'
    BY <1>1, <1>2 DEF OneWayToAsk, StatementsAreSound
  <1>6. AnswersReachTheirStatement'
    BY <1>1, <1>2 DEF AnswersReachTheirStatement, Serves
  <1> QED BY <1>1, <1>3, <1>4, <1>5, <1>6, QuietStep

\* A free thread takes the first job of the queue.
LEMMA StartInv ==
  ASSUME IInv, NEW t \in Threads, StartJob(t)
  PROVE  IInv'
  <1> USE DEF IInv
  <1> DEFINE j == Head(jobs)
             n == [kind |-> j.kind, for |-> j.for,
                   at |-> IF j.kind = "dialog" THEN "locking" ELSE "writing"]
  <1>1. /\ thread[t] = Free /\ thread' = [thread EXCEPT ![t] = n] /\ jobs' = Tail(jobs)
        /\ UNCHANGED <<task, req, dialogLock, loop, auditLock, provider, auditing>>
        /\ event' = Nothing /\ jobs # <<>>
    BY DEF StartJob, ThreadOnly, Fixed
  <1>2. /\ jobs' \in Seq(Job) /\ Len(jobs) \in Nat \ {0} /\ Len(jobs') = Len(jobs) - 1
        /\ \A i \in 1..Len(jobs) - 1 : jobs'[i] = jobs[i + 1]
        /\ j \in Job /\ j = jobs[1]
    BY <1>1, TailFacts DEF Typed
  <1>3. /\ n.kind = j.kind /\ n.for = j.for /\ n.for \in Connections
        /\ n.kind \in {"dialog", "append"}
        /\ n.at = IF n.kind = "dialog" THEN "locking" ELSE "writing"
    BY <1>2 DEF Job
  <1>4. \A i \in 1..Len(jobs') : jobs'[i] = jobs[i + 1] /\ i + 1 \in 1..Len(jobs) /\ i + 1 # 1
    BY <1>2
  <1>5. 1 \in 1..Len(jobs)
    BY <1>2
  <1>6. Typed'
    <2>1. n \in [kind : {"none", "dialog", "append"}, for : Connections \cup {Nobody},
                 at : {"idle", "locking", "opening", "open", "writing"}]
      BY <1>2 DEF Job
    <2> HIDE DEF n
    <2> QED BY <1>1, <1>2, <2>1, QuietStep DEF Typed
  <1>7. \A u \in Threads : IF u = t THEN thread'[u] = n ELSE thread'[u] = thread[u]
    BY <1>1 DEF Typed
  <1> HIDE DEF n, j
  <1>8. ThreadsAreSound'
    <2> SUFFICES ASSUME NEW u \in Threads
                 PROVE  /\ thread'[u].at \in {"locking", "opening", "open"} => thread'[u].kind = "dialog"
                        /\ thread'[u].at = "writing" => thread'[u].kind = "append"
                        /\ thread'[u].at = "idle" => thread'[u] = Free
                        /\ thread'[u].at \in {"opening", "open"} => dialogLock' = u
      BY DEF ThreadsAreSound, Free
    <2>1. CASE u = t
      BY <1>3, <1>7, <2>1
    <2>2. CASE u # t
      BY <1>1, <1>7, <2>2 DEF ThreadsAreSound
    <2> QED BY <2>1, <2>2
  <1>9. OneWayToAsk'
    BY <1>1, <1>2, <1>3, <1>4, <1>5, <1>7 DEF OneWayToAsk
  <1>10. StatementsAreSound'
    BY <1>1 DEF StatementsAreSound
  <1>11. AnswersReachTheirStatement'
    <2>1. \A u \in Threads : LET d == thread'[u].for
                             IN  d # Nobody => task'[d] = Serves(thread'[u].kind)
      BY <1>1, <1>2, <1>3, <1>5, <1>7 DEF AnswersReachTheirStatement
    <2>2. \A i \in 1..Len(jobs') : task'[jobs'[i].for] = Serves(jobs'[i].kind)
      BY <1>1, <1>4 DEF AnswersReachTheirStatement
    <2>3. \A u, v \in Threads : thread'[u].for = thread'[v].for => u = v \/ thread'[u].for = Nobody
      BY <1>2, <1>3, <1>5, <1>7 DEF AnswersReachTheirStatement
    <2>4. \A i, k \in 1..Len(jobs') : jobs'[i].for = jobs'[k].for => i = k
      <3> SUFFICES ASSUME NEW i \in 1..Len(jobs'), NEW k \in 1..Len(jobs'),
                          jobs'[i].for = jobs'[k].for
                   PROVE  i = k
        OBVIOUS
      <3>1. i + 1 = k + 1
        BY <1>4 DEF AnswersReachTheirStatement
      <3> QED BY <3>1
    <2>5. \A u \in Threads, i \in 1..Len(jobs') : thread'[u].for # jobs'[i].for
      BY <1>2, <1>3, <1>4, <1>5, <1>7 DEF AnswersReachTheirStatement
    <2> QED BY <2>1, <2>2, <2>3, <2>4, <2>5 DEF AnswersReachTheirStatement, Serves
  <1> QED BY <1>1, <1>6, <1>8, <1>9, <1>10, <1>11, QuietStep

\* A thread ends its job, and the task it was for, if it still waits, has its
\* statement back.
LEMMA ReturnsStep ==
  ASSUME IInv, NEW t \in Threads, NEW s \in {"raised", "answered", "written"},
         NEW r, thread[t].at # "idle", Returns(t, s, r),
         thread[t].for # Nobody => r \in Statement /\ Justified(r) /\ (s = "written" => Written(r)),
         dialogLock' = dialogLock \/ (dialogLock = t /\ dialogLock' = Nobody),
         UNCHANGED <<jobs, loop, auditLock, provider, auditing>>, event' = Nothing
  PROVE  IInv'
  <1> USE DEF IInv
  <1> DEFINE c == thread[t].for
  <1>1. /\ thread' = [thread EXCEPT ![t] = Free]
        /\ task' = IF c = Nobody THEN task ELSE [task EXCEPT ![c] = s]
        /\ req' = IF c = Nobody THEN req ELSE [req EXCEPT ![c] = r]
        /\ c \in Connections \cup {Nobody} /\ Nobody \notin Connections \cup Threads
    BY WorkersAssumption DEF Returns, Typed
  <1>2. c # Nobody => /\ r \in Statement /\ Justified(r) /\ (s = "written" => Written(r))
                      /\ \A u \in Threads : u # t => thread[u].for # c
                      /\ \A i \in 1..Len(jobs) : jobs[i].for # c
                      /\ c # loop
    <2>1. \A u \in Threads : c # Nobody /\ u # t => thread[u].for # c
      BY DEF AnswersReachTheirStatement
    <2>2. \A i \in 1..Len(jobs) : jobs[i].for # c
      BY DEF AnswersReachTheirStatement
    <2>3. c # Nobody => c # loop
      BY DEF AnswersReachTheirStatement, OneWayToAsk, Serves
    <2> QED BY <2>1, <2>2, <2>3
  <1>3. \A u \in Threads : IF u = t THEN thread'[u] = Free ELSE thread'[u] = thread[u]
    BY <1>1 DEF Typed
  <1>4. Free.for = Nobody /\ Free.at = "idle" /\ Free.kind = "none"
    BY DEF Free
  <1> HIDE DEF c
  <1>5. \A d \in Connections :
          IF d = c THEN task'[d] = s /\ req'[d] = r ELSE task'[d] = task[d] /\ req'[d] = req[d]
    BY <1>1 DEF Typed
  <1>6. Typed'
    <2>1. thread' \in [Threads -> [kind : {"none", "dialog", "append"},
                                   for : Connections \cup {Nobody},
                                   at : {"idle", "locking", "opening", "open", "writing"}]]
      BY <1>1 DEF Free, Typed
    <2>2. req' \in [Connections -> Statement] /\ task' \in [Connections -> {"idle", "ended"} \cup Waiting]
      BY <1>1, <1>2 DEF Typed, Waiting
    <2> QED BY <2>1, <2>2, QuietStep DEF Typed
  <1>7. ThreadsAreSound'
    <2> SUFFICES ASSUME NEW u \in Threads
                 PROVE  /\ thread'[u].at \in {"locking", "opening", "open"} => thread'[u].kind = "dialog"
                        /\ thread'[u].at = "writing" => thread'[u].kind = "append"
                        /\ thread'[u].at = "idle" => thread'[u] = Free
                        /\ thread'[u].at \in {"opening", "open"} => dialogLock' = u
      BY DEF ThreadsAreSound, Free
    <2>1. CASE u = t
      BY <1>3, <1>4, <2>1
    <2>2. CASE u # t
      BY <1>3, <2>2 DEF ThreadsAreSound
    <2> QED BY <2>1, <2>2
  <1>8. OneWayToAsk'
    BY <1>1, <1>2, <1>3, <1>4, <1>5 DEF OneWayToAsk, Typed
  <1>9. StatementsAreSound'
    BY <1>1, <1>2, <1>5 DEF StatementsAreSound
  <1>10. AnswersReachTheirStatement'
    <2>1. \A u \in Threads : LET d == thread'[u].for
                             IN  d # Nobody => task'[d] = Serves(thread'[u].kind)
      BY <1>1, <1>2, <1>3, <1>4, <1>5 DEF AnswersReachTheirStatement, Typed
    <2>2. \A i \in 1..Len(jobs') : task'[jobs'[i].for] = Serves(jobs'[i].kind)
      <3>1. \A i \in 1..Len(jobs) : jobs[i] \in Job
        BY DEF Typed
      <3> QED BY <1>1, <1>2, <1>5, <3>1 DEF AnswersReachTheirStatement, Job
    <2>3. \A u, v \in Threads : thread'[u].for = thread'[v].for => u = v \/ thread'[u].for = Nobody
      BY <1>3, <1>4 DEF AnswersReachTheirStatement
    <2>4. \A u \in Threads, i \in 1..Len(jobs') : thread'[u].for # jobs'[i].for
      <3>1. \A i \in 1..Len(jobs) : jobs[i] \in Job
        BY DEF Typed
      <3> QED BY <1>1, <1>3, <1>4, <3>1 DEF AnswersReachTheirStatement, Job
    <2> QED BY <2>1, <2>2, <2>3, <2>4 DEF AnswersReachTheirStatement, Serves
  <1> QED BY <1>6, <1>7, <1>8, <1>9, <1>10, QuietStep

\* A dialog raises or is answered, or an audit write is over.
LEMMA JobEndsInv ==
  ASSUME IInv, NEW t \in Threads,
         \/ DialogRaises(t)
         \/ \E g \in Gestures : DialogEnds(t, g)
         \/ \E o \in {"recorded", "failed"} : Appends(t, o)
  PROVE  IInv'
  <1> DEFINE c == thread[t].for
  <1>1. c # Nobody => c \in Connections /\ req[c] \in Statement /\ Justified(req[c])
    BY DEF IInv, Typed, StatementsAreSound
  <1>2. CASE DialogRaises(t)
    <2>1. /\ Returns(t, "raised", req[c]) /\ dialogLock' = Nobody /\ thread[t].at = "opening"
          /\ UNCHANGED <<jobs, loop, auditLock, provider, auditing>> /\ event' = Nothing
      BY <1>2 DEF DialogRaises, ThreadOnly, Fixed
    <2>2. dialogLock = t
      BY <2>1 DEF IInv, ThreadsAreSound
    <2> QED BY <1>1, <2>1, <2>2, ReturnsStep
  <1>3. ASSUME NEW g \in Gestures, DialogEnds(t, g) PROVE IInv'
    <2> DEFINE r == [req[c] EXCEPT !.said = YesNo(g = "proceed"), !.approved = Finish(g)]
    <2>1. /\ Returns(t, "answered", r) /\ dialogLock' = Nobody /\ thread[t].at = "open"
          /\ UNCHANGED <<jobs, loop, auditLock, provider, auditing>> /\ event' = Nothing
      BY <1>3 DEF DialogEnds, ThreadOnly, Fixed
    <2>2. dialogLock = t
      BY <2>1 DEF IInv, ThreadsAreSound
    <2>3. c # Nobody => r \in Statement /\ Justified(r)
      BY <1>1 DEF Statement, Justified, YesNo, Finish
    <2> HIDE DEF r
    <2> QED BY <2>1, <2>2, <2>3, ReturnsStep
  <1>4. ASSUME NEW o \in {"recorded", "failed"}, Appends(t, o) PROVE IInv'
    <2> DEFINE r == [req[c] EXCEPT !.log = o]
    <2>1. /\ Returns(t, "written", r) /\ UNCHANGED dialogLock /\ thread[t].at = "writing"
          /\ UNCHANGED <<jobs, loop, auditLock, provider, auditing>> /\ event' = Nothing
      BY <1>4 DEF Appends, ThreadOnly, Fixed
    <2>2. c # Nobody => r \in Statement /\ Justified(r) /\ Written(r)
      BY <1>1 DEF Statement, Justified, Written
    <2> HIDE DEF r
    <2> QED BY <2>1, <2>2, ReturnsStep
  <1> QED BY <1>2, <1>3, <1>4

-----------------------------------------------------------------------------
\* Every step of the connections, the threads and the operator keeps IInv.
LEMMA NextInv == IInv /\ [Next]_vars => IInv'
  <1> SUFFICES ASSUME IInv, [Next]_vars PROVE IInv'
    OBVIOUS
  <1>1. CASE UNCHANGED vars
    BY <1>1 DEF vars, IInv, Typed, ThreadsAreSound, OneWayToAsk, StatementsAreSound,
                Justified, Written, AnswersReachTheirStatement, SentWasApproved, Nothing
  <1>2. CASE \E c \in Connections : Resume(c)
    BY <1>2, ResumeInv, LockInv DEF Resume
  <1>3. CASE \E t \in Threads : StartJob(t) \/ AcquireDialog(t) \/ Proceeds(t)
    BY <1>3, StartInv, DialogInv, JobEndsInv DEF Proceeds
  <1>4. CASE Operator
    BY <1>4, PromptInv, JobEndsInv DEF Operator
  <1>5. CASE Peers
    BY <1>5, CancelInv, ResumeInv, JudgeInv DEF Peers
  <1> QED BY <1>1, <1>2, <1>3, <1>4, <1>5 DEF Next

\* IInv is an invariant of the proxy's shared parts.
LEMMA Invariance == FairSpec => []IInv
  <1>1. Init => IInv
    BY InitInv
  <1>2. IInv /\ [Next]_vars => IInv'
    BY NextInv
  <1> QED BY <1>1, <1>2, PTL DEF FairSpec

\* However many connections ask, and whichever of them are cancelled while
\* their dialog is open, at most one dialog is on the screen.
THEOREM OneDialogAtATime == FairSpec => []DialogsAreSerial
  <1>1. IInv => DialogsAreSerial
    BY DEF IInv, ThreadsAreSound, DialogsAreSerial
  <1> QED BY <1>1, Invariance, PTL

\* A statement that needs a confirmation is sent on only after a yes to this
\* very statement, and nothing is sent on before its audit event is written
\* or has failed.
THEOREM OnlyApprovedIsSent == FairSpec => []SentWasApproved
  <1>1. IInv => SentWasApproved
    BY DEF IInv
  <1> QED BY <1>1, Invariance, PTL

\* The answer of a thread reaches the statement it was asked about, also when
\* connections end and others take their place while dialogs are open.
THEOREM AnswersAreNotMixedUp == FairSpec => []AnswersReachTheirStatement
  <1>1. IInv => AnswersReachTheirStatement
    BY DEF IInv
  <1> QED BY <1>1, Invariance, PTL

=============================================================================
