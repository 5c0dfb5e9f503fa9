----------------------------- MODULE PgSession ------------------------------
(***************************************************************************)
(* One PostgreSQL session through the proxy, after startup: the client,    *)
(* the task of _handle_client that judges each frontend message, the task  *)
(* of _pipe_backend that relays the answers, and the server.               *)
(*                                                                         *)
(* The two proxy tasks share ConnectionState and the socket to the client. *)
(* A handler runs without interruption up to an await that really          *)
(* suspends: the row estimate, the confirmation and the audit write are    *)
(* such points, a write to a socket is not (the peer cannot react before   *)
(* the handler continues).  Hence one action per handler segment.          *)
(*                                                                         *)
(* The client reads its socket whenever it likes, so what the proxy has    *)
(* written (delivered) is also what the client may have seen.              *)
(***************************************************************************)
EXTENDS Sequences, Policy, PgState

CONSTANTS
  Class,           \* classify(sql) for each SQL text
  TxEffect,        \* what a SQL text does to the transaction: begin, end, none
  Config,          \* opts.policy_config
  Mode,            \* opts.fail_safe_mode
  RowCounts,       \* answers the estimator may give
  Requests,        \* the frontend messages the client may send
  Window,          \* how far the client runs ahead: step, batch or pipeline
  BackendMayFail,  \* the server may reject any statement (syntax, locks, ...)
  MaxSent          \* bound on the messages of a behaviour

ASSUME ClassAssumption == Class \in [SQL -> Classification]
ASSUME TxAssumption == TxEffect \in [SQL -> {"begin", "end", "none"}]
ASSUME ConfigAssumption == Config \in PolicyConfig
ASSUME ModeAssumption == Mode \in FailSafeMode
ASSUME RowsAssumption == RowCounts \subseteq Nat
ASSUME WindowAssumption == Window \in {"step", "batch", "pipeline"}
ASSUME BoundAssumption == MaxSent \in Nat /\ BackendMayFail \in BOOLEAN

(***************************************************************************)
(* Frontend messages: Query, Parse, Bind, Execute, Close of a statement or *)
(* of a portal, and those the proxy forwards without looking at them: Sync,*)
(* Terminate, FunctionCall, which makes the server run a function without  *)
(* any SQL text, and Describe standing for the ones that run nothing.  wf  *)
(* is FALSE when the parser of extended_protocol.py or pg_protocol.py      *)
(* rejects the payload.                                                    *)
(***************************************************************************)
Unread == {"Sync", "Terminate", "Function", "Describe"}

MsgTypes == {"Query", "Parse", "Bind", "Execute", "CloseS", "CloseP"} \cup Unread

Request == [type : MsgTypes, wf : BOOLEAN, name : Names, portal : Names, sql : SQL]

ASSUME RequestsAssumption == Requests \subseteq Request

Ids == 1..MaxSent

\* A message on the wire is numbered by its place in the client's stream.
Msg == [type : MsgTypes, wf : BOOLEAN, name : Names, portal : Names, sql : SQL, id : Ids]

TxStatus == {"I", "T", "E"}

\* Answers: an acknowledgement or result, an ErrorResponse, ReadyForQuery.
\* tx is meaningful for ready only.
Response == [kind : {"ok", "err", "ready"}, id : Ids, tx : TxStatus]

Ok(m)        == [kind |-> "ok", id |-> m.id, tx |-> "I"]
Err(m)       == [kind |-> "err", id |-> m.id, tx |-> "I"]
Ready(m, tx) == [kind |-> "ready", id |-> m.id, tx |-> tx]

VARIABLES
  sent,          \* client: the messages sent so far
  delivered,     \* what was written to the client's socket, in order
  c2p, p2b, b2p, \* bytes in flight: client to proxy, proxy to server and back
  statements,    \* ConnectionState.prepared_statements
  portals,       \* ConnectionState.portals
  txStatus,      \* ConnectionState.transaction_status
  errorPending,  \* ConnectionState.extended_error_pending
  pc,            \* where the client task is: read, estimate, confirm or audit
  cur,           \* the message it works on (a sequence of at most one)
  verdict,       \* per message: the judgement
  judged,        \* per message: the SQL text the judgement was about
  audited,       \* per message: final_decision of the audit event
  bStmts,        \* server: prepared statements
  bPortals,      \* server: open portals, with their statement and the SQL they run
  bTx,           \* server: transaction status
  bSkip,         \* server: discards messages until Sync
  executed       \* the SQL the server has run, with the message that asked for it;
                 \* None for the function of a FunctionCall

client  == <<sent>>
proxy   == <<statements, portals, txStatus, errorPending>>
task    == <<pc, cur, verdict, judged, audited>>
backend == <<bStmts, bPortals, bTx, bSkip, executed>>
vars == <<client, delivered, c2p, p2b, b2p, proxy, task, backend>>

Init ==
  /\ sent = <<>> /\ delivered = <<>>
  /\ c2p = <<>> /\ p2b = <<>> /\ b2p = <<>>
  /\ statements = Empty /\ portals = Empty
  /\ txStatus = "I" /\ errorPending = FALSE
  /\ pc = "read" /\ cur = <<>>
  /\ verdict = [i \in Ids |-> "NONE"]
  /\ judged = [i \in Ids |-> None]
  /\ audited = [i \in Ids |-> "NONE"]
  /\ bStmts = Empty /\ bPortals = Empty /\ bTx = "I" /\ bSkip = FALSE
  /\ executed = {}

-----------------------------------------------------------------------------
(***************************************************************************)
(* The client.  A step client awaits the answer to every message (it sends *)
(* Flush after each), sends Sync after an error and does not reuse a name  *)
(* that is open.  A batch client sends messages up to a Sync, or one       *)
(* Query or FunctionCall, and awaits ReadyForQuery.  A pipelining client   *)
(* does not wait.  Behind a Terminate none of them sends anything.         *)
(***************************************************************************)
Got(m, kinds) == \E i \in 1..Len(delivered) : delivered[i].id = m.id /\ delivered[i].kind \in kinds

\* A batch of its own, which the server ends with ReadyForQuery even if it fails.
Alone(m)     == m.type \in {"Query", "Function"}
EndsBatch(m) == Alone(m) \/ m.type = "Sync"
Answered(m)  == IF EndsBatch(m) THEN Got(m, {"ready"}) ELSE Got(m, {"ok", "err"})

StepMaySend(r) ==
  /\ sent # <<>> =>
       LET last == sent[Len(sent)]
       IN  /\ Answered(last)
           /\ ~EndsBatch(last) /\ Got(last, {"err"}) => r.type \in {"Sync", "Terminate"}
  /\ r.type = "Parse" /\ r.name # Unnamed => bStmts[r.name] = None
  /\ r.type = "Bind" /\ r.portal # Unnamed => bPortals[r.portal] = None

BatchMaySend(r) ==
  sent # <<>> =>
    LET last == sent[Len(sent)]
    IN  IF EndsBatch(last) THEN Answered(last) ELSE ~Alone(r)

MaySend(r) ==
  /\ sent # <<>> => sent[Len(sent)].type # "Terminate"
  /\ CASE Window = "step"     -> StepMaySend(r)
       [] Window = "batch"    -> BatchMaySend(r)
       [] Window = "pipeline" -> TRUE

Number(r, i) == [type |-> r.type, wf |-> r.wf, name |-> r.name, portal |-> r.portal,
                 sql |-> r.sql, id |-> i]

ClientSend(r) ==
  /\ Len(sent) < MaxSent
  /\ MaySend(r)
  /\ LET m == Number(r, Len(sent) + 1)
     IN  sent' = Append(sent, m) /\ c2p' = Append(c2p, m)
  /\ UNCHANGED <<delivered, p2b, b2p, proxy, task, backend>>

-----------------------------------------------------------------------------
(***************************************************************************)
(* The client task of the proxy.                                           *)
(***************************************************************************)
\* It takes the next message off its socket; the handler is chosen by type.
Reading(types) == pc = "read" /\ c2p # <<>> /\ Head(c2p).type \in types

\* (slip) the message stays in the framer's buffer
Take_Keeps == UNCHANGED c2p

Take == c2p' = Tail(c2p)

Judge(m, v, sql) ==
  /\ verdict' = [verdict EXCEPT ![m.id] = v]
  /\ judged' = [judged EXCEPT ![m.id] = sql]

\* _handle_protocol_gap up to the audit write.
ProtocolGap(m) ==
  /\ Judge(m, IF EvaluateProtocolGap(Mode) = "ALLOW" THEN "ALLOWED_PROTOCOL_GAP"
                                                     ELSE "BLOCKED_PROTOCOL_GAP", None)
  /\ pc' = "audit" /\ cur' = <<m>>

\* _evaluate_and_decide up to the confirmation or the audit write.
EvaluateAndDecide(m, sql, rows, err) ==
  LET action == EvaluatePolicy(Class[sql], rows, err, Config).action
  IN  /\ Judge(m, CASE action = "ALLOW"   -> "ALLOWED"
                    [] action = "BLOCK"   -> "BLOCKED_BY_POLICY"
                    [] action = "CONFIRM" -> "PENDING", sql)
      /\ pc' = IF action = "CONFIRM" THEN "confirm" ELSE "audit"
      /\ cur' = <<m>>

\* A statement to inspect: safe ones are forwarded at once; the others are
\* estimated when there is a preview query, else decided without estimate.
Inspect(m, sql) ==
  \/ /\ Class[sql].risk = "safe"
     /\ Judge(m, "SAFE", sql)
     /\ p2b' = Append(p2b, m)
     /\ UNCHANGED <<pc, cur, audited>>
  \/ /\ Class[sql].risk # "safe" /\ Class[sql].preview # "none"
     /\ Judge(m, "PENDING", sql)
     /\ pc' = "estimate" /\ cur' = <<m>>
     /\ UNCHANGED <<p2b, audited>>
  \/ /\ Class[sql].risk # "safe" /\ Class[sql].preview = "none"
     /\ EvaluateAndDecide(m, sql, NoRows, FALSE)
     /\ UNCHANGED <<p2b, audited>>

\* After a refused extended message everything up to Sync is discarded,
\* except a Terminate.
SkipUntilSync ==
  /\ errorPending /\ Reading(MsgTypes \ {"Sync", "Terminate"})
  /\ Take
  /\ UNCHANGED <<client, delivered, p2b, b2p, proxy, task, backend>>

\* (slip) the proxy ends the recovery itself and does not pass the Sync on
SyncAfterError_Dropped ==
  /\ errorPending /\ Reading({"Sync"})
  /\ Take
  /\ errorPending' = FALSE
  /\ UNCHANGED <<client, delivered, p2b, b2p, statements, portals, txStatus, task, backend>>

\* (slip) the proxy fabricates a ReadyForQuery and the server sends one too
SyncAfterError_Fabricates ==
  /\ errorPending /\ Reading({"Sync"})
  /\ Take
  /\ p2b' = Append(p2b, Head(c2p))
  /\ delivered' = Append(delivered, Ready(Head(c2p), txStatus))
  /\ errorPending' = FALSE
  /\ UNCHANGED <<client, b2p, statements, portals, txStatus, task, backend>>

SyncAfterError ==
  /\ errorPending /\ Reading({"Sync"})
  /\ Take
  /\ p2b' = Append(p2b, Head(c2p))
  /\ errorPending' = FALSE
  /\ UNCHANGED <<client, delivered, b2p, statements, portals, txStatus, task, backend>>

TerminateAfterError ==
  /\ errorPending /\ Reading({"Terminate"})
  /\ Take
  /\ p2b' = Append(p2b, Head(c2p))
  /\ UNCHANGED <<client, delivered, b2p, proxy, task, backend>>

\* Messages the proxy does not inspect.
HandleOther ==
  /\ ~errorPending /\ Reading(Unread)
  /\ Take
  /\ p2b' = Append(p2b, Head(c2p))
  /\ UNCHANGED <<client, delivered, b2p, proxy, task, backend>>

HandleMalformed ==
  /\ ~errorPending /\ Reading(MsgTypes \ Unread) /\ ~Head(c2p).wf
  /\ Take
  /\ ProtocolGap(Head(c2p))
  /\ UNCHANGED <<client, delivered, p2b, b2p, proxy, audited, backend>>

HandleSimpleQuery ==
  /\ ~errorPending /\ Reading({"Query"}) /\ Head(c2p).wf
  /\ Take
  /\ Inspect(Head(c2p), Head(c2p).sql)
  /\ UNCHANGED <<client, delivered, b2p, proxy, backend>>

HandleParse ==
  /\ ~errorPending /\ Reading({"Parse"}) /\ Head(c2p).wf
  /\ Take
  /\ LET m == Head(c2p)
     IN  \/ /\ CanRegisterStatement(statements, portals, m.name, m.sql)
            /\ statements' = RegisterStatement(statements, m.name, m.sql)
            /\ portals' = PortalsAfterParse(portals, m.name)
            /\ p2b' = Append(p2b, m)
            /\ UNCHANGED task
         \/ /\ ~CanRegisterStatement(statements, portals, m.name, m.sql)
            /\ ProtocolGap(m)
            /\ UNCHANGED <<statements, portals, p2b, audited>>
  /\ UNCHANGED <<client, delivered, b2p, txStatus, errorPending, backend>>

HandleBind ==
  /\ ~errorPending /\ Reading({"Bind"}) /\ Head(c2p).wf
  /\ Take
  /\ LET m == Head(c2p)
     IN  \/ /\ CanRegisterPortal(statements, portals, m.portal, m.name)
            /\ portals' = RegisterPortal(portals, m.portal, m.name)
            /\ p2b' = Append(p2b, m)
            /\ UNCHANGED task
         \/ /\ ~CanRegisterPortal(statements, portals, m.portal, m.name)
            /\ ProtocolGap(m)
            /\ UNCHANGED <<portals, p2b, audited>>
  /\ UNCHANGED <<client, delivered, b2p, statements, txStatus, errorPending, backend>>

HandleClose ==
  /\ ~errorPending /\ Reading({"CloseS", "CloseP"}) /\ Head(c2p).wf
  /\ Take
  /\ LET m == Head(c2p)
     IN  /\ \/ /\ m.type = "CloseS"
               /\ statements' = CloseStatement(statements, m.name)
               /\ portals' = CloseStatementPortals(portals, m.name)
            \/ /\ m.type = "CloseP"
               /\ portals' = ClosePortal(portals, m.portal)
               /\ UNCHANGED statements
         /\ p2b' = Append(p2b, m)
  /\ UNCHANGED <<client, delivered, b2p, txStatus, errorPending, task, backend>>

\* The text the proxy holds for a portal: None when the portal, or the
\* statement it was bound to, is unknown.
PortalText(p) == IF portals[p] = None THEN None ELSE statements[portals[p]]

\* _handle_execute.  Parameters that cannot be decoded count as a failed
\* estimate, without asking the estimator.
HandleExecute ==
  /\ ~errorPending /\ Reading({"Execute"}) /\ Head(c2p).wf
  /\ Take
  /\ LET m == Head(c2p)
         text == PortalText(m.portal)
     IN  \/ /\ text = None
            /\ ProtocolGap(m)
            /\ UNCHANGED <<p2b, audited>>
         \/ /\ text # None
            /\ Inspect(m, text)
         \/ /\ text # None
            /\ Class[text].risk # "safe" /\ Class[text].preview # "none"
            /\ EvaluateAndDecide(m, text, NoRows, TRUE)
            /\ UNCHANGED <<p2b, audited>>
  /\ UNCHANGED <<client, delivered, b2p, proxy, backend>>

\* The estimator returns a count, or fails and leaves an error text.
EstimateDone ==
  /\ pc = "estimate"
  /\ \E rows \in RowCounts \cup {NoRows} :
       EvaluateAndDecide(cur[1], judged[cur[1].id], rows, rows = NoRows)
  /\ UNCHANGED <<client, delivered, c2p, p2b, b2p, proxy, audited, backend>>

UserDecides ==
  /\ pc = "confirm"
  /\ \E v \in {"APPROVED_BY_USER", "BLOCKED_BY_USER"} :
       verdict' = [verdict EXCEPT ![cur[1].id] = v]
  /\ pc' = "audit"
  /\ UNCHANGED <<client, delivered, c2p, p2b, b2p, proxy, cur, judged, audited, backend>>

\* (slip) the fabricated ReadyForQuery carries no valid status
Refusal_BadStatus(m) == IF m.type = "Query" THEN <<Err(m), Ready(m, "?")>> ELSE <<Err(m)>>

\* A refused Query is answered with ErrorResponse and ReadyForQuery, a
\* refused extended message with ErrorResponse alone.
Refusal(m) == IF m.type = "Query" THEN <<Err(m), Ready(m, txStatus)>> ELSE <<Err(m)>>

\* (slip) the refusal of an extended message does not start the recovery
StartsRecovery_Never(m) == FALSE

\* After a refused extended message the messages up to Sync are discarded.
StartsRecovery(m) == m.type # "Query"

\* (slip) the outcome of the confirmation is not looked at
Passes_Always(v) == TRUE

Passes(v) == v \in LetThrough

\* The audit event is written (or its failure swallowed), then the message
\* is forwarded or refused.
AuditWritten ==
  /\ pc = "audit"
  /\ LET m == cur[1]
     IN  /\ audited' = [audited EXCEPT ![m.id] = verdict[m.id]]
         /\ \/ /\ Passes(verdict[m.id])
               /\ p2b' = Append(p2b, m)
               /\ UNCHANGED <<delivered, errorPending>>
            \/ /\ ~Passes(verdict[m.id])
               /\ delivered' = delivered \o Refusal(m)
               /\ errorPending' = StartsRecovery(m)
               /\ UNCHANGED p2b
  /\ pc' = "read" /\ cur' = <<>>
  /\ UNCHANGED <<client, c2p, b2p, statements, portals, txStatus, verdict, judged, backend>>

ClientTask ==
  \/ SkipUntilSync \/ SyncAfterError \/ TerminateAfterError \/ HandleOther \/ HandleMalformed
  \/ HandleSimpleQuery \/ HandleParse \/ HandleBind \/ HandleClose \/ HandleExecute
  \/ EstimateDone \/ UserDecides \/ AuditWritten

-----------------------------------------------------------------------------
\* (slip) the status of a ReadyForQuery is relayed but not recorded
StatusAfter_Stale(r) == txStatus

StatusAfter(r) == IF r.kind = "ready" THEN r.tx ELSE txStatus

\* The backend task: ReadyForQuery updates the session, every answer is
\* relayed unchanged.
PipeBackend ==
  /\ b2p # <<>>
  /\ b2p' = Tail(b2p)
  /\ LET r == Head(b2p)
     IN  /\ delivered' = Append(delivered, r)
         /\ txStatus' = StatusAfter(r)
         /\ portals' = IF r.kind = "ready" THEN PortalsAtReady(portals, r.tx) ELSE portals
  /\ UNCHANGED <<client, c2p, p2b, statements, errorPending, task, backend>>

-----------------------------------------------------------------------------
(***************************************************************************)
(* The server, as PostgreSQL's protocol describes it.                      *)
(***************************************************************************)
\* A failed transaction accepts only its end; None is an unknown object.
CannotRun(sql) == IF sql = None THEN TRUE ELSE bTx = "E" /\ TxEffect[sql] # "end"

PortalSql(p) == IF bPortals[p] = None THEN None ELSE bPortals[p].sql

Rejects(m) ==
  \/ ~m.wf
  \/ m.type = "Query" /\ CannotRun(m.sql)
  \/ m.type = "Parse" /\ (CannotRun(m.sql) \/ (m.name # Unnamed /\ bStmts[m.name] # None))
  \/ m.type = "Bind" /\ (CannotRun(bStmts[m.name]) \/ (m.portal # Unnamed /\ bPortals[m.portal] # None))
  \/ m.type = "Execute" /\ CannotRun(PortalSql(m.portal))
  \/ m.type = "Function" /\ bTx = "E"

TxAfter(sql) == CASE TxEffect[sql] = "begin" -> "T"
                  [] TxEffect[sql] = "end"   -> "I"
                  [] TxEffect[sql] = "none"  -> bTx

\* A simple Query replaces the unnamed statement, a Parse of it too, even
\* one that fails.
DropUnnamed(m) ==
  IF m.type = "Query" \/ (m.type = "Parse" /\ m.name = Unnamed)
    THEN [bStmts EXCEPT ![Unnamed] = None] ELSE bStmts

\* Closing a statement closes the portals made from it.
ClosedWith(name) ==
  [p \in Names |-> IF bPortals[p] # None /\ bPortals[p].stmt = name THEN None ELSE bPortals[p]]

Receive == p2b # <<>> /\ p2b' = Tail(p2b)

BackendSkips ==
  /\ Receive /\ bSkip /\ Head(p2b).type \notin {"Sync", "Terminate"}
  /\ UNCHANGED <<client, delivered, c2p, b2p, proxy, task, backend>>

\* An error aborts the transaction and its portals; an extended message
\* that fails makes the server discard everything up to Sync.
BackendRejects ==
  /\ Receive /\ ~bSkip /\ Head(p2b).type # "Terminate"
  /\ LET m == Head(p2b)
         tx == IF bTx = "I" THEN "I" ELSE "E"
     IN  /\ \/ Rejects(m)
            \/ BackendMayFail /\ m.type \in {"Query", "Parse", "Bind", "Execute", "Function"}
         /\ b2p' = b2p \o (IF Alone(m) THEN <<Err(m), Ready(m, tx)>> ELSE <<Err(m)>>)
         /\ bSkip' = ~Alone(m)
         /\ bTx' = tx
         /\ bStmts' = DropUnnamed(m)
         /\ bPortals' = Empty
  /\ UNCHANGED <<client, delivered, c2p, proxy, task, executed>>

BackendPrepares ==
  /\ Receive /\ ~bSkip /\ Head(p2b).type \in {"Parse", "Bind", "CloseS", "CloseP", "Describe"}
  /\ LET m == Head(p2b)
     IN  /\ ~Rejects(m)
         /\ b2p' = Append(b2p, Ok(m))
         /\ bStmts' = CASE m.type = "Parse"  -> [bStmts EXCEPT ![m.name] = m.sql]
                        [] m.type = "CloseS" -> [bStmts EXCEPT ![m.name] = None]
                        [] OTHER             -> bStmts
         /\ bPortals' =
              CASE m.type = "Bind"   -> [bPortals EXCEPT ![m.portal] =
                                           [stmt |-> m.name, sql |-> bStmts[m.name]]]
                [] m.type = "CloseP" -> [bPortals EXCEPT ![m.portal] = None]
                [] m.type = "CloseS" -> ClosedWith(m.name)
                [] OTHER             -> bPortals
  /\ UNCHANGED <<client, delivered, c2p, proxy, task, bTx, bSkip, executed>>

\* The end of a transaction closes its portals.
BackendExecutes ==
  /\ Receive /\ ~bSkip /\ Head(p2b).type = "Execute"
  /\ LET m == Head(p2b)
         sql == PortalSql(m.portal)
     IN  /\ ~Rejects(m)
         /\ executed' = executed \cup {[id |-> m.id, sql |-> sql]}
         /\ bTx' = TxAfter(sql)
         /\ bPortals' = IF TxEffect[sql] = "end" THEN Empty ELSE bPortals
         /\ b2p' = Append(b2p, Ok(m))
  /\ UNCHANGED <<client, delivered, c2p, proxy, task, bStmts, bSkip>>

BackendQueries ==
  /\ Receive /\ ~bSkip /\ Head(p2b).type = "Query"
  /\ LET m == Head(p2b)
         tx == TxAfter(m.sql)
     IN  /\ ~Rejects(m)
         /\ executed' = executed \cup {[id |-> m.id, sql |-> m.sql]}
         /\ bTx' = tx
         /\ bStmts' = DropUnnamed(m)
         /\ bPortals' = IF tx = "I" THEN Empty ELSE [bPortals EXCEPT ![Unnamed] = None]
         /\ b2p' = b2p \o <<Ok(m), Ready(m, tx)>>
  /\ UNCHANGED <<client, delivered, c2p, proxy, task, bSkip>>

BackendSyncs ==
  /\ Receive /\ Head(p2b).type = "Sync"
  /\ b2p' = Append(b2p, Ready(Head(p2b), bTx))
  /\ bSkip' = FALSE
  /\ bPortals' = IF bTx = "I" THEN Empty ELSE bPortals
  /\ UNCHANGED <<client, delivered, c2p, proxy, task, bStmts, bTx, executed>>

\* The function named by a FunctionCall is run in the current transaction,
\* or in one of its own.
BackendCalls ==
  /\ Receive /\ ~bSkip /\ Head(p2b).type = "Function"
  /\ LET m == Head(p2b)
     IN  /\ ~Rejects(m)
         /\ executed' = executed \cup {[id |-> m.id, sql |-> None]}
         /\ b2p' = b2p \o <<Ok(m), Ready(m, bTx)>>
  /\ bPortals' = IF bTx = "I" THEN Empty ELSE bPortals
  /\ UNCHANGED <<client, delivered, c2p, proxy, task, bStmts, bTx, bSkip>>

\* Nothing comes behind a Terminate.
BackendTerminates ==
  /\ Receive /\ Head(p2b).type = "Terminate"
  /\ UNCHANGED <<client, delivered, c2p, b2p, proxy, task, backend>>

Backend == BackendSkips \/ BackendRejects \/ BackendPrepares \/ BackendExecutes
           \/ BackendQueries \/ BackendSyncs \/ BackendCalls \/ BackendTerminates

-----------------------------------------------------------------------------
Next ==
  \/ \E r \in Requests : ClientSend(r)
  \/ ClientTask
  \/ PipeBackend
  \/ Backend

Spec == Init /\ [][Next]_vars

\* The event loop runs every ready task and the server answers; nobody
\* obliges the client to send or the operator to click.
Fairness == WF_vars(ClientTask /\ pc # "confirm") /\ WF_vars(PipeBackend) /\ WF_vars(Backend)

FairSpec == Spec /\ Fairness

-----------------------------------------------------------------------------
QueuesTyped ==
  /\ sent \in Seq(Msg) /\ Len(sent) <= MaxSent
  /\ c2p \in Seq(Msg) /\ p2b \in Seq(Msg)
  /\ delivered \in Seq(Response) /\ b2p \in Seq(Response)

StateTyped ==
  /\ statements \in [Names -> SQL \cup {None}]
  /\ portals \in [Names -> Names \cup {None}]
  /\ txStatus \in TxStatus
  /\ errorPending \in BOOLEAN

TaskTyped ==
  /\ pc \in {"read", "estimate", "confirm", "audit"}
  /\ cur \in Seq(Msg) /\ Len(cur) = IF pc = "read" THEN 0 ELSE 1
  /\ verdict \in [Ids -> Verdicts]
  /\ judged \in [Ids -> SQL \cup {None}]
  /\ audited \in [Ids -> Verdicts]

BackendTyped ==
  /\ bStmts \in [Names -> SQL \cup {None}]
  /\ bPortals \in [Names -> [stmt : Names, sql : SQL] \cup {None}]
  /\ bTx \in TxStatus
  /\ bSkip \in BOOLEAN
  /\ executed \subseteq [id : Ids, sql : SQL \cup {None}]

TypeOK == QueuesTyped /\ StateTyped /\ TaskTyped /\ BackendTyped

\* The messages that may reach the server: the judgement is on record, and
\* on the audit path unless the statement is read-only.
Cleared ==
  {id \in Ids :
     /\ verdict[id] \in LetThrough
     /\ verdict[id] = "SAFE" => judged[id] \in SQL /\ Class[judged[id]].risk = "safe"
     /\ verdict[id] # "SAFE" => audited[id] = verdict[id]
     /\ verdict[id] = "ALLOWED_PROTOCOL_GAP" => Mode = "permissive"}

Runs(m) == m.type \in {"Query", "Execute"}

\* How many messages the client task has taken off its socket, and how many of
\* them it is done with.
Taken == Len(sent) - Len(c2p)
Left  == IF pc = "read" THEN Taken ELSE Taken - 1

\* The session as a gate: a request is decided when its judgement is on
\* record, for what is not read-only in the audit.  A FunctionCall holds no
\* SQL text; the proxy forwards it undecided and the server runs it.
DecisionOf(id) == IF id \in Cleared THEN "pass"
                  ELSE IF audited[id] \in Refused THEN "refuse" ELSE "open"

Gate == INSTANCE SqlGate WITH
  Ids <- Ids,
  reached <- Left,
  decision <- [id \in Ids |-> DecisionOf(id)],
  flight <- [k \in 1..Len(p2b) |-> p2b[k].id],
  ran <- {e.id : e \in executed},
  blank <- {i \in 1..Len(sent) : sent[i].type = "Function"}

\* The session implements the gate: requests are decided in order, once and
\* for all, sent on once when they pass, and run in that order or not at all,
\* across the awaits of the handlers, the recovery and everything in flight.
\* Nothing but a FunctionCall is run without a decision.
ImplementsGate == Gate!Spec

\* No Query or Execute is in flight to the server, and no SQL was run by it,
\* before its own judgement let it through and, unless the statement is
\* read-only, the decision was put on the audit path; a message that could
\* not be inspected passes in permissive mode only.  This covers the awaits
\* of _handle_simple_query and _handle_execute, the recovery after an error
\* and every earlier message still in the queues.
OnlyClearedReachServer ==
  /\ \A i \in 1..Len(p2b) : Runs(p2b[i]) => p2b[i].id \in Cleared
  /\ \A e \in executed : e.sql # None => e.id \in Cleared

\* The SQL the server runs for a message is the SQL that was judged: the
\* registries of the proxy (register_statement, register_portal, close_*)
\* and of the server resolve a portal to the same text.
ExecutedIsJudged ==
  \A e \in executed :
    e.sql # None /\ verdict[e.id] # "ALLOWED_PROTOCOL_GAP" => judged[e.id] = e.sql

\* After the client was told that an extended message failed, nothing it
\* sent before its next Sync is run, a FunctionCall no more than SQL, whoever
\* refused it: the proxy (extended_error_pending) or the server.
NothingRunsUntilSync ==
  \A i \in 1..Len(delivered) :
    LET d == delivered[i]
    IN  (d.kind = "err" /\ ~Alone(sent[d.id])) =>
          \A e \in executed : e.id > d.id =>
            \E s \in d.id + 1 .. e.id - 1 : sent[s].type = "Sync"

\* A client that counts ReadyForQuery to match its requests never gets one
\* too many: at most one per Query, FunctionCall and Sync, none for the rest,
\* although the proxy fabricates some and the server sends the others.
AtMostOneReady ==
  \A i, j \in 1..Len(delivered) :
    delivered[i].kind = "ready" =>
      /\ EndsBatch(sent[delivered[i].id])
      /\ j # i /\ delivered[j].kind = "ready" => delivered[j].id # delivered[i].id

\* The client sent a Query only behind the end of a batch.
Synced == \A k \in 2..Len(sent) : sent[k].type = "Query" => EndsBatch(sent[k - 1])

\* When the last thing the client got is the ReadyForQuery for its last
\* message, the transaction status in it is the server's, also where the
\* proxy made it up from ConnectionState.transaction_status.  A client that
\* sends a Query behind extended messages without a Sync is left out: the
\* proxy has seen no ReadyForQuery for them.
ReadyStatusIsTrue ==
  LET n == Len(delivered)
  IN  (n > 0 /\ delivered[n].kind = "ready" /\ delivered[n].id = Len(sent) /\ Synced) =>
        delivered[n].tx = bTx

\* The answers to a message that was not refused never overtake those to an
\* earlier one, however far the client runs ahead: only what the proxy writes
\* itself (_send_blocked, the ErrorResponse of _handle_execute) is delivered
\* while answers to earlier messages are still on their way from the server.
\* So the ReadyForQuery of a Sync, or of a Query that passed, is the last
\* thing the client hears of that message and of everything before it.
OnlyRefusalsOvertake ==
  \A i, j \in 1..Len(delivered) :
    i < j /\ delivered[i].id > delivered[j].id => audited[delivered[i].id] \in Refused

\* The registries never exceed max_items and max_state_bytes.
StateIsBounded ==
  /\ Cardinality(Entries(statements)) <= MaxItems
  /\ Cardinality(Entries(portals)) <= MaxItems
  /\ StateBytes(statements, portals) <= MaxBytes

\* Every Sync is answered with ReadyForQuery as long as the operator keeps
\* answering the confirmations: neither the recovery after a refusal nor the
\* server's loses one.
SyncIsAnswered ==
  []<>(pc # "confirm") =>
    \A i \in Ids :
      (i <= Len(sent) /\ sent[i].type = "Sync")
        ~> (\E k \in 1..Len(delivered) : delivered[k].id = i /\ delivered[k].kind = "ready")

=============================================================================
