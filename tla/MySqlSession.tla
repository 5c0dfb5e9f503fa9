---------------------------- MODULE MySqlSession ----------------------------
(***************************************************************************)
(* One MySQL or MariaDB session through the proxy, after authentication:   *)
(* the client, the pump that dispatches its commands (dispatcher.py,       *)
(* handler.py), the pump that routes the server's packets (backend.py,     *)
(* relay.py), the session state they share (session.py) and the server.    *)
(*                                                                         *)
(* A command is one logical message, an answer a sequence of packets.  The *)
(* proxy tells where an answer ends only by reading its packets; "last" is *)
(* the truth about it, which no action of the proxy looks at.              *)
(***************************************************************************)
EXTENDS Sequences, FiniteSets, FiniteSetsExt, Policy

CONSTANTS
  SQL, None,       \* the SQL texts; no value
  Class,           \* classify(sql)
  Unparseable,     \* texts whose reconstruction classify cannot parse
  SqlBytes,        \* encoded length of a text
  Parameters,      \* number of parameters of a text
  Columns,         \* number of result columns, 0 for a text without result set
  TxEffect,        \* begin, end or none
  UseDb,           \* the database a USE statement selects, else None
  Databases, Home, \* the databases, and the one the session starts in
  Config, Mode,    \* opts.policy_config, opts.fail_safe_mode
  RowCounts,       \* answers the estimator may give
  DeprecateEof,    \* CLIENT_DEPRECATE_EOF was negotiated
  MaxStatements,   \* max_prepared_statements
  MaxBytes,        \* max_state_bytes
  Requests,        \* the commands the client may send
  Window,          \* the client waits for answers (step) or does not (pipeline)
  MaxSent,         \* bound on the commands of a behaviour
  MaxRows          \* bound on the rows of a result set

ASSUME TextsAssumption == /\ None \notin SQL /\ None \notin Databases /\ Home \in Databases
                          /\ Unparseable \subseteq SQL
                          /\ Class \in [SQL -> Classification]
                          /\ SqlBytes \in [SQL -> Nat]
                          /\ Parameters \in [SQL -> Nat]
                          /\ Columns \in [SQL -> Nat]
                          /\ TxEffect \in [SQL -> {"begin", "end", "none"}]
                          /\ UseDb \in [SQL -> Databases \cup {None}]
ASSUME ConfigAssumption == /\ Config \in PolicyConfig /\ Mode \in FailSafeMode
                           /\ DeprecateEof \in BOOLEAN /\ RowCounts \subseteq Nat
                           /\ Window \in {"step", "pipeline"}
ASSUME BoundsAssumption == /\ MaxStatements \in Nat /\ MaxBytes \in Nat
                           /\ MaxSent \in Nat /\ MaxRows \in Nat

\* OTHER stands for the command codes the proxy does not support, EMPTY for
\* a message without a command code.
Kinds == {"QUERY", "INIT_DB", "QUIT", "PING", "PREPARE", "EXECUTE", "LONGDATA",
          "CLOSE", "RESET", "OTHER", "EMPTY"}

Ids == 1..MaxSent

\* Statement ids are given out by the server in order; LAST is MariaDB's
\* "the statement prepared last" (MARIADB_STMT_ID_LAST).
LAST == 0

\* A statement of the registry: its text, whether the types of its parameters
\* are known, whether long data came for it.
Entries == [sql : SQL, types : BOOLEAN, long : BOOLEAN]
ASSUME NoneAssumption == None \notin Ids \cup {LAST} /\ None \notin Entries

\* wf: the parser of the command accepts it.  bound: an EXECUTE carries the
\* types of its parameters.
Request == [type : Kinds, wf : BOOLEAN, stmt : Ids \cup {LAST}, bound : BOOLEAN,
            sql : SQL, db : Databases]
ASSUME RequestsAssumption == Requests \subseteq Request

\* marker is what the first byte tells: OK (0x00), ERR (0xFF), EOF (0xFE),
\* or data.  n counts the columns a result-set header announces.
Packet == [id : Ids, marker : {"ok", "err", "eof", "data"}, n : Nat, meta : BOOLEAN,
           more : BOOLEAN, tx : BOOLEAN, stmt : Ids \cup {None}, last : BOOLEAN]

VARIABLES
  sent,           \* client: the commands sent so far
  delivered,      \* packets written to the client's socket, in order
  c2p, p2b, b2p,  \* in flight: client to proxy, proxy to server and back
  database,       \* MySqlSessionState.database
  pendingDb,      \* .pending_database
  pendingSql,     \* .pending_statement_sql
  pendingId,      \* .pending_prepared_statement_id
  metadata,       \* .pending_prepare_metadata_kinds
  pendingPing,    \* .pending_ping
  pendingReset,   \* .pending_statement_reset_id
  pendingCmd,     \* .pending_command_response is not None
  stage,          \* .command_response_stage
  columns,        \* .response_columns_remaining
  statements,     \* .prepared_statements
  lastId,         \* .last_prepared_statement_id
  prepFailed,     \* .last_prepare_failed
  txActive,       \* .transaction_active
  closing,        \* .closing
  open,           \* both pumps run and the sockets are open
  pc, cur,        \* client pump: where it is, the command it works on
  verdict,        \* per command: the judgement
  judged,         \* per command: the SQL text it was about
  audited,        \* per command: final_decision of the audit event
  bStmts, bLast,  \* server: prepared statements, the one prepared last
  bDb, bTx,       \* server: active database, open transaction
  moved, quiet,   \* history: the database, the transaction changed by a step the
                  \* proxy reads no acknowledgement of, and none was read since
  executed        \* the SQL the server has run, with the command that asked

lifecycle == <<pendingDb, pendingSql, pendingId, metadata, pendingPing, pendingReset>>
response  == <<pendingCmd, stage, columns>>
registry  == <<statements, lastId, prepFailed>>
task      == <<pc, cur, verdict, judged, audited>>
server    == <<bStmts, bLast, bDb, bTx, moved, quiet, executed>>
vars == <<sent, delivered, c2p, p2b, b2p, database, lifecycle, response, registry,
          txActive, closing, open, task, server>>

Init ==
  /\ sent = <<>> /\ delivered = <<>> /\ c2p = <<>> /\ p2b = <<>> /\ b2p = <<>>
  /\ database = Home
  /\ pendingDb = None /\ pendingSql = None /\ pendingId = None /\ metadata = <<>>
  /\ pendingPing = FALSE /\ pendingReset = None
  /\ pendingCmd = FALSE /\ stage = "initial" /\ columns = 0
  /\ statements = [i \in Ids |-> None] /\ lastId = None /\ prepFailed = FALSE
  /\ txActive = FALSE /\ closing = FALSE /\ open = TRUE
  /\ pc = "read" /\ cur = <<>>
  /\ verdict = [i \in Ids |-> "NONE"]
  /\ judged = [i \in Ids |-> None]
  /\ audited = [i \in Ids |-> "NONE"]
  /\ bStmts = <<>> /\ bLast = None /\ bDb = Home /\ bTx = FALSE
  /\ moved = FALSE /\ quiet = FALSE /\ executed = {}

-----------------------------------------------------------------------------
(***************************************************************************)
(* The client.  MySQL clients wait for the answer to a command; MariaDB's  *)
(* also send EXECUTE of LAST right behind a PREPARE.                       *)
(***************************************************************************)
HasAnswer(m) == m.type \notin {"CLOSE", "LONGDATA", "QUIT"}

Answered(m) == \E i \in 1..Len(delivered) : delivered[i].id = m.id /\ delivered[i].last

MaySend(r) ==
  (Window = "step" /\ sent # <<>>) =>
    LET m == sent[Len(sent)]
    IN  \/ Answered(m)
        \/ ~HasAnswer(m)
        \/ m.type = "PREPARE" /\ r.type = "EXECUTE" /\ r.stmt = LAST

ClientSend(r) ==
  /\ open /\ Len(sent) < MaxSent /\ MaySend(r)
  /\ LET m == [type |-> r.type, wf |-> r.wf, stmt |-> r.stmt, bound |-> r.bound,
               sql |-> r.sql, db |-> r.db, id |-> Len(sent) + 1]
     IN  sent' = Append(sent, m) /\ c2p' = Append(c2p, m)
  /\ UNCHANGED <<delivered, p2b, b2p, database, lifecycle, response, registry, txActive,
                 closing, open, task, server>>

-----------------------------------------------------------------------------
(***************************************************************************)
(* The client pump: dispatch_authenticated_command.                        *)
(***************************************************************************)
HasPending == \/ pendingDb # None \/ pendingSql # None \/ pendingPing
              \/ pendingReset # None \/ pendingCmd

\* (slip) the exception for MariaDB is missing
PipelinedExecute_Never(m) == FALSE

\* MariaDB's EXECUTE of LAST may follow a PREPARE that is not answered yet.
PipelinedExecute(m) == m.type = "EXECUTE" /\ m.stmt = LAST /\ pendingSql # None

MayDispatch(m) == m.type = "QUIT" \/ ~HasPending \/ PipelinedExecute(m)

\* The next command is taken off the socket and gets as far as its handler.
Command(types) ==
  /\ open /\ pc = "read" /\ c2p # <<>> /\ Head(c2p).type \in types
  /\ MayDispatch(Head(c2p))
  /\ c2p' = Tail(c2p)

\* (slip) the handler and the dispatcher both forward the command
Forward_Twice(m) == p2b' = p2b \o <<m, m>>

Forward(m) == p2b' = Append(p2b, m)

ErrorPacket(m) == [id |-> m.id, marker |-> "err", n |-> 0, meta |-> FALSE, more |-> FALSE,
                   tx |-> FALSE, stmt |-> None, last |-> TRUE]

\* _block_protocol_state_error: an ERR packet, without audit.
StateError(m) == delivered' = Append(delivered, ErrorPacket(m))

Judge(m, v, sql) ==
  /\ verdict' = [verdict EXCEPT ![m.id] = v]
  /\ judged' = [judged EXCEPT ![m.id] = sql]

\* handle_mysql_protocol_gap up to the audit write; sql is the text an EXECUTE
\* was found to run, None when the gap comes before that.
ProtocolGap(m, sql) ==
  /\ Judge(m, IF EvaluateProtocolGap(Mode) = "ALLOW" THEN "ALLOWED_PROTOCOL_GAP"
                                                     ELSE "BLOCKED_PROTOCOL_GAP", sql)
  /\ pc' = "audit" /\ cur' = <<m>>

BeginCommandResponse == pendingCmd' = TRUE /\ stage' = "initial" /\ columns' = 0
FailCommandForward   == pendingCmd' = FALSE /\ stage' = "initial" /\ columns' = 0

EvaluateAndDecide(m, sql, rows, err) ==
  LET action == EvaluatePolicy(Class[sql], rows, err, Config).action
  IN  /\ Judge(m, CASE action = "ALLOW"   -> "ALLOWED"
                    [] action = "BLOCK"   -> "BLOCKED_BY_POLICY"
                    [] action = "CONFIRM" -> "PENDING", sql)
      /\ pc' = IF action = "CONFIRM" THEN "confirm" ELSE "audit"
      /\ cur' = <<m>>

\* Read-only statements take this way too: they are allowed and audited.
Inspect(m, sql) ==
  \/ /\ Class[sql].preview # "none"
     /\ Judge(m, "PENDING", sql)
     /\ pc' = "estimate" /\ cur' = <<m>>
  \/ /\ Class[sql].preview = "none"
     /\ EvaluateAndDecide(m, sql, NoRows, FALSE)

\* Any command but QUIT is refused while an acknowledgement is awaited.
BlockedByPending ==
  /\ open /\ pc = "read" /\ c2p # <<>> /\ Head(c2p).type # "EMPTY"
  /\ ~MayDispatch(Head(c2p))
  /\ c2p' = Tail(c2p)
  /\ StateError(Head(c2p))
  /\ UNCHANGED <<sent, p2b, b2p, database, lifecycle, response, registry, txActive,
                 closing, open, task, server>>

\* What cannot be inspected: no command code, an unsupported one, long data,
\* and payloads their parser rejects.
HandleProtocolGap ==
  /\ \/ Command({"OTHER", "LONGDATA"})
     \/ Command({"QUERY", "INIT_DB", "PREPARE", "CLOSE", "EXECUTE"}) /\ ~Head(c2p).wf
     \/ /\ open /\ pc = "read" /\ c2p # <<>> /\ Head(c2p).type = "EMPTY"
        /\ c2p' = Tail(c2p)
  /\ ProtocolGap(Head(c2p), None)
  /\ UNCHANGED <<sent, delivered, p2b, b2p, database, lifecycle, response, registry,
                 txActive, closing, open, audited, server>>

HandleQuery ==
  /\ Command({"QUERY"}) /\ Head(c2p).wf
  /\ BeginCommandResponse
  /\ Inspect(Head(c2p), Head(c2p).sql)
  /\ UNCHANGED <<sent, delivered, p2b, b2p, database, lifecycle, registry, txActive,
                 closing, open, audited, server>>

HandleInitDb ==
  /\ Command({"INIT_DB"}) /\ Head(c2p).wf
  /\ pendingDb' = Head(c2p).db
  /\ Forward(Head(c2p))
  /\ UNCHANGED <<sent, delivered, b2p, database, pendingSql, pendingId, metadata,
                 pendingPing, pendingReset, response, registry, txActive, closing, open,
                 task, server>>

HandleQuit ==
  /\ Command({"QUIT"})
  /\ closing' = TRUE
  /\ Forward(Head(c2p))
  /\ UNCHANGED <<sent, delivered, b2p, database, lifecycle, response, registry, txActive,
                 open, task, server>>

HandlePing ==
  /\ Command({"PING"}) /\ Head(c2p).wf
  /\ pendingPing' = TRUE
  /\ Forward(Head(c2p))
  /\ UNCHANGED <<sent, delivered, b2p, database, pendingDb, pendingSql, pendingId, metadata,
                 pendingReset, response, registry, txActive, closing, open, task, server>>

HandlePrepare ==
  /\ Command({"PREPARE"}) /\ Head(c2p).wf
  /\ pendingSql' = Head(c2p).sql /\ pendingId' = None /\ metadata' = <<>>
  /\ prepFailed' = FALSE
  /\ Forward(Head(c2p))
  /\ UNCHANGED <<sent, delivered, b2p, database, pendingDb, pendingPing, pendingReset,
                 response, statements, lastId, txActive, closing, open, task, server>>

Known(id) == IF id = LAST THEN FALSE ELSE statements[id] # None

HandleClose ==
  /\ Command({"CLOSE"}) /\ Head(c2p).wf
  /\ LET id == Head(c2p).stmt
     IN  /\ statements' = [i \in Ids |-> IF i = id THEN None ELSE statements[i]]
         /\ lastId' = IF lastId = id THEN None ELSE lastId
  /\ Forward(Head(c2p))
  /\ UNCHANGED <<sent, delivered, b2p, database, lifecycle, response, prepFailed, txActive,
                 closing, open, task, server>>

HandleReset ==
  /\ Command({"RESET"}) /\ Head(c2p).wf /\ Known(Head(c2p).stmt)
  /\ pendingReset' = Head(c2p).stmt
  /\ Forward(Head(c2p))
  /\ UNCHANGED <<sent, delivered, b2p, database, pendingDb, pendingSql, pendingId, metadata,
                 pendingPing, response, registry, txActive, closing, open, task, server>>

HandleStateError ==
  /\ Command({"PING", "RESET"})
  /\ ~Head(c2p).wf \/ (Head(c2p).type = "RESET" /\ ~Known(Head(c2p).stmt))
  /\ StateError(Head(c2p))
  /\ UNCHANGED <<sent, p2b, b2p, database, lifecycle, response, registry, txActive, closing,
                 open, task, server>>

\* The statement an EXECUTE refers to: the id, or the one prepared last.
Target(m) == IF m.stmt = LAST THEN lastId ELSE m.stmt

\* The parameters of an EXECUTE can be read: none came as long data, and their
\* types are in the command or known from an earlier one.
Decodable(m, s) == ~s.long /\ (m.bound \/ s.types \/ Parameters[s.sql] = 0)

\* COM_STMT_EXECUTE once its statement is known or known to be unknown.
\* Unknown statements, long data and parameters that cannot be decoded are
\* gaps outside the response tracking, unparseable texts one inside it.
ExecuteStatement(m) ==
  LET s == IF Target(m) = None THEN None ELSE statements[Target(m)]
  IN  \/ /\ IF s = None THEN TRUE ELSE ~Decodable(m, s)
         /\ ProtocolGap(m, None)
         /\ UNCHANGED response
      \/ /\ s # None /\ Decodable(m, s)
         /\ BeginCommandResponse
         /\ \/ s.sql \in Unparseable /\ ProtocolGap(m, s.sql)
            \/ s.sql \notin Unparseable /\ Inspect(m, s.sql)
            \/ \* byte parameters: estimate_safe is FALSE
               /\ s.sql \notin Unparseable /\ Parameters[s.sql] > 0
               /\ EvaluateAndDecide(m, s.sql, NoRows, TRUE)

HandleExecute ==
  /\ Command({"EXECUTE"}) /\ Head(c2p).wf
  /\ \/ /\ PipelinedExecute(Head(c2p))
        /\ pc' = "wait" /\ cur' = <<Head(c2p)>>
        /\ UNCHANGED <<verdict, judged, response>>
     \/ /\ ~PipelinedExecute(Head(c2p))
        /\ ExecuteStatement(Head(c2p))
  /\ UNCHANGED <<sent, delivered, p2b, b2p, database, lifecycle, registry, txActive, closing,
                 open, audited, server>>

\* wait_for_statement_prepare: the event is set when the answer to the
\* PREPARE is complete.
ResumeExecute ==
  /\ open /\ pc = "wait" /\ pendingSql = None
  /\ \/ /\ prepFailed
        /\ StateError(cur[1])
        /\ pc' = "read" /\ cur' = <<>>
        /\ UNCHANGED <<verdict, judged, response>>
     \/ /\ ~prepFailed
        /\ ExecuteStatement(cur[1])
        /\ UNCHANGED delivered
  /\ UNCHANGED <<sent, c2p, p2b, b2p, database, lifecycle, registry, txActive, closing, open,
                 audited, server>>

EstimateDone ==
  /\ open /\ pc = "estimate"
  /\ \E rows \in RowCounts \cup {NoRows} :
       EvaluateAndDecide(cur[1], judged[cur[1].id], rows, rows = NoRows)
  /\ UNCHANGED <<sent, delivered, c2p, p2b, b2p, database, lifecycle, response, registry,
                 txActive, closing, open, audited, server>>

UserDecides ==
  /\ open /\ pc = "confirm"
  /\ \E v \in {"APPROVED_BY_USER", "BLOCKED_BY_USER"} :
       verdict' = [verdict EXCEPT ![cur[1].id] = v]
  /\ pc' = "audit"
  /\ UNCHANGED <<sent, delivered, c2p, p2b, b2p, database, lifecycle, response, registry,
                 txActive, closing, open, cur, judged, audited, server>>

\* What a forwarded command leaves in the registry: the parameter types of an
\* inspected EXECUTE, the mark of long data that could not be inspected.
AfterForward(m) ==
  CASE m.type = "EXECUTE" /\ judged[m.id] # None ->
         [statements EXCEPT ![Target(m)].types = TRUE, ![Target(m)].long = FALSE]
    [] m.type = "LONGDATA" /\ m.wf /\ Known(m.stmt) ->
         IF Parameters[statements[m.stmt].sql] > 0
           THEN [statements EXCEPT ![m.stmt].long = TRUE] ELSE statements
    [] OTHER -> statements

AfterRefusal(m) ==
  IF m.type \in {"QUERY", "EXECUTE"} THEN FailCommandForward ELSE UNCHANGED response

\* The audit event is written, then the command is forwarded or refused.
AuditWritten ==
  /\ open /\ pc = "audit"
  /\ LET m == cur[1]
     IN  /\ audited' = [audited EXCEPT ![m.id] = verdict[m.id]]
         /\ \/ /\ verdict[m.id] \in LetThrough
               /\ Forward(m)
               /\ statements' = AfterForward(m)
               /\ UNCHANGED <<delivered, response>>
            \/ /\ verdict[m.id] \in Refused
               /\ delivered' = Append(delivered, ErrorPacket(m))
               /\ AfterRefusal(m)
               /\ UNCHANGED <<p2b, statements>>
  /\ pc' = "read" /\ cur' = <<>>
  /\ UNCHANGED <<sent, c2p, b2p, database, lifecycle, lastId, prepFailed, txActive, closing,
                 open, verdict, judged, server>>

\* After QUIT the client pump returns and the connection is torn down.
ClientPumpEnds ==
  /\ open /\ closing /\ pc = "read"
  /\ open' = FALSE
  /\ UNCHANGED <<sent, delivered, c2p, p2b, b2p, database, lifecycle, response, registry,
                 txActive, closing, task, server>>

ClientPump ==
  \/ BlockedByPending \/ HandleProtocolGap \/ HandleQuery \/ HandleInitDb \/ HandleQuit
  \/ HandlePing \/ HandlePrepare \/ HandleClose \/ HandleReset \/ HandleStateError
  \/ HandleExecute \/ ResumeExecute \/ EstimateDone \/ UserDecides \/ AuditWritten
  \/ ClientPumpEnds

-----------------------------------------------------------------------------
(***************************************************************************)
(* The backend pump: route_backend_packet.  A packet that does not fit the *)
(* pending operation raises, which ends the pump and the connection before *)
(* the packet is relayed.                                                  *)
(***************************************************************************)
Packets == open /\ b2p # <<>> /\ b2p' = Tail(b2p)

\* (slip) the router and its caller both relay the packet
Relay_Twice(p, fits) ==
  /\ open' = fits
  /\ delivered' = IF fits THEN delivered \o <<p, p>> ELSE delivered

Relay(p, fits) ==
  /\ open' = fits
  /\ delivered' = IF fits THEN Append(delivered, p) ELSE delivered

StatusOf(p) == IF p.marker = "ok" THEN p.tx ELSE txActive

PingAnswered ==
  /\ Packets /\ pendingPing
  /\ LET p == Head(b2p)
     IN  /\ Relay(p, p.marker \in {"ok", "err"})
         /\ txActive' = StatusOf(p)
  /\ pendingPing' = FALSE
  /\ UNCHANGED <<sent, c2p, p2b, database, pendingDb, pendingSql, pendingId, metadata,
                 pendingReset, response, registry, closing, task, server>>

ResetAnswered ==
  /\ Packets /\ ~pendingPing /\ pendingReset # None
  /\ LET p == Head(b2p)
     IN  /\ Relay(p, p.marker \in {"ok", "err"})
         /\ txActive' = StatusOf(p)
         /\ statements' = IF p.marker = "ok"
                            THEN [statements EXCEPT ![pendingReset].types = FALSE,
                                                    ![pendingReset].long = FALSE]
                            ELSE statements
  /\ pendingReset' = None
  /\ UNCHANGED <<sent, c2p, p2b, database, pendingDb, pendingSql, pendingId, metadata,
                 pendingPing, response, lastId, prepFailed, closing, task, server>>

\* (slip) the database is switched whatever the server answers
DatabaseAfter_Optimistic(p) == pendingDb

DatabaseAfter(p) == IF p.marker = "ok" THEN pendingDb ELSE database

DatabaseAnswered ==
  /\ Packets /\ ~pendingPing /\ pendingReset = None /\ pendingDb # None
  /\ LET p == Head(b2p)
     IN  /\ Relay(p, p.marker \in {"ok", "err"})
         /\ txActive' = StatusOf(p)
         /\ database' = DatabaseAfter(p)
  /\ pendingDb' = None
  /\ UNCHANGED <<sent, c2p, p2b, pendingSql, pendingId, metadata, pendingPing, pendingReset,
                 response, registry, closing, task, server>>

Preparing == ~pendingPing /\ pendingReset = None /\ pendingDb = None /\ pendingSql # None

\* _require_prepared_capacity.
HasCapacity(id, sql) ==
  LET others == {i \in Ids \ {id} : statements[i] # None}
  IN  /\ statements[id] # None \/ Cardinality(others) < MaxStatements
      /\ MapThenSumSet(LAMBDA i : SqlBytes[statements[i].sql], others) + SqlBytes[sql]
           <= MaxBytes

Copies(kind, n) == [i \in 1..n |-> kind]

\* The packets that follow PREPARE_OK.
MetadataKinds(sql) ==
  LET section(n) == Copies("definition", n)
                    \o (IF n > 0 /\ ~DeprecateEof THEN <<"eof">> ELSE <<>>)
  IN  section(Parameters[sql]) \o section(Columns[sql])

Entry(sql) == [sql |-> sql, types |-> FALSE, long |-> FALSE]

\* (slip) the first statement stays the last one
FinishPrepare_First(id) ==
  /\ pendingSql' = None /\ pendingId' = None /\ metadata' = <<>>
  /\ lastId' = (IF lastId = None THEN id ELSE lastId) /\ prepFailed' = FALSE

\* finish_statement_prepare_response and fail_statement_prepare, after the
\* packet was relayed; both set the event a pipelined EXECUTE waits for.
FinishPrepare(id) ==
  /\ pendingSql' = None /\ pendingId' = None /\ metadata' = <<>>
  /\ lastId' = id /\ prepFailed' = FALSE

\* (slip) the event is not set when the PREPARE failed
FailPrepare_NoEvent ==
  /\ pendingId' = None /\ metadata' = <<>> /\ UNCHANGED pendingSql
  /\ lastId' = None /\ prepFailed' = TRUE

FailPrepare ==
  /\ pendingSql' = None /\ pendingId' = None /\ metadata' = <<>>
  /\ lastId' = None /\ prepFailed' = TRUE

PrepareFails ==
  /\ Packets /\ Preparing /\ Head(b2p).marker = "err"
  /\ Relay(Head(b2p), TRUE)
  /\ FailPrepare
  /\ statements' = IF pendingId = None THEN statements
                                        ELSE [statements EXCEPT ![pendingId] = None]
  /\ UNCHANGED <<sent, c2p, p2b, database, pendingDb, pendingPing, pendingReset, response,
                 txActive, closing, task, server>>

PrepareAccepted ==
  /\ Packets /\ Preparing /\ pendingId = None /\ Head(b2p).marker # "err"
  /\ LET p == Head(b2p)
         fits == p.marker = "ok" /\ p.stmt # None
                 /\ (p.stmt # None => HasCapacity(p.stmt, pendingSql))
         kinds == MetadataKinds(pendingSql)
     IN  /\ Relay(p, fits)
         /\ \/ /\ fits
               /\ statements' = [statements EXCEPT ![p.stmt] = Entry(pendingSql)]
               /\ \/ kinds = <<>> /\ FinishPrepare(p.stmt)
                  \/ /\ kinds # <<>>
                     /\ pendingId' = p.stmt /\ metadata' = kinds
                     /\ UNCHANGED <<pendingSql, lastId, prepFailed>>
            \/ ~fits /\ UNCHANGED <<statements, pendingSql, pendingId, metadata, lastId, prepFailed>>
  /\ UNCHANGED <<sent, c2p, p2b, database, pendingDb, pendingPing, pendingReset, response,
                 txActive, closing, task, server>>

MetadataArrives ==
  /\ Packets /\ Preparing /\ pendingId # None /\ Head(b2p).marker # "err"
  /\ Relay(Head(b2p), Head(metadata) = "eof" => Head(b2p).marker = "eof")
  /\ \/ Len(metadata) = 1 /\ FinishPrepare(pendingId)
     \/ /\ Len(metadata) > 1 /\ metadata' = Tail(metadata)
        /\ UNCHANGED <<pendingSql, pendingId, lastId, prepFailed>>
  /\ UNCHANGED <<sent, c2p, p2b, database, pendingDb, pendingPing, pendingReset, response,
                 statements, txActive, closing, task, server>>

(***************************************************************************)
(* accept_command_response_packet.                                         *)
(***************************************************************************)
AwaitRows == stage' = (IF DeprecateEof THEN "rows" ELSE "metadata_eof") /\ columns' = 0

\* (slip) SERVER_MORE_RESULTS_EXISTS is ignored
FinishOrContinue_Finish(p) == FailCommandForward

\* _finish_or_continue_response.
FinishOrContinue(p) == IF p.more THEN BeginCommandResponse ELSE FailCommandForward

\* The packet is one the stage allows; everything else raises.
Acceptable(p) ==
  \/ p.marker = "err"
  \/ stage = "initial" /\ (p.marker = "ok" \/ (p.marker = "data" /\ p.n > 0))
  \/ stage = "metadata"
  \/ stage = "metadata_eof" /\ p.marker = "eof"
  \/ stage = "rows"

\* (slip) the status of a plain OK is not read
CarriesStatus_EofOnly(p) == stage \in {"metadata_eof", "rows"} /\ p.marker = "eof"

\* The packets whose status flags are read.
CarriesStatus(p) ==
  \/ stage = "initial" /\ p.marker = "ok"
  \/ stage \in {"metadata_eof", "rows"} /\ p.marker = "eof"

Track(p) ==
  \/ (p.marker = "err" \/ ~Acceptable(p)) /\ FailCommandForward
  \/ stage = "initial" /\ p.marker = "ok" /\ FinishOrContinue(p)
  \/ /\ stage = "initial" /\ p.marker = "data" /\ p.n > 0
     /\ \/ p.meta /\ stage' = "metadata" /\ columns' = p.n
        \/ ~p.meta /\ AwaitRows
     /\ UNCHANGED pendingCmd
  \/ /\ stage = "metadata" /\ p.marker # "err"
     /\ IF columns = 1 THEN AwaitRows ELSE columns' = columns - 1 /\ UNCHANGED stage
     /\ UNCHANGED pendingCmd
  \/ /\ stage = "metadata_eof" /\ p.marker = "eof"
     /\ stage' = "rows"
     /\ UNCHANGED <<pendingCmd, columns>>
  \/ stage = "rows" /\ p.marker = "eof" /\ FinishOrContinue(p)
  \/ stage = "rows" /\ p.marker \in {"ok", "data"} /\ UNCHANGED response

NothingElsePending == ~pendingPing /\ pendingReset = None /\ pendingDb = None /\ pendingSql = None

CommandAnswered ==
  /\ Packets /\ NothingElsePending /\ pendingCmd
  /\ Relay(Head(b2p), Acceptable(Head(b2p)))
  /\ Track(Head(b2p))
  /\ txActive' = IF CarriesStatus(Head(b2p)) THEN Head(b2p).tx ELSE txActive
  /\ UNCHANGED <<sent, c2p, p2b, database, lifecycle, registry, closing, task, server>>

\* The answer to a command that was forwarded as a protocol gap.
UntrackedAnswer ==
  /\ Packets /\ ~HasPending
  /\ Relay(Head(b2p), TRUE)
  /\ UNCHANGED <<sent, c2p, p2b, database, lifecycle, response, registry, txActive, closing,
                 task, server>>

BackendPump == PingAnswered \/ ResetAnswered \/ DatabaseAnswered \/ PrepareFails
               \/ PrepareAccepted \/ MetadataArrives \/ CommandAnswered \/ UntrackedAnswer

-----------------------------------------------------------------------------
(***************************************************************************)
(* The server, as the protocol describes it.                               *)
(***************************************************************************)
Plain(m, marker, tx) ==
  [ErrorPacket(m) EXCEPT !.marker = marker, !.tx = tx, !.last = FALSE]

MarkLast(answer) == [i \in DOMAIN answer |-> [answer[i] EXCEPT !.last = (i = Len(answer))]]

\* One result: OK, or a result set of so many rows.  The rows of an EXECUTE
\* are binary and begin with 0x00; MariaDB may leave out column definitions
\* the client has cached.
ResultOf(m, sql, tx, rows, meta, more) ==
  LET end == [Plain(m, IF Columns[sql] = 0 THEN "ok" ELSE "eof", tx) EXCEPT !.more = more]
      header == [Plain(m, "data", FALSE) EXCEPT !.n = Columns[sql], !.meta = meta]
      definitions == IF meta THEN Copies(Plain(m, "data", FALSE), Columns[sql]) ELSE <<>>
      separator == IF DeprecateEof THEN <<>> ELSE <<Plain(m, "eof", tx)>>
      row == Plain(m, IF m.type = "EXECUTE" THEN "ok" ELSE "data", FALSE)
  IN  IF Columns[sql] = 0 THEN <<end>>
      ELSE <<header>> \o definitions \o separator \o Copies(row, rows) \o <<end>>

\* A batch has two results, of which the first announces the second.
Results(m, sql, tx) ==
  LET metas == IF m.type = "EXECUTE" THEN BOOLEAN ELSE {TRUE}
      single == UNION {{ResultOf(m, sql, tx, rows, meta, FALSE) : rows \in 0..MaxRows} :
                         meta \in metas}
  IN  IF Class[sql].impact_kind = "batch"
        THEN {ResultOf(m, sql, tx, 0, TRUE, TRUE) \o s : s \in single}
        ELSE single

\* The text a command makes the server run, None for an unknown statement.
TextOf(m) ==
  IF m.type = "QUERY" THEN m.sql
  ELSE LET id == IF m.stmt = LAST THEN bLast ELSE m.stmt
       IN  IF id \in DOMAIN bStmts THEN bStmts[id] ELSE None

Receive(types) == open /\ p2b # <<>> /\ Head(p2b).type \in types /\ p2b' = Tail(p2b)

Answer(packets) == b2p' = b2p \o MarkLast(packets)

\* What goes unsaid of a transaction when an answer ends with ERR, which
\* carries no status, or is not read.
Unsaid(tx) == quiet' = (quiet \/ bTx # tx \/ bTx' # tx)

\* An error may come with a rollback of the whole transaction, as that of a
\* deadlock does, or behind the implicit commit of the failing statement.
ServerRuns ==
  /\ Receive({"QUERY", "EXECUTE"})
  /\ LET m == Head(p2b)
         sql == TextOf(m)
         tx == CASE TxEffect[sql] = "begin" -> TRUE
                 [] TxEffect[sql] = "end"   -> FALSE
                 [] TxEffect[sql] = "none"  -> bTx
     IN  /\ m.wf /\ sql # None
         /\ bDb' = IF UseDb[sql] = None THEN bDb ELSE UseDb[sql]
         /\ moved' = (moved \/ UseDb[sql] # None)
         /\ executed' = executed \cup {[id |-> m.id, sql |-> sql]}
         /\ \E packets \in Results(m, sql, tx) :
              \/ /\ Answer(packets) /\ bTx' = tx
                 /\ IF verdict[m.id] = "ALLOWED_PROTOCOL_GAP" THEN Unsaid(tx) ELSE quiet' = FALSE
              \/ /\ Len(packets) > 1    \* fails while sending its rows
                 /\ Answer(SubSeq(packets, 1, Len(packets) - 1) \o <<Plain(m, "err", FALSE)>>)
                 /\ bTx' \in {tx, FALSE} /\ Unsaid(tx)
  /\ UNCHANGED <<sent, delivered, c2p, database, lifecycle, response, registry, txActive,
                 closing, open, task, bStmts, bLast>>

ServerPrepares ==
  /\ Receive({"PREPARE"}) /\ Head(p2b).wf
  /\ LET m == Head(p2b)
         id == Len(bStmts) + 1
         section(n) == Copies(Plain(m, "data", FALSE), n)
                       \o (IF n > 0 /\ ~DeprecateEof THEN <<Plain(m, "eof", bTx)>> ELSE <<>>)
     IN  /\ bStmts' = Append(bStmts, m.sql)
         /\ bLast' = id
         /\ Answer(<<[Plain(m, "ok", FALSE) EXCEPT !.stmt = id]>>
                   \o section(Parameters[m.sql]) \o section(Columns[m.sql]))
  /\ UNCHANGED <<sent, delivered, c2p, database, lifecycle, response, registry, txActive,
                 closing, open, task, bDb, bTx, moved, quiet, executed>>

\* Any command with an answer may fail; a failed PREPARE leaves no last one.
ServerFails ==
  /\ Receive({k \in Kinds : HasAnswer([type |-> k])})
  /\ LET m == Head(p2b)
     IN  /\ Answer(<<Plain(m, "err", FALSE)>>)
         /\ bLast' = IF m.type = "PREPARE" THEN None ELSE bLast
         /\ bTx' = bTx \/ (bTx' = FALSE /\ m.type \in {"QUERY", "EXECUTE", "OTHER"})
         /\ Unsaid(bTx)
  /\ UNCHANGED <<sent, delivered, c2p, database, lifecycle, response, registry, txActive,
                 closing, open, task, bStmts, bDb, moved, executed>>

ServerAcknowledges ==
  /\ Receive({"INIT_DB", "PING", "RESET"}) /\ Head(p2b).wf
  /\ LET m == Head(p2b)
     IN  /\ bDb' = IF m.type = "INIT_DB" THEN m.db ELSE bDb
         /\ moved' = (moved /\ m.type # "INIT_DB")
         /\ Answer(<<Plain(m, "ok", bTx)>>)
  /\ quiet' = FALSE
  /\ UNCHANGED <<sent, delivered, c2p, database, lifecycle, response, registry, txActive,
                 closing, open, task, bStmts, bLast, bTx, executed>>

\* A command the proxy does not support leaves the session alone, or resets
\* it, as COM_RESET_CONNECTION and COM_CHANGE_USER do.
ServerResets ==
  /\ Receive({"OTHER"}) /\ Head(p2b).wf
  /\ \/ /\ Answer(<<Plain(Head(p2b), "ok", bTx)>>)
        /\ UNCHANGED <<bStmts, bLast, bDb, bTx, moved, quiet>>
     \/ /\ Answer(<<Plain(Head(p2b), "ok", FALSE)>>)
        /\ bStmts' = [i \in DOMAIN bStmts |-> None] /\ bLast' = None
        /\ bTx' = FALSE /\ Unsaid(bTx)
        /\ bDb' \in Databases /\ moved' = (moved \/ bDb' # bDb)
  /\ UNCHANGED <<sent, delivered, c2p, database, lifecycle, response, registry, txActive,
                 closing, open, task, executed>>

\* CLOSE, SEND_LONG_DATA and QUIT have no answer.
ServerTakes ==
  /\ Receive({"CLOSE", "LONGDATA", "QUIT"})
  /\ LET m == Head(p2b)
     IN  IF m.type = "CLOSE" /\ m.wf /\ m.stmt \in DOMAIN bStmts
           THEN /\ bStmts' = [bStmts EXCEPT ![m.stmt] = None]
                /\ bLast' = IF bLast = m.stmt THEN None ELSE bLast
           ELSE UNCHANGED <<bStmts, bLast>>
  /\ UNCHANGED <<sent, delivered, c2p, b2p, database, lifecycle, response, registry, txActive,
                 closing, open, task, bDb, bTx, moved, quiet, executed>>

Server == ServerRuns \/ ServerPrepares \/ ServerFails \/ ServerAcknowledges
          \/ ServerResets \/ ServerTakes

-----------------------------------------------------------------------------
Next ==
  \/ \E r \in Requests : ClientSend(r)
  \/ ClientPump
  \/ BackendPump
  \/ Server

Spec == Init /\ [][Next]_vars

\* The event loop runs both pumps and the server answers; nobody obliges the
\* client to send or the operator to click.
FairSpec == Spec /\ WF_vars(ClientPump /\ pc # "confirm") /\ WF_vars(BackendPump)
                 /\ WF_vars(Server)

-----------------------------------------------------------------------------
Message == [type : Kinds, wf : BOOLEAN, stmt : Ids \cup {LAST}, bound : BOOLEAN,
            sql : SQL, db : Databases, id : Ids]

StreamTyped ==
  /\ sent \in Seq(Message) /\ Len(sent) <= MaxSent
  /\ c2p \in Seq(Message) /\ p2b \in Seq(Message)

AnswersTyped == delivered \in Seq(Packet) /\ b2p \in Seq(Packet)

LifecycleTyped ==
  /\ database \in Databases /\ pendingDb \in Databases \cup {None}
  /\ pendingPing \in BOOLEAN /\ pendingReset \in Ids \cup {None}
  /\ txActive \in BOOLEAN /\ closing \in BOOLEAN /\ open \in BOOLEAN

PrepareTyped ==
  /\ pendingSql \in SQL \cup {None} /\ pendingId \in Ids \cup {None}
  /\ metadata \in Seq({"definition", "eof"}) /\ (pendingId # None => metadata # <<>>)

ResponseTyped ==
  /\ pendingCmd \in BOOLEAN
  /\ stage \in {"initial", "metadata", "metadata_eof", "rows"} /\ columns \in Nat
  /\ (stage = "metadata") <=> (columns > 0)

RegistryTyped ==
  /\ statements \in [Ids -> Entries \cup {None}]
  /\ lastId \in Ids \cup {None} /\ prepFailed \in BOOLEAN

TaskTyped ==
  /\ pc \in {"read", "wait", "estimate", "confirm", "audit"}
  /\ cur \in Seq(Message) /\ Len(cur) = IF pc = "read" THEN 0 ELSE 1
  /\ verdict \in [Ids -> Verdicts] /\ audited \in [Ids -> Verdicts]
  /\ judged \in [Ids -> SQL \cup {None}]

ServerTyped ==
  /\ bStmts \in Seq(SQL \cup {None}) /\ bLast \in Ids \cup {None}
  /\ bDb \in Databases /\ bTx \in BOOLEAN /\ moved \in BOOLEAN /\ quiet \in BOOLEAN
  /\ executed \subseteq [id : Ids, sql : SQL]

\* The types of the session state and of what the client and the server keep.
TypeOK == /\ StreamTyped /\ AnswersTyped /\ LifecycleTyped /\ PrepareTyped
          /\ ResponseTyped /\ RegistryTyped /\ TaskTyped /\ ServerTyped

\* The commands whose audited judgement lets them through.
Cleared ==
  {id \in Ids :
     /\ verdict[id] \in LetThrough /\ audited[id] = verdict[id]
     /\ verdict[id] = "ALLOWED_PROTOCOL_GAP" => Mode = "permissive"}

Runs(m) == m.type \in {"QUERY", "EXECUTE"}

\* No QUERY or EXECUTE is on its way to the server or run by it before its
\* own judgement let it through and the audit write was made, across the
\* awaits of the handlers and the wait of a pipelined EXECUTE; one that could
\* not be inspected passes in permissive mode only.
OnlyClearedReachServer ==
  /\ \A i \in 1..Len(p2b) : Runs(p2b[i]) => p2b[i].id \in Cleared
  /\ \A e \in executed : e.id \in Cleared

\* How many commands the client pump has taken off its socket, and how many of
\* them it is done with.
Taken == Len(sent) - Len(c2p)
Left  == IF pc = "read" THEN Taken ELSE Taken - 1

\* The session as a gate: a command is decided when its audit event is
\* written.
DecisionOf(id) == IF id \in Cleared THEN "pass"
                  ELSE IF audited[id] \in Refused THEN "refuse" ELSE "open"

Gate == INSTANCE SqlGate WITH
  Ids <- Ids,
  reached <- Left,
  decision <- [id \in Ids |-> DecisionOf(id)],
  flight <- [k \in 1..Len(p2b) |-> p2b[k].id],
  ran <- {e.id : e \in executed},
  blank <- {}

\* The session implements the gate: commands are decided in order, once and
\* for all, sent on once when they pass, and run in that order or not at all,
\* also the EXECUTE that waited for its PREPARE.
ImplementsGate == Gate!Spec

\* The text the server runs for a command is the text that was judged: the
\* registry follows the server's statement ids through PREPARE, CLOSE and
\* failed PREPAREs, also for EXECUTE of LAST sent behind a PREPARE.
ExecutedIsJudged ==
  \A e \in executed : verdict[e.id] # "ALLOWED_PROTOCOL_GAP" => judged[e.id] = e.sql

\* A command whose answer the proxy tracks: let through by inspection, or a
\* lifecycle command that was forwarded.
Tracked(m) == HasAnswer(m) /\ m.type # "OTHER" /\ verdict[m.id] # "ALLOWED_PROTOCOL_GAP"

\* The proxy awaits an acknowledgement exactly as long as a tracked command
\* or a part of its answer is still on its way, or a judgement is under way:
\* it neither lets the next command in early, into the middle of an answer,
\* nor refuses commands for an answer that is complete
\* (has_pending_lifecycle_operation, accept_command_response_packet).
PendingIsOutstanding ==
  (open /\ pc = "read") =>
    (HasPending <=> \/ \E i \in 1..Len(p2b) : Tracked(p2b[i])
                   \/ \E i \in 1..Len(b2p) : Tracked(sent[b2p[i].id]))

\* Answers reach the client in the order of its commands, those the proxy
\* makes up among those of the server.
AnswersInOrder ==
  \A i, j \in 1..Len(delivered) : i < j => delivered[i].id <= delivered[j].id

\* Nothing follows the last packet of an answer, and a command the protocol
\* does not answer gets no packet but the one ERR with which the proxy refuses
\* it: each command is answered at most once, by the server or by the proxy,
\* however many the client sends ahead.
NothingUnasked ==
  \A i \in 1..Len(delivered) :
    LET p == delivered[i]
    IN  /\ \A j \in 1..i - 1 : delivered[j].last => delivered[j].id # p.id
        /\ ~HasAnswer(sent[p.id]) => /\ p.marker = "err" /\ p.last
                                    /\ audited[p.id] \notin LetThrough

\* Once everything is answered, the transaction status the session recorded
\* is the server's, unless the transaction ended with an ERR, which carries no
\* status, or by a command the proxy does not track; the next answer that is
\* read sets it right.
StatusIsTrue ==
  (open /\ pc = "read" /\ p2b = <<>> /\ b2p = <<>>) => txActive = bTx \/ quiet

\* The row estimate of a command is made in the database the command will
\* run in, unless a USE statement or a command the proxy does not track has
\* moved the session; the next INIT_DB that succeeds sets it right.
EstimateInActiveDatabase == (open /\ pc = "estimate") => database = bDb \/ moved

\* Every command that has an answer is answered completely, or the connection
\* is closed, as long as the operator keeps answering the confirmations: no
\* PREPARE, EXECUTE waiting for one or result set leaves the session stuck.
CommandIsAnswered ==
  []<>(pc # "confirm") =>
    \A i \in Ids :
      (i <= Len(sent) /\ HasAnswer(sent[i]))
        ~> (~open \/ \E k \in 1..Len(delivered) : delivered[k].id = i /\ delivered[k].last)

=============================================================================
