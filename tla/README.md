# A verification project for OhMyDB Proxy

OhMyDB Proxy stands between a database client and a PostgreSQL, MySQL or
MariaDB server. It reads the client's traffic, classifies each SQL request,
estimates how many rows it touches, applies a policy, asks an operator where the
policy says so, writes an audit record, and forwards or refuses the request.

The TLA+ modules here are translated from `src/sql_safety_proxy`. TLC checks them
on small instances; TLAPS proves part of the results for every instance.
`PROJECT.json` maps each definition to the lines it models.

## 1. Inventory

| part | state it keeps | operations | how it interacts | what is hard |
|---|---|---|---|---|
| classification (`sql_classifier.py`) | none | `classify` | pure, called per request | which WHERE clause counts |
| policy (`policy.py`), fail-safe mode (`fail_safe.py`) | the configuration | `evaluate_policy`, `evaluate_protocol_gap` | pure | thresholds, missing estimates |
| decision (`proxy.py` `_estimate`, `_evaluate_and_decide`) | none of its own | estimate, evaluate, confirm, audit | awaits the estimator, the operator and the audit log | three suspension points between reading a message and forwarding it |
| PostgreSQL session (`proxy.py`, `pg_protocol.py`, `extended_protocol.py`) | `ConnectionState`: statements, portals, transaction status, recovery flag | one handler per frontend message, `_pipe_backend` | two tasks share the state and the client's socket; the server keeps its own copy of everything | pipelining, recovery after a refusal, answers made up by the proxy, rejected Parse or Bind |
| PostgreSQL connection (`_handle_client`, `start_postgres_proxy`, framers of `pg_protocol.py`) | sockets, tasks, partial messages | startup, framing, timeouts, teardown, shutdown | starts both tasks; both write to the client's socket | reads that cut messages anywhere, timeouts against confirmations, a shutdown during the teardown |
| MySQL session (`session.py`, `dispatcher.py`, `handler.py`, `backend.py`, `relay.py`) | `MySqlSessionState`: pending operation, progress of the current answer, statements, database, transaction | one branch per command, one per kind of answer packet | two pumps share the state | finding the end of an answer, EXECUTE sent behind PREPARE, commands without an answer |
| MySQL connection (`auth.py`, `relay.py`, `connection.py`, `runtime.py`) | authentication phase, tasks | authentication relay, teardown, shutdown | one pump's end cancels the other | the phase changes in one pump and is used by the other; cancellation at any await |
| packet codec (`protocol.py`) | partial packets and commands | framing, assembly and parsing | used by both pumps | commands of several packets, packets over 16 MB |
| audit log (`audit.py`) | lock, files | `log`, `_append`, `_rotate_if_needed` | shared by all connections, writes in worker threads | concurrency, cancellation, crash during rotation |
| confirmation (`confirmation.py`, `popup_confirmation.py`) | dialog lock | `confirm` | worker threads, shared with the audit log, or the event loop itself | dialogs can take all threads, outlive their connection, or fail to open |
| sanitization, parameter decoding, registry, command line | none over time | conversions, options | pure | - |

What makes each part correct:

* decision: what passes unasked is small or configured to pass; what is large is
  stopped; more rows never mean a more lenient decision;
* sessions: nothing reaches the server before its own judgement let it through;
  the text judged is the text run; answers keep their order and number, whoever
  writes them; after a refusal nothing runs until Sync; the recorded transaction
  status and database are the server's; the registries keep their limits; nobody
  waits for ever;
* connections: whatever the reads cut, the server gets whole messages, once and in
  order; the proxy's own answers do not land inside the server's; nothing passes
  uninspected around the end of the authentication; whatever ends a connection ends
  all of it;
* shared threads and locks: one dialog at a time, a yes counts for its own statement
  only, and while the operator answers nobody is held up for good;
* audit log: one writer at a time, the newest records survive rotations, crashes
  and failing system calls in order, every call returns.

The hazards behind these properties are listed in `PROJECT.json`, each at its
line, with the properties that cover it.

## 2. Modules

| module | models | extends |
|---|---|---|
| `Policy` | classification, policy, fail-safe mode, as operators | |
| `Decision` | one request from text to verdict | `Policy` |
| `PgState` | `ConnectionState` as pure operators on its two dictionaries | |
| `PgSession` | client, the proxy's two tasks, server of one PostgreSQL session | `Policy`, `PgState` |
| `MySqlSession` | client, two pumps, server of one MySQL or MariaDB session | `Policy` |
| `SqlGate` | what a session promises, whatever the protocol (abstract) | |
| `Framer` | how a stream of bytes is cut into messages, both protocols | |
| `Wire` | the two sockets of a connection, what is on the way | `Framer` |
| `PgConnection` | one PostgreSQL connection from accept to close | `Wire` |
| `MySqlConnection` | one MySQL or MariaDB connection from greeting to close | `Wire` |
| `Workers` | event loop, thread pool, confirmation providers, dialog lock, audit lock | |
| `AuditLog` | tasks, lock, worker threads, files, crashes | |
| `MCDecision`, `MCPgSession`, `MCMySqlSession`, `MCPgConnection`, `MCMySqlConnection`, `MCWorkers`, `MCAuditLog` | instances for TLC | |
| `DecisionProofs`, `PgSessionProofs`, `MySqlSessionProofs`, `PgConnectionProofs`, `MySqlConnectionProofs`, `WorkersProofs`, `AuditLogProofs` | theorems | the component's module; all but `DecisionProofs`: `Facts` |
| `Facts` | lemmas the proofs share: induction, sums over finite sets, sequences, folds, framing | `Framer` |

**Data.** A SQL text is a value with a classification, a size, an effect on the
transaction and, for MySQL, numbers of parameters and columns. For `Decision` it is
a syntax summary: how many statements, which kind, whether a WHERE clause is the
statement's own or a subquery's. Messages carry `wf`, whether their parser accepts
them. Reasons, wording and console output are left out.

**Steps.** A coroutine runs undisturbed up to an await that suspends. A write
followed by `drain` is part of its step, because the peer cannot act on it before
the handler goes on. The estimate, the confirmation, the audit write and the wait
for a PREPARE are real suspension points, so each handler is split there; `pc` and
`cur` say where the task is and with which message. In `AuditLog` a thread can be
interrupted between any two system calls.

**PgSession.** `statements`, `portals`, `txStatus`, `errorPending` are the fields of
`ConnectionState`. `HandleSimpleQuery`, `HandleParse`, `HandleBind`, `HandleExecute`,
`HandleClose`, `HandleOther`, `HandleMalformed`, `SkipUntilSync`, `SyncAfterError` and
`TerminateAfterError` are the branches of `_handle_frontend_message`; `EstimateDone`, `UserDecides` and
`AuditWritten` continue a handler after an await; `PipeBackend` is `_pipe_backend`.
The server follows the PostgreSQL protocol: it rejects a Parse of a name in use,
forgets portals at the end of a transaction, discards messages after an error up to
Sync; with `BackendMayFail` it rejects anything. Of the messages the proxy forwards
unread (`Unread`) Sync, Terminate and FunctionCall have actions of their own at the
server: a FunctionCall (`BackendCalls`) makes it run a function, and nobody was asked.
Describe stands for those that run nothing. `verdict`, `judged`, `audited` and
`executed` record what was decided about each message and what was run.

**MySqlSession.** The variables are the fields of `MySqlSessionState`. Each branch of
`dispatch_authenticated_command` is an action, each branch of `route_backend_packet`
another; `Track` is `accept_command_response_packet`. A packet shows the proxy its
marker, counts and flags only; `last`, the truth about the end of an answer, is read
by properties and by the client, never by the proxy. The server sends result sets with and
without EOF packets, with metadata left out, batches of two results, and errors in
the middle of the rows. An error may end the transaction, as a deadlock or a DDL
statement that fails behind its implicit commit does, and says nothing of it
(`ServerFails`, and cut answers in `ServerRuns`). A command the proxy does not support
can reset the session (`ServerResets`): its transaction, database and statements; it is
forwarded in permissive mode only. `quiet` and `moved` record that the transaction or
the database changed by a step whose acknowledgement the proxy does not read, and that
none was read since. The server does not give out a statement id twice, which it might
do after a reset.

**SqlGate** is the abstract specification of a session: the client's requests are dealt
with one after the other and for good (`reached`, `decision`); one that passes is sent
on at that moment and once (`Pass`), one that is refused is not (`Refuse`), one without
SQL text may go without a decision (`SendUndecided`) or be dropped (`Discard`), and the
server takes what was sent on in that order and runs nothing that was not passed
(`Serve`), with one exception: requests the client made without any SQL text that still
make the server run something (`blank`, `OfferBlank`). For PostgreSQL these are the
FunctionCalls, for MySQL there are none. `PgSession` and `MySqlSession` instantiate it: a request is
passed when it is cleared (classified as safe, or its audit event written with a
decision that lets it through) and refused when the audit event says so, `flight` is
the stream to the server and `ran` what it has run. `ImplementsGate` is the abstract
specification as a property.

**Framer, Wire.** A byte is a cell: its message and its place in it. A read returns any
non-empty prefix of what is on the way. `Push` is the loop of the framers of both
protocols; a message declares its size in its header, which can be invalid.

**PgConnection.** `handler` says where `_handle_client` waits: for startup bytes, the
connection to the server, bytes, a decision, the backend task, a socket to close.
`backendTask` is `_pipe_backend`, which can be cancelled before it ever ran. Any read
can time out, and the write of the startup message can fail with the server's socket
open and no backend task yet (`StartupWriteFails`). `Shutdown` cancels the handler where
it waits. What a message means is
reduced to "forwarded at once" or "decided first".

**MySqlConnection.** `clientTask` and `backendTask` are the two pumps, `handler` is
`handle_mysql_connection` around them. `auth` and `phase` are the two phases the code
keeps in `MySqlAuthState` and `MySqlBackendState`. The server asks for more data any
number of times, says OK or ERR, and may leave at any time; up to its OK (`granted`) it
takes whatever comes for a part of the authentication. The client may send commands
before it has that OK (`MaySendEarly`, at most `MaxEarly`). Commands can span packets;
`parts` is what the assembler holds. `backend.py` writes and drains the OK and then
moves the phase on; that is one step of `BackendReads`. `drain` suspends only when the
writer is far behind, and a pump that is suspended there is woken when the writer's
buffer has run down, before anything can be read that the client sent because of the
OK. What the other pump handles in between is a packet sent before it, which is handled
as in the state before the step.

**Workers.** `task` says what the coroutine `_evaluate_and_decide` of a connection
waits for, `jobs` and `thread` are the pool behind `asyncio.to_thread`, first in first
out. A thread that waits for `_dialog_lock` is occupied. Cancelling a task drops its
queued job and leaves a running one to finish for nobody, so an abandoned dialog stays
on the screen with its lock and its thread. The place of a connection that ended is
taken by a new one. The provider is chosen once, in `Init`.

**AuditLog.** `Log`, `LogReturns` and `Cancel` are the life of a call to `log`;
`CheckSize`, `UnlinkOldest`, `ShiftGeneration`, `OpenFile` and `AppendRecord` are the
steps of `_append` and `_rotate_if_needed`. Each of them can raise (`AppendFails`): the
append ends there, the files stay as they are, and the next record begins again with
the size check. A cancelled task leaves its thread running. A crash drops tasks, lock
and threads, and keeps the files.

Definitions ending in `_Something` with a comment "(slip)" are plausible mistakes;
`PROJECT.json` pairs each with the property that notices it.

## 3. Runs

| run | instance | checks |
|---|---|---|
| `decision` | every syntax summary without nested WHERE, four configurations, row counts 0..4 around both thresholds | `AutoAllowedIsSmall`, `LargeMutationIsStopped`, `StricterWithMoreRows` |
| `pg_step` | client that waits, up to 6 messages, server may reject anything, transactions begun by Query or by extended messages, two names, byte limit that is reached | `ExecutedIsJudged`, `ReadyStatusIsTrue`, `StateIsBounded`, `TypeOK` |
| `pg_pipeline` | client that never waits, 4 messages, FunctionCall and Terminate among them, permissive mode, one registry entry | `OnlyClearedReachServer`, `ImplementsGate`, `NothingRunsUntilSync`, `AtMostOneReady`, `OnlyRefusalsOvertake`, `SyncIsAnswered` |
| `mysql_step` | client that waits except behind PREPARE, 4 commands, USE and unsupported commands among them, permissive mode, EOF packets | `ExecutedIsJudged`, `AnswersInOrder`, `StatusIsTrue`, `EstimateInActiveDatabase` |
| `mysql_pipeline` | client that never waits, 3 commands, long data and malformed ones among them, balanced mode, no EOF packets | `OnlyClearedReachServer`, `ImplementsGate`, `PendingIsOutstanding`, `NothingUnasked`, `CommandIsAnswered` |
| `pg_connection` | up to three messages of two or three bytes, cut anywhere: negotiation, startup, queries, others; invalid lengths, answers too large, timeouts, both sides leaving, shutdown | `ServerStreamIntact`, `ClientStreamIntact`, `NothingLeftBehind`, `AnsweredOrEnded`, `TeardownCompletes` |
| `mysql_connection` | handshake and two further packets: replies, commands behind the OK and one before it, continued commands in and out of sequence, too large ones, TLS requests; timeouts, both sides leaving, shutdown | `CommandsAreInspected`, `ServerStreamIntact`, `TeardownCompletes` |
| `workers` | two connections that judge for ever and can be cancelled and replaced, two threads, all four providers, with and without audit log | `DialogsAreSerial`, `SentWasApproved`, `AnswersReachTheirStatement`, `EveryRequestIsDecided`, `AllowedIsNotHeldUp` |
| `audit` | 3 tasks, 7 records of sizes below, at and above the limit, 2 backups, 2 crashes, 1 failing system call | `AppendsAreSerial`, `KeepsRecent`, `RetentionIsFull`, `FilesAreBounded`, `EveryLogReturns` |

Three runs show a disagreement between the code and what the repository says of it:

| run | property violated | what happens |
|---|---|---|
| `decision_nested` | `NoWhereIsProtected` | `ast.find(exp.Where)` finds a subquery's WHERE; the UPDATE around it, which has none, is not treated as one without WHERE, and its preview counts under the wrong predicate |
| `pg_rename` | `ExecutedIsJudged` | a Parse of a name in use replaces the proxy's text, then the server rejects it and keeps the old one |
| `audit_cancel` | `AppendsAreSerial` | cancelling a task frees the lock while its thread still writes |

**What the passing runs exclude.** `pg_step` has a client that does not reuse a name
that is open, `audit` cancels only tasks that wait for the lock: see the runs above.
Two more properties are stated for part of the clients:

* PostgreSQL: the error for a refused message can be written between two chunks of one
  of the server's messages; `ClientStreamIntact` places the proxy's own answers only for
  messages sent when everything before was answered.
* PostgreSQL: for a Query sent behind extended messages without a Sync, and refused, the
  proxy makes up a ReadyForQuery from a status it recorded before those messages;
  `ReadyStatusIsTrue` is stated for clients that end their batches (`Synced`).

**Where the code falls short and a property says how far.** These cases are in the
instances; each of the properties fails when its exception is taken out.

* `OnlyRefusalsOvertake`: in a batch of Parse, Bind, Execute and Sync whose Execute is
  refused, the error reaches the client before the server's answers to Parse and Bind.
  `docs/ARCHITECTURE.md:37` says of this case that "recovery follows PostgreSQL protocol
  semantics so the client and backend remain synchronized". Refusals are all that
  overtakes: a ReadyForQuery, or the answer to anything that passed, comes after every
  answer to what was sent before it.
* `ImplementsGate` (PostgreSQL): a FunctionCall is forwarded without a decision and
  without an audit event (`proxy.py:803`), and the server runs the function. It is the
  only such message.
* `NothingUnasked`: long data or a malformed CLOSE refused outside permissive mode gets
  an ERR packet although these commands have no answer
  (`tests/test_mysql_dispatcher.py:587-612` asserts it for long data). It is one packet,
  and never for a command that was forwarded.
* `StatusIsTrue`: an ERR carries no transaction status, so after one that ended the
  transaction (or after a reset forwarded in permissive mode) the recorded status is
  stale until the next answer the proxy reads.
* `EstimateInActiveDatabase`: USE sent as a query moves the server, not the proxy; until
  the next COM_INIT_DB that succeeds estimates are made in the old database.
  `docs/v06_mysql_mariadb_runtime_validation.md:27` lists USE as validated.
* `CommandsAreInspected`, MySQL's `ServerStreamIntact`: a command the client sends behind
  its handshake response, before it has the OK, is forwarded unread as a packet of the
  authentication (`relay.py:151-159`), and a server that takes its packets in order runs
  it after the OK. Commands sent when the client has the OK are dispatched all the same.
* `RetentionIsFull`: a rotation that a crash or a failing system call cuts short is begun
  again by the next record, which unlinks the oldest backup a second time. Each costs
  one file at most.

Behaviour the models show and no property forbids:

* A shutdown that arrives while the teardown awaits the other task (`aborted`) ends
  the teardown there and leaves the socket to the server to the process's own exit;
  `NothingLeftBehind` is about teardowns that run to their end.
* After a read timeout on the server's side of a PostgreSQL connection the client's
  socket is closed, but a statement approved later is still sent to the server.
* Messages framed before an invalid one in the same chunk are dropped with it.
* With as many dialogs as threads, statements that need no confirmation wait for the
  operator too: their audit events find no thread. `AllowedIsNotHeldUp` holds while a
  thread is free now and then.
* A portal can be forgotten by the proxy while the server keeps it (a ReadyForQuery
  with status I, a Parse of the unnamed statement); its Execute is then refused.

**Bounds.** `MaxSent` bounds the messages of a session. Four suffice for a complete
PostgreSQL batch, six for a transaction with a statement prepared, closed, prepared
again with another text while a portal of the first is open; three or four MySQL
commands for PREPARE, EXECUTE and two more that meet the state they leave. On a
connection three messages give a negotiation or startup and two more in one chunk or
cut between chunks, or a handshake and a command of two packets; messages have two to
four bytes, so that header, body and next message can be separated by any cut. In
`workers` two connections reach every kind of contention although there are two
threads, because an abandoned dialog keeps its thread while its connection's place
asks again: both threads can be taken by dialogs while the other connection waits to
write. Seven records with two backups rotate the log three times, so that records are
dropped. `MaxItems` and `MaxBytes` are small enough to be reached. `MaxRows` is 1: the
tracker treats all rows alike. `SequenceIds` is 2 instead of 256, so that ids wrap.
The sets of requests are chosen per run so that the cases in its description happen; no
symmetry is used. `MaxEarly` is 1: one command sent too early can stand anywhere before
the OK. A Describe is in none of these sets; the theorems of `PgSessionProofs` cover it.

**Deadlock** is checked in `workers`, where somebody can always act. Elsewhere it is
not: a client may stop sending at any time, and a behaviour ends when `MaxSent` is
reached.

**Fairness.** The event loop runs every task that is ready and the server answers
what it receives: weak fairness of the tasks and of the server. The operator is
under no obligation, so a task that waits for a confirmation is exempt, and
`SyncIsAnswered`, `CommandIsAnswered`, `AnsweredOrEnded` and PostgreSQL's
`TeardownCompletes` assume that confirmations are answered again and again
(`[]<>(pc # "confirm")`, `[]<>(handler # "decide")`). MySQL's `TeardownCompletes`
assumes nothing of the operator, because the pump that waits is cancelled. Timeouts,
departures and shutdowns may happen and need not. In `workers` a resumed task is
strongly fair, since the event loop keeps ready callbacks in line while the command
line prompt blocks it, and so is taking the dialog lock: `threading.Lock` promises no
order, and without this a thread could be passed over for ever by others that keep
asking. Worker threads are run and their tasks resumed (`audit`). Clients need not
send.

## 4. Proofs

All theorems hold for every value of the constants that satisfies the named
assumptions of the modules: any names, texts, limits, policies, modes, request sets,
message sizes, numbers of connections and lengths of a session.

**Technique.** The prover has no induction rule it can apply to a formula, so `Facts`
derives one about sets: the least element of the numbers outside a set
(`LeastNumber`, from the well-foundedness of `<`) gives `Induction`. With it the folds
(`FoldExists`), the sums over finite sets (`SumExists`), the flattening of a sequence
(`FlattenUnfolds`) and the recursive function inside `Push` (`PushUnfolds`) are shown
to satisfy their equations, and what they compute is proved from these.

### Decision (`DecisionProofs`)

`PolicyMonotonic` is a property of `evaluate_policy` alone. `DecisionStricter`,
`DecisionSmall` and `DecisionStopsLarge` are the three properties of the run
`decision`, the last two under the assumption `OwnWhere` that `decision_nested` shows
to be needed. The inductive invariant says what each stage has established: the
classification is that of the request, the rows are those of the preview, a failed
estimate leaves none, the decision is the policy's, the outcome follows the decision.

### PostgreSQL session (`PgSessionProofs`)

* `SessionTyped`, `SessionGate`: `Spec => []TypeOK`, `Spec => []OnlyClearedReachServer`.
  The gate is not inductive as it stands. Its inductive invariant `IInv` says, beside
  the types, that the client's socket holds the messages sent last, numbered in order
  (`QueueNumbered`); that the task works on the message it took last
  (`CurrentIsLast`); that everything forwarded or run is older than the message in
  hand (`ForwardedIsOlder`); and that at each await the judgement has reached the
  stage `pc` says (`CurrentIsJudged`). The numbering is what makes it inductive: a step
  that changes the verdict of the message in hand cannot change the verdict of one
  already forwarded, because their numbers differ.
* `SessionImplementsGate`: the refinement of `SqlGate`. The steps of the session fall
  into those that keep the gate's state, those that finish the message in hand
  (forwarded or not, decided or not) and those in which the server takes a message;
  each is shown to be a stutter or one action of the gate from what it changes. Sending
  a FunctionCall is the gate's `OfferBlank`, and only such a message is run undecided.
* `RefusalsAloneOvertake` (`OnlyRefusalsOvertake`), from `OrderInv`: the packets on
  their way back are in order and older than what waits for the server; and what was
  delivered is about a message the task has finished, which was refused or has nothing
  older on its way in either direction.
* `ReadyOncePerRequest` (`AtMostOneReady`) and `RecoveryHolds`
  (`NothingRunsUntilSync`), from `TrafficInv`. `SentInv`: every message anywhere is
  the one the client sent under its number, and the server's queue is in order.
  `ReadyInv`: a ReadyForQuery, delivered or on its way, is the only one for its
  message, and that message is not in the server's queue any more. `RecoveryInv`:
  behind an extended message that failed nothing was run before a Sync, what waits for
  the server has a Sync before it or will be discarded, and so will be what the proxy
  has yet to forward, because it skips too, or a Sync was taken, or the server skips.
* `RegistriesAreBounded` (`StateIsBounded`): both registries are finite, hold at most
  `MaxItems` entries each and `MaxBytes` together (`WithinLimits`). Registering projects
  the new size from sums over the entries; adding, replacing and removing an entry are
  shown to change the sum by what the code computes, or the projection to be above it,
  where portals of a replaced statement go as well.

Two theorems are about a client that waits (`Window = "step"`): it sends its next
message when the last one is answered, and does not prepare or bind a name that is open.
They share `WaitInv`: at most one message is anywhere on its way, everything delivered
belongs to it or to earlier ones, and a server that discards has told the client so, who
then sends a Sync.

* `StatusToldIsTrue` (`ReadyStatusIsTrue`), from `StatusInv`: at the beginning of a batch
  the recorded status is the server's, and it is what the client was told last.
* `WhatRunsWasJudged` (`ExecutedIsJudged`), from `RegistryInv`: a statement or portal that
  is open on both sides has the same text on both, except while the Parse or Bind that
  makes it is under way. The registry may know more than the server (after an error) or
  less (after the portals were cleared), and neither hurts. Without fresh names it is
  false (`pg_rename`). It is also stated for `Mode # "permissive"`: there a Parse over
  the limit is forwarded while the registry keeps the old text.

### MySQL session (`MySqlSessionProofs`)

* `SessionTyped`, `SessionGate`, `SessionImplementsGate`: as above. Types need more
  here, because the registry is updated from what the server answers and from what the
  proxy remembers of a command: a statement that is being reset or executed is still
  registered when the answer or the audit write comes (`Registered`), and the server
  gives out at most one statement id per command.
* `AnswersAreTracked` (`PendingIsOutstanding`) and `RunsWhatWasJudged`
  (`ExecutedIsJudged`), from `TrackInv`: an open session is in one of four phases. It
  rests; it weighs a command that runs SQL, with nothing on the way; it has asked, and
  the one command with an answer is on the way to the server; or it is given an answer,
  and the packets on the way are such as the tracker reads to the end and no further
  (`Fits`, `Parses`: result sets with and without EOF packets, metadata left out,
  batches, errors between rows, the metadata of a PREPARE). The registry holds the
  texts of the server's statements (`RegAgree`), and LAST is the same statement to
  both (`LastAgree`) once a PREPARE has been answered. Both are stated for
  `Mode # "permissive"`: there a command that cannot be inspected is forwarded without
  being tracked, and its answer can be taken for that of another command. For
  permissive mode `mysql_step` checks `ExecutedIsJudged` with a client that waits.
* `EstimatesWhereItRuns` (`EstimateInActiveDatabase`), from `DatabaseInv`: unless the
  session was moved by a USE, the server's database is the recorded one, or the pending
  one while the OK of the INIT_DB is on its way, and no command is judged then. An
  INIT_DB that succeeds ends the exception.
* `StatusFollows` (`StatusIsTrue`), from `StatusInv`: unless the last change of the
  transaction went unsaid, the packets in which the proxy looks for the status carry the
  server's as long as an answer is on its way; an answer that is complete ends the
  exception. Both are stated for `Mode # "permissive"`, where a reset cannot pass
  (`NeverResets`), and need no assumption on the statements.
* `AnsweredAtMostOnce` (`NothingUnasked`), for every client and `Mode # "permissive"`,
  from `OnceInv`: the packets on their way are one answer that ends with its last packet
  (`Finished`); what was delivered belongs to no command still on its way to the server
  and, behind its last packet, to no answer still on its way back (`Apart`); and what was
  delivered for a command without answer is the proxy's refusal (`OnlyRefusals`).
* `WaitingClientInOrder` (`AnswersInOrder`), for a client that waits except with an
  EXECUTE of LAST behind its PREPARE. `OrderInv`: besides that EXECUTE only the last
  command is unanswered, packets on their way are one answer, delivered ones belong to it
  or to earlier ones, and the proxy judges while nothing is at the server. The hypothesis
  `Parseable` names what the code answers too early: an EXECUTE of LAST that cannot be
  parsed is refused before the PREPARE's answer has come.

### PostgreSQL connection (`PgConnectionProofs`)

* `ConnectionLeavesNothing` (`NothingLeftBehind`), from `LifeInv`: where the handler is
  tells which of the sockets and tasks can still be open.
* `ServerGetsWholeMessages` (`ServerStreamIntact`), from `StreamInv`: buffer and socket
  together hold messages in the order they were sent, none begun in its middle; the
  frames to be handled are whole messages, younger than all that was written and older
  than what is in the buffer; startup messages come first and once. `PushCuts` says what the framer makes of
  such a stream: whole messages in front, the rest of the stream behind, or a rejected
  length.
* `ClientGetsWholeMessages` (`ClientStreamIntact`), from `ClientInv`. Two tasks write to
  the client. `RelayInv`: the server's bytes among those written, followed by those on
  the way, are one stream of whole answers to messages the server was given.
  `ProxyInv`: a message the proxy answered was not forwarded and will not be, which
  takes `StreamInv`. `QuietInv`: all that was sent before a quiet message is answered to
  the end. So when the proxy answers such a message, no answer of the server is half
  written and none is yet to come; and since its own answer is written in one piece
  (`LastInv`), the next byte of the server begins a message.

### MySQL connection (`MySqlConnectionProofs`)

* `NoCommandPassesUninspected` (`CommandsAreInspected`): the client's pump may not take a
  command for a reply of the authentication although the OK between them is read by the
  other pump. `Dialogue`: the server says OK once and asks nothing afterwards, so an OK
  on its way or received comes later than every question (`granted`), no reply is sent
  behind it, and what is sent behind it is a command; `PhaseInv`: the OK reaches the
  client only after both phases have moved on. Commands sent early are exempt, and may
  have been forwarded or dispatched.
* `ServerGetsWholeCommands` (`ServerStreamIntact`), from `Flow` and `PackInv`: with `d`
  the packet the pump deals with next, queue, buffer and socket hold all packets from `d`
  on, the assembler those just before `d`, continued and in sequence, and what was
  written is older. It assumes `ShortAuthentication`: the relay passes packets of the
  authentication without assembling them, so one that fills a packet would be continued
  by one that is treated by itself. For the same reason a packet sent early joins
  nothing (`JoinsNext`).

### Shared threads (`WorkersProofs`)

`OneDialogAtATime`, `OnlyApprovedIsSent`, `AnswersAreNotMixedUp`: the three invariants
of the run `workers`. The inductive invariant adds that where a thread is fits its job
and that who shows a dialog holds the lock (`ThreadsAreSound`), that prompt and dialogs
are never used together (`OneWayToAsk`), and where an approval comes from at each stage
(`StatementsAreSound`).

### Audit log (`AuditLogProofs`)

`AuditTyped` holds without restriction. The others are for a log whose tasks are not
cancelled while their threads run (`~MayCancelOwner`); `audit_cancel` shows why.

* `AuditSerial` (`AppendsAreSerial`), from `IInv`: a running thread works for the owner
  of the lock; who waits in line is logging, waits once and is not the owner. Without
  the last two a task could be given the lock twice.
* `AuditBounded` (`FilesAreBounded`), from `FileInv`: what a thread knows of the files
  while it checks, rotates and writes stays true, since no other thread runs.
* `AuditKeepsRecent` (`KeepsRecent`), from `KeepInv`: the files from the oldest to the
  current one are the end of the history. A rename of a file into the empty place
  behind it leaves that concatenation as it is, a crash anywhere too.
* `AuditRetention` (`RetentionIsFull`), from `ChainInv`: each generation is full (there
  is a file, and it was closed because the next record did not fit) but for at most one
  per crash or failed system call and, during a rotation, the hole it has opened. A crash
  or an error turns that hole into one of the counted ones.

### Only model-checked

* Liveness (`SyncIsAnswered`, `CommandIsAnswered`, `AnsweredOrEnded`,
  `TeardownCompletes`, `EveryRequestIsDecided`, `AllowedIsNotHeldUp`,
  `EveryLogReturns`): the prover does not handle it under fairness.
* Answers in permissive mode of a MySQL session: `mysql_step` checks `ExecutedIsJudged`,
  `AnswersInOrder`, `StatusIsTrue` and `EstimateInActiveDatabase` there with a client
  that waits.

Every invariant of the passing runs is the subject of a theorem, with the hypotheses named
above; the runs check the same formulas on their instances, some of which the
hypotheses leave out.

## 5. Not modelled

* Field layouts of messages, parameter formats and the rendering of literals
  (`param_decoder.py`, `preview_builder.py`, the decoders of `protocol.py`): conversions
  without state. Parsers are represented by what they accept.
* A write followed by `drain` that suspends because the peer's window is full.
* Answers of the MySQL server over 16 MB, cursors and LOCAL INFILE; the code has no
  handling for them beyond closing the connection or refusing.
* sqlglot, the estimator's SQL connection and the database's data: arbitrary answers.
* The layout of the dialog, console output, sanitization, the registry of adapters and
  the command line apart from the choice of the provider: no behaviour over time.
* `scripts/`, benchmarks and tests: not part of the running proxy.
* Several connections at once are modelled in `Workers` and `AuditLog` only; a
  connection shares nothing else with another.

## 6. Open

* Liveness rests on the bounded runs.
* Permissive mode of a MySQL session: a command forwarded as a gap is not tracked, so a
  theorem about its answers needs an invariant that counts untracked answers for a
  client that waits; without waiting the properties are false.
* Hazards that no property covers are listed in `PROJECT.json` with the reason.
