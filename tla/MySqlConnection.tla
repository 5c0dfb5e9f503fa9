-------------------------- MODULE MySqlConnection ---------------------------
(***************************************************************************)
(* The life of one MySQL connection: handle_mysql_connection with its two  *)
(* pumps, the greeting and the authentication (auth.py, relay.py), the     *)
(* framing of packets and the assembly of commands that span several       *)
(* (protocol.py), read timeouts, the end of either side and the shutdown.  *)
(*                                                                         *)
(* What a command means is left to MySqlSession: here its dispatch forwards *)
(* it, refuses it, or first waits for a decision.                          *)
(***************************************************************************)
EXTENDS Wire, FiniteSets

CONSTANTS
  MyHeader,          \* bytes of a packet header
  MaxPayload,        \* MAX_PACKET_PAYLOAD: a packet that full is continued
  SequenceIds,       \* sequence ids count modulo 256
  MySizes,           \* kind of packet -> its size
  MyResults,         \* sizes of the server's results
  MaxEarly           \* bound on the commands a client sends before it has the OK

\* ssl and bad are handshake responses that ask for encryption or cannot be
\* parsed, part is a packet that is continued, huge one above the limit.
Handshakes == {"response", "ssl", "bad"}
Commands   == {"command", "part", "quit", "huge"}
MyKinds    == Handshakes \cup Commands \cup {"auth"}

ASSUME MyWireAssumption ==
  /\ MyHeader \in Nat \ {0} /\ MaxPayload \in Nat \ {0} /\ SequenceIds \in Nat \ {0}
  /\ MaxEarly \in Nat
  /\ MySizes \in [MyKinds -> Nat] /\ MyResults \subseteq Nat
  /\ \A k \in MyKinds : MySizes[k] >= MyHeader

VARIABLES
  clientTask,        \* pump_mysql_client: none, read, handle, decide, cancelled, ended
  greeted,           \* .initial_backend_handshake_seen
  auth,              \* MySqlAuthState.phase
  phase,             \* MySqlBackendState.phase
  parts,             \* the packets held by the assembler
  closing,           \* session.closing
  inspected,         \* the packets of commands that were dispatched
  granted            \* the server has let the client in

relay == <<greeted, auth, phase, parts, closing, inspected>>
vars  == <<wire, clientTask, relay, granted>>

InitRelay ==
  /\ clientTask = "none"
  /\ greeted = FALSE /\ auth = "waiting" /\ phase = "authentication"
  /\ parts = <<>> /\ closing = FALSE /\ inspected = {} /\ granted = FALSE

Init == InitWire /\ handler = "connecting" /\ InitRelay

-----------------------------------------------------------------------------
(***************************************************************************)
(* The client.  It answers the greeting, mostly after awaiting it, and the *)
(* server's further questions.  Commands it sends when it has the server's *)
(* OK, or early, behind the packets of its authentication.  Behind a       *)
(* request for encryption it does not wait.                                *)
(***************************************************************************)
Got(kind) == \E i \in 1..Len(toClient) :
               toClient[i].msg.kind = kind /\ toClient[i].at = toClient[i].msg.size

\* The server's answer to the client's last packet was a question.
Asked == \E i \in 1..Len(toClient) :
           LET m == toClient[i].msg
           IN  m.kind = "more" /\ m.id = Len(sent) /\ toClient[i].at = m.size

MaySendEarly ==
  /\ sent # <<>> /\ sent[1].kind = "response"
  /\ Cardinality({i \in 1..Len(sent) : sent[i].kind \in Commands /\ sent[i].early}) < MaxEarly

MaySend(kind) ==
  CASE kind \in Handshakes -> sent = <<>> \/ (Len(sent) = 1 /\ sent[1].kind = "ssl")
    [] kind = "auth"       -> Asked
    [] kind \in Commands   -> Got("ok") \/ MaySendEarly

\* The sequence id of a packet goes on from the one before it when that is
\* continued; stray is an id out of sequence (of packets sent behind the OK).
SequenceId(stray) ==
  LET n == Len(sent)
      expected == IF n > 0 /\ sent[n].kind = "part" THEN (sent[n].seq + 1) % SequenceIds ELSE SequenceIds - 1
  IN  IF stray THEN (expected + 1) % SequenceIds ELSE expected

ClientSends(kind, stray) ==
  /\ MaySend(kind)
  /\ stray => kind \in Commands /\ Got("ok")
  /\ LET m == [id |-> Len(sent) + 1, kind |-> kind, size |-> MySizes[kind],
               seq |-> SequenceId(stray), early |-> ~Got("ok")]
     IN  Send(m, m.size)
  /\ UNCHANGED <<server, toServer, toClient, sockets, frames, bbuf, handler, backendTask,
                 shutdown, clientTask, relay, granted>>

MyClientLeaves ==
  /\ ClientLeaves
  /\ UNCHANGED <<server, toServer, toClient, sockets, frames, bbuf, handler, backendTask,
                 shutdown, clientTask, relay, granted>>

(***************************************************************************)
(* The server.  It speaks first.  Until it has said OK it takes whatever   *)
(* comes for a part of the authentication and answers it with a question,  *)
(* OK or ERR; after that, for a command, and answers with a result.        *)
(***************************************************************************)
Reply(m, kind) == [id |-> m.id, size |-> MyHeader + 1, kind |-> kind]
Continued(m)   == m.size = MyHeader + MaxPayload

\* ERR to a handshake ends the server's side.
ServerAnswers ==
  /\ \E i \in 1..Len(sent) : ServerHas(sent[i])
  /\ LET m == Unserved[1].msg
     IN  \/ /\ ~granted
            /\ \E kind \in {"more", "ok"} :
                 Serve(Whole(Reply(m, kind))) /\ granted' = (kind = "ok")
         \/ /\ ~granted
            /\ served' = served + m.size
            /\ b2p' = b2p \o Whole(Reply(m, "err"))
            /\ serverGone' = TRUE
            /\ UNCHANGED granted
         \/ /\ granted
            /\ \E size \in MyResults :
                 Serve(IF Continued(m) \/ m.kind = "quit" THEN <<>>
                       ELSE Whole([Reply(m, "result") EXCEPT !.size = size]))
            /\ UNCHANGED granted
  /\ UNCHANGED <<client, toServer, toClient, sockets, frames, bbuf, handler, backendTask,
                 shutdown, clientTask, relay>>

\* It may also give up at any time, with or without an ERR packet of its own.
MyServerLeaves ==
  /\ serverSock = "open" /\ ~serverGone
  /\ serverGone' = TRUE
  /\ b2p' \in {b2p, b2p \o Whole([id |-> MaxSent + 1, size |-> MyHeader + 1, kind |-> "err"])}
  /\ UNCHANGED <<served, client, toServer, toClient, sockets, frames, bbuf, handler,
                 backendTask, shutdown, clientTask, relay, granted>>

-----------------------------------------------------------------------------
(***************************************************************************)
(* handle_mysql_connection.                                                *)
(***************************************************************************)
Greeting == Whole([id |-> 0, size |-> MyHeader + 1, kind |-> "greeting"])

Connected ==
  /\ handler = "connecting"
  /\ serverSock' = "open"
  /\ b2p' = Greeting
  /\ clientTask' = "read" /\ backendTask' = "read"
  /\ handler' = "pumping"
  /\ UNCHANGED <<client, served, serverGone, toServer, toClient, clientSock, frames, bbuf,
                 shutdown, relay, granted>>

Cancel(task) == IF task \in {"none", "ended"} THEN task ELSE "cancelled"

CancelPumps == clientTask' = Cancel(clientTask) /\ backendTask' = Cancel(backendTask)

\* Close the writer to the server and await it, then the client's.
CloseSockets ==
  /\ handler' = IF serverSock = "open" THEN "wait_server" ELSE "wait_client"
  /\ serverSock' = IF serverSock = "open" THEN "closed" ELSE serverSock
  /\ clientSock' = IF serverSock = "open" THEN clientSock ELSE "closed"

ConnectFails ==
  /\ handler = "connecting"
  /\ CloseSockets
  /\ UNCHANGED <<client, server, toServer, toClient, frames, bbuf, backendTask, shutdown,
                 clientTask, relay, granted>>

\* (slip) both pumps must have ended
APumpEnded_Both == clientTask = "ended" /\ backendTask = "ended"

\* FIRST_COMPLETED.
APumpEnded == clientTask = "ended" \/ backendTask = "ended"

BothEnded == clientTask \in {"none", "ended"} /\ backendTask \in {"none", "ended"}

\* The first pump to end takes the other with it.
PumpCompleted ==
  /\ handler = "pumping" /\ APumpEnded
  /\ CancelPumps
  /\ handler' = IF BothEnded THEN "gather" ELSE "settle"
  /\ UNCHANGED <<client, server, toServer, toClient, sockets, frames, bbuf, shutdown, relay, granted>>

\* The cancelled pump is awaited, then the finally clause awaits both.
Settled ==
  /\ handler = "settle" /\ BothEnded
  /\ handler' = "gather"
  /\ UNCHANGED <<client, server, toServer, toClient, sockets, frames, bbuf, backendTask,
                 shutdown, clientTask, relay, granted>>

Gathered ==
  /\ handler = "gather" /\ BothEnded
  /\ CloseSockets
  /\ UNCHANGED <<client, server, toServer, toClient, frames, bbuf, backendTask, shutdown,
                 clientTask, relay, granted>>

SocketClosed ==
  /\ \/ handler = "wait_server" /\ handler' = "wait_client" /\ clientSock' = "closed"
     \/ handler = "wait_client" /\ handler' = "done" /\ UNCHANGED clientSock
  /\ UNCHANGED <<client, server, toServer, toClient, serverSock, frames, bbuf, backendTask,
                 shutdown, clientTask, relay, granted>>

-----------------------------------------------------------------------------
(***************************************************************************)
(* pump_mysql_client and process_client_chunk.  A packet that does not fit *)
(* raises, which ends the pump.                                            *)
(***************************************************************************)
\* Only this task and the streams it reads and writes.
ClientPumpFrame == UNCHANGED <<sent, clientGone, server, sockets, bbuf, handler, backendTask,
                               shutdown, greeted, granted>>

ReadChunk ==
  /\ clientTask = "read"
  /\ \E chunk \in Chunks(c2p) :
       LET f == Push(buf \o chunk, MyHeader, MaxMessage)
       IN  /\ c2p' = Drop(c2p, Len(chunk))
           /\ buf' = f.rest
           /\ queue' = IF f.ok THEN f.out ELSE <<>>
           /\ clientTask' = IF ~f.ok THEN "ended" ELSE IF f.out = <<>> THEN "read" ELSE "handle"
  /\ UNCHANGED <<toServer, toClient, auth, phase, parts, closing, inspected>>
  /\ ClientPumpFrame

ReadEnds ==
  /\ clientTask = "read" /\ ClientEof
  /\ clientTask' = "ended"
  /\ UNCHANGED <<c2p, frames, toServer, toClient, auth, phase, parts, closing, inspected>>
  /\ ClientPumpFrame

Packet == Head(queue)[1].msg

\* After the last packet of a chunk the pump returns if the client has quit.
NextPacket(quit) ==
  /\ queue' = Tail(queue)
  /\ closing' = (closing \/ quit)
  /\ clientTask' = IF Len(queue) > 1 THEN "handle" ELSE IF closing' THEN "ended" ELSE "read"

Raise == clientTask' = "ended" /\ UNCHANGED <<queue, closing>>

\* No data before the greeting, a handshake response that can be parsed, none
\* after the end of the session.
HandleUnexpected ==
  /\ clientTask = "handle"
  /\ \/ ~greeted
     \/ greeted /\ auth = "waiting" /\ Packet.kind \notin {"response", "ssl"}
     \/ greeted /\ auth # "waiting" /\ phase = "closed"
  /\ Raise
  /\ UNCHANGED <<c2p, buf, toServer, toClient, auth, phase, parts, inspected>>
  /\ ClientPumpFrame

\* The handshake response: relayed, or refused when it asks for encryption.
HandleResponse ==
  /\ clientTask = "handle" /\ greeted /\ auth = "waiting"
  /\ \/ /\ Packet.kind = "response"
        /\ auth' = "authenticating"
        /\ toServer' = toServer \o Head(queue)
        /\ UNCHANGED <<toClient, phase>>
     \/ /\ Packet.kind = "ssl"
        /\ auth' = "tls_rejected" /\ phase' = "closed"
        /\ WriteClient(Whole(Reply(Packet, "err")))
        /\ UNCHANGED toServer
  /\ NextPacket(FALSE)
  /\ UNCHANGED <<c2p, buf, parts, inspected>>
  /\ ClientPumpFrame

\* Replies during authentication pass as they are.
HandleAuthentication ==
  /\ clientTask = "handle" /\ greeted /\ auth # "waiting" /\ phase = "authentication"
  /\ toServer' = toServer \o Head(queue)
  /\ NextPacket(FALSE)
  /\ UNCHANGED <<c2p, buf, toClient, auth, phase, parts, inspected>>
  /\ ClientPumpFrame

\* MySqlLogicalMessageAssembler.push: the held packets and this one.
Held == Append(parts, Head(queue))
PayloadBytes(packets) == FoldLeft(LAMBDA n, p : n + (Len(p) - MyHeader), 0, packets)
OutOfSequence == parts # <<>> /\ Packet.seq # (Last(parts)[1].msg.seq + 1) % SequenceIds

InCommand == clientTask = "handle" /\ greeted /\ auth # "waiting" /\ phase = "command"

AssemblerRaises ==
  /\ InCommand
  /\ OutOfSequence \/ PayloadBytes(Held) > MaxMessage
  /\ parts' = <<>>
  /\ Raise
  /\ UNCHANGED <<c2p, buf, toServer, toClient, auth, phase, inspected>>
  /\ ClientPumpFrame

Fits == InCommand /\ ~OutOfSequence /\ PayloadBytes(Held) <= MaxMessage

AssemblerHolds ==
  /\ Fits /\ Continued(Packet)
  /\ parts' = Held
  /\ NextPacket(FALSE)
  /\ UNCHANGED <<c2p, buf, toServer, toClient, auth, phase, inspected>>
  /\ ClientPumpFrame

\* (slip) only the last packet of a command is forwarded
RawPackets_Last == Head(queue)

\* raw_packets of the message.
RawPackets == FlattenSeq(Held)

\* dispatch_authenticated_command: the command is forwarded, refused with an
\* ERR packet, or waits for a decision.
Dispatch ==
  /\ clientTask = "handle" => Fits /\ ~Continued(Packet)
  /\ clientTask \in {"handle", "decide"}
  /\ inspected' = inspected \cup {Held[i][1].msg.id : i \in 1..Len(Held)}
  /\ parts' = <<>>
  /\ \/ toServer' = toServer \o RawPackets /\ UNCHANGED toClient
     \/ /\ Packet.kind # "quit"
        /\ WriteClient(Whole(Reply(Packet, "err")))
        /\ UNCHANGED toServer
  /\ NextPacket(Packet.kind = "quit")
  /\ UNCHANGED <<c2p, buf, auth, phase>>
  /\ ClientPumpFrame

Decide ==
  /\ Fits /\ ~Continued(Packet) /\ Packet.kind # "quit"
  /\ clientTask' = "decide"
  /\ UNCHANGED <<c2p, frames, toServer, toClient, auth, phase, parts, closing, inspected>>
  /\ ClientPumpFrame

\* The pump was cancelled, or a write to a peer that is gone raises.
ClientPumpFails ==
  /\ clientTask = "cancelled" \/ (clientTask \in {"handle", "decide"} /\ serverGone)
  /\ clientTask' = "ended"
  /\ UNCHANGED <<c2p, frames, toServer, toClient, auth, phase, parts, closing, inspected>>
  /\ ClientPumpFrame

-----------------------------------------------------------------------------
(***************************************************************************)
(* pump_mysql_backend, process_backend_chunk, route_backend_packet.        *)
(***************************************************************************)
\* (slip) the end of the authentication is not recorded
PhaseAfter_Stays(p) == "authentication"

\* The phase after an authentication packet.
PhaseAfter(p) == CASE p.kind = "ok" -> "command" [] p.kind = "err" -> "closed"
                   [] OTHER -> "authentication"

AuthAfter(p) == CASE p.kind = "ok" -> "authenticated" [] p.kind = "err" -> "failed"
                  [] OTHER -> auth

\* One packet: the greeting, one of the authentication, or part of an answer.
Route(s, frame) ==
  LET p == frame[1].msg
  IN  IF ~s.ok THEN s
      ELSE IF ~s.greeted THEN [s EXCEPT !.greeted = TRUE, !.out = @ \o frame]
      ELSE IF s.phase = "closed" \/ (s.phase = "authentication" /\ s.auth # "authenticating")
        THEN [s EXCEPT !.ok = FALSE]
      ELSE IF s.phase = "authentication"
        THEN [s EXCEPT !.auth = AuthAfter(p), !.phase = PhaseAfter(p), !.out = @ \o frame]
      ELSE [s EXCEPT !.out = @ \o frame]

\* The packets of a chunk are routed without a pause; one that does not fit
\* ends the pump, one that is too large before any of them is routed.  The OK
\* is written and drained before the phase changes, which is one step here:
\* drain does not wait unless the writer is far behind, and a pump that does
\* wait is woken when the writer's buffer has run down, hence before anything
\* the client sends when it has the OK can be read.
BackendReads ==
  /\ backendTask = "read"
  /\ \E chunk \in Chunks(b2p) :
       LET f == Push(bbuf \o chunk, MyHeader, MaxMessage)
           s == FoldLeft(Route, [ok |-> f.ok, greeted |-> greeted, auth |-> auth,
                                 phase |-> phase, out |-> <<>>], f.out)
       IN  /\ b2p' = Drop(b2p, Len(chunk))
           /\ bbuf' = f.rest
           /\ greeted' = s.greeted /\ auth' = s.auth /\ phase' = s.phase
           /\ WriteClient(s.out)
           /\ backendTask' = IF s.ok THEN "read" ELSE "ended"
  /\ UNCHANGED <<client, served, serverGone, toServer, sockets, frames, handler, shutdown,
                 clientTask, parts, closing, inspected, granted>>

BackendEnds ==
  /\ (backendTask = "read" /\ ServerEof) \/ backendTask = "cancelled"
  /\ backendTask' = "ended"
  /\ UNCHANGED <<client, server, toServer, toClient, sockets, frames, bbuf, handler, shutdown,
                 clientTask, relay, granted>>

\* A read timeout ends its pump.
TimesOut ==
  /\ ReadTimeout
  /\ \/ clientTask = "read" /\ clientTask' = "ended" /\ UNCHANGED backendTask
     \/ backendTask = "read" /\ backendTask' = "ended" /\ UNCHANGED clientTask
  /\ UNCHANGED <<client, server, toServer, toClient, sockets, frames, bbuf, handler, shutdown,
                 relay, granted>>

-----------------------------------------------------------------------------
\* start_mysql_proxy stops and cancels the task of every connection, which
\* passes it on to its pumps.  Cut short while the finally clause awaits them,
\* it closes no socket.
Shutdown ==
  /\ ~shutdown /\ clientTask # "handle"
  /\ shutdown' = TRUE
  /\ \/ /\ handler = "connecting"
        /\ CloseSockets
        /\ UNCHANGED <<clientTask, backendTask>>
     \/ /\ handler \in {"pumping", "settle"}
        /\ CancelPumps
        /\ handler' = "gather"
        /\ UNCHANGED sockets
     \/ /\ handler = "gather"
        /\ handler' = "aborted"
        /\ UNCHANGED <<clientTask, backendTask, sockets>>
     \/ /\ handler = "wait_server"
        /\ handler' = "wait_client" /\ clientSock' = "closed"
        /\ UNCHANGED <<clientTask, backendTask, serverSock>>
     \/ /\ handler = "wait_client"
        /\ handler' = "done"
        /\ UNCHANGED <<clientTask, backendTask, sockets>>
  /\ UNCHANGED <<client, server, toServer, toClient, frames, bbuf, relay, granted>>

Handler == Connected \/ ConnectFails \/ PumpCompleted \/ Settled \/ Gathered \/ SocketClosed

ClientPump ==
  \/ ReadChunk \/ ReadEnds \/ HandleUnexpected \/ HandleResponse \/ HandleAuthentication
  \/ AssemblerRaises \/ AssemblerHolds \/ Decide \/ ClientPumpFails
  \/ Dispatch

BackendPump == BackendReads \/ BackendEnds

Environment == \/ MyClientLeaves \/ MyServerLeaves \/ Shutdown
               \/ \E k \in MyKinds, stray \in BOOLEAN : ClientSends(k, stray)

Next == Handler \/ ClientPump \/ BackendPump \/ TimesOut \/ ServerAnswers \/ Environment

\* As for PostgreSQL: nobody is obliged to send, to leave, to answer a
\* confirmation or to time out.
Fairness == /\ WF_vars(Handler) /\ WF_vars(ClientPump /\ clientTask # "decide")
            /\ WF_vars(BackendPump) /\ WF_vars(ServerAnswers)

FairSpec == Init /\ [][Next]_vars /\ Fairness

-----------------------------------------------------------------------------
Ended == handler \in {"done", "aborted"}

\* The two directions agree on when authentication ends: a command reaches the
\* server without being dispatched only when the client sent it early, before
\* it had the OK, and no reply of the authentication is taken for a command,
\* although the OK that separates them is seen by one pump and used by the
\* other (MySqlBackendPhase).  An early command is forwarded unread while the
\* phase is AUTHENTICATION.
CommandsAreInspected ==
  /\ \A i \in 1..Len(toServer) :
       LET m == toServer[i].msg
       IN  m.kind \in Commands => m.early \/ m.id \in inspected
  /\ \A i \in 1..Len(sent) : sent[i].kind \notin Commands => i \notin inspected

\* The server gets whole commands only, each packet once: a continued packet
\* is followed at once by the next one of the same command and in sequence,
\* and the end of a command comes behind its beginning, however the bytes
\* were cut and whatever the assembler rejected in between.  Packets sent
\* early pass one by one.
JoinsNext(m) == Continued(m) /\ ~m.early

ServerStreamIntact ==
  /\ \A i \in 1..Len(toServer) :
       /\ FitsAt(toServer, i)
       /\ (i > 1 /\ toServer[i].at = 1) =>
            LET m == toServer[i].msg
                before == toServer[i - 1].msg
            IN  IF JoinsNext(before) \/ JoinsNext(sent[m.id - 1])
                  THEN m.id = before.id + 1 /\ m.seq = (before.seq + 1) % SequenceIds
                  ELSE m.id > before.id
  /\ toServer # <<>> =>
       Last(toServer).at = Last(toServer).msg.size /\ ~JoinsNext(Last(toServer).msg)

\* When the server goes away, a pump ends or the proxy is stopped, the
\* connection ends, also while the client's pump awaits a decision: the
\* decision is not waited for.
TeardownCompletes ==
  (clientTask = "ended" \/ backendTask = "ended" \/ serverGone \/ shutdown) ~> Ended

=============================================================================
