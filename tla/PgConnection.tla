---------------------------- MODULE PgConnection ----------------------------
(***************************************************************************)
(* The life of one PostgreSQL connection: _handle_client from accept to    *)
(* close, with the startup negotiation, the framing of the client's bytes, *)
(* the relay of the server's chunks by _pipe_backend, read timeouts, the   *)
(* end of either side, and the shutdown of the proxy.                      *)
(*                                                                         *)
(* What a message means is left to PgSession: here a message is forwarded  *)
(* at once ("plain") or decided first ("query").  The handler gives way to *)
(* other tasks only where it really waits: for bytes, for the connection,  *)
(* for a decision, for the backend task and for the sockets to close.      *)
(***************************************************************************)
EXTENDS Wire

CONSTANTS
  PgHeader,          \* bytes that tell the length of a message
  PgSizes,           \* kind of message -> its declared size
  PgAnswers          \* declared sizes of the server's answers

StartupKinds == {"ssl", "startup", "bad_startup"}
PgKinds == StartupKinds \cup {"plain", "query", "malformed"}

ASSUME PgWireAssumption ==
  /\ PgHeader \in Nat \ {0} /\ PgSizes \in [PgKinds -> Nat] /\ PgAnswers \subseteq Nat

vars == wire

Init == InitWire /\ handler = "startup"

-----------------------------------------------------------------------------
(***************************************************************************)
(* The client.  It opens with a request for encryption or the startup      *)
(* message.  quiet: when it sent the message, everything it had sent       *)
(* before was answered; a client may also not wait.                        *)
(***************************************************************************)
Answer(id, size, from) == [id |-> id, size |-> size, from |-> from]

AnsweredIn(stream, id) ==
  \E i \in 1..Len(stream) : stream[i].msg.id = id /\ stream[i].at = stream[i].msg.size

AllAnswered == \A i \in 1..Len(sent) : AnsweredIn(toClient, i)

MayFollow(kind) ==
  IF \E i \in 1..Len(sent) : sent[i].kind = "startup"
    THEN kind \notin StartupKinds
    ELSE kind \in StartupKinds

Valid(size) == size >= PgHeader /\ size <= MaxMessage

ClientSends(kind) ==
  /\ MayFollow(kind)
  /\ LET m == [id |-> Len(sent) + 1, kind |-> kind, size |-> PgSizes[kind],
               quiet |-> AllAnswered]
     IN  Send(m, IF kind \in StartupKinds \/ Valid(m.size) THEN m.size ELSE PgHeader)
  /\ UNCHANGED <<server, toServer, toClient, sockets, frames, bbuf, handler, backendTask,
                 shutdown>>

PgClientLeaves ==
  /\ ClientLeaves
  /\ UNCHANGED <<server, toServer, toClient, sockets, frames, bbuf, handler, backendTask,
                 shutdown>>

(***************************************************************************)
(* The server answers each message once; an answer can be larger than the  *)
(* proxy accepts.                                                          *)
(***************************************************************************)
ServerAnswers ==
  /\ \E i \in 1..Len(sent) : ServerHas(sent[i])
  /\ \E size \in PgAnswers : Serve(Whole(Answer(Unserved[1].msg.id, size, "server")))
  /\ UNCHANGED <<client, toServer, toClient, sockets, frames, bbuf, handler, backendTask,
                 shutdown>>

PgServerLeaves ==
  /\ ServerLeaves
  /\ UNCHANGED <<client, toServer, toClient, sockets, frames, bbuf, handler, backendTask,
                 shutdown>>

-----------------------------------------------------------------------------
(***************************************************************************)
(* The end of _handle_client: its finally clause.                          *)
(***************************************************************************)
\* (slip) the backend task is left running
Teardown_Leaves ==
  /\ handler' = "wait_client" /\ clientSock' = "closed" /\ UNCHANGED backendTask

\* The backend task is cancelled and awaited; one that never started runs no
\* line of its own.  Without one the client's socket is closed at once.
Teardown ==
  /\ backendTask' = CASE backendTask = "read" -> "cancelled"
                      [] backendTask = "new"  -> "ended"
                      [] OTHER                -> backendTask
  /\ handler' = IF backendTask = "none" THEN "wait_client" ELSE "gather"
  /\ clientSock' = IF backendTask = "none" THEN "closed" ELSE clientSock

Gathered ==
  /\ handler = "gather" /\ backendTask = "ended"
  /\ clientSock' = "closed"
  /\ handler' = "wait_client"
  /\ UNCHANGED <<client, server, toServer, toClient, serverSock, frames, bbuf, backendTask,
                 shutdown>>

\* After the client's writer the one to the server, if there is one.
CloseServer ==
  /\ serverSock' = IF serverSock = "open" THEN "closed" ELSE serverSock
  /\ handler' = IF serverSock = "open" THEN "wait_server" ELSE "done"

SocketClosed ==
  /\ \/ handler = "wait_client" /\ CloseServer
     \/ handler = "wait_server" /\ handler' = "done" /\ UNCHANGED serverSock
  /\ UNCHANGED <<client, server, toServer, toClient, clientSock, frames, bbuf, backendTask,
                 shutdown>>

-----------------------------------------------------------------------------
(***************************************************************************)
(* Startup.                                                                *)
(***************************************************************************)
\* What StartupFramer.push makes of its buffer: a length out of range and
\* bytes behind the message are errors.
StartupPush(bytes) ==
  LET n == bytes[1].msg.size
  IN  CASE n = 0 \/ n > MaxMessage -> "error"
        [] n > 0 /\ n <= MaxMessage /\ Len(bytes) < n -> "more"
        [] n > 0 /\ n <= MaxMessage /\ Len(bytes) = n -> "whole"
        [] n > 0 /\ n <= MaxMessage /\ Len(bytes) > n -> "error"

\* The answer to a request for encryption: one byte, N.
No(m) == Whole(Answer(m.id, 1, "proxy"))

ReadStartup ==
  /\ handler = "startup"
  /\ \E chunk \in Chunks(c2p) :
       LET bytes == buf \o chunk
           m == bytes[1].msg
           got == StartupPush(bytes)
       IN  /\ c2p' = Drop(c2p, Len(chunk))
           /\ \/ /\ got = "more"
                 /\ buf' = bytes
                 /\ UNCHANGED <<toClient, queue, handler, backendTask, clientSock>>
              \/ /\ got = "whole" /\ m.kind = "ssl"
                 /\ WriteClient(No(m))
                 /\ buf' = <<>>
                 /\ UNCHANGED <<queue, handler, backendTask, clientSock>>
              \/ /\ got = "whole" /\ m.kind = "startup"
                 /\ buf' = <<>> /\ queue' = <<bytes>>
                 /\ handler' = "connecting"
                 /\ UNCHANGED <<toClient, backendTask, clientSock>>
              \/ /\ got = "error" \/ (got = "whole" /\ m.kind \notin {"ssl", "startup"})
                 /\ Teardown
                 /\ UNCHANGED <<toClient, frames>>
  /\ UNCHANGED <<sent, clientGone, server, toServer, serverSock, bbuf, shutdown>>

Connected ==
  /\ handler = "connecting"
  /\ serverSock' = "open"
  /\ toServer' = toServer \o queue[1]
  /\ queue' = <<>>
  /\ backendTask' = "new"
  /\ handler' = "read"
  /\ UNCHANGED <<client, server, toClient, clientSock, buf, bbuf, shutdown>>

\* The server hangs up before it has the startup message: the write raises,
\* and there is a writer but no backend task yet.
StartupWriteFails ==
  /\ handler = "connecting"
  /\ serverSock' = "open"
  /\ Teardown
  /\ UNCHANGED <<client, server, toServer, toClient, frames, bbuf, shutdown>>

\* Refused, unreachable or too slow.
ConnectFails ==
  /\ handler = "connecting"
  /\ Teardown
  /\ UNCHANGED <<client, server, toServer, toClient, serverSock, frames, bbuf, shutdown>>

-----------------------------------------------------------------------------
(***************************************************************************)
(* The loop after startup.                                                 *)
(***************************************************************************)
\* A frame the framer rejects is answered with an error; then the handler
\* leaves its loop.
ReadChunk ==
  /\ handler = "read"
  /\ \E chunk \in Chunks(c2p) :
       LET f == Push(buf \o chunk, PgHeader, MaxMessage)
       IN  /\ c2p' = Drop(c2p, Len(chunk))
           /\ \/ /\ f.ok
                 /\ buf' = f.rest /\ queue' = f.out
                 /\ handler' = IF f.out = <<>> THEN "read" ELSE "handle"
                 /\ UNCHANGED <<toClient, clientSock, backendTask>>
              \/ /\ ~f.ok
                 /\ WriteClient(Whole(Answer(f.rest[1].msg.id, PgHeader, "proxy")))
                 /\ Teardown
                 /\ UNCHANGED frames
  /\ UNCHANGED <<sent, clientGone, server, toServer, serverSock, bbuf, shutdown>>

ReadEnds ==
  /\ handler \in {"startup", "read"} /\ ClientEof
  /\ Teardown
  /\ UNCHANGED <<client, server, toServer, toClient, serverSock, frames, bbuf, shutdown>>

ReadTimesOut ==
  /\ handler \in {"startup", "read"} /\ ReadTimeout /\ backendTask # "new"
  /\ Teardown
  /\ UNCHANGED <<client, server, toServer, toClient, serverSock, frames, bbuf, shutdown>>

\* On to the next frame of the chunk, or to the next chunk.
NextFrame ==
  /\ queue' = Tail(queue)
  /\ handler' = IF Len(queue) = 1 THEN "read" ELSE "handle"

\* (slip) what is left of the chunk goes along with the message
ForwardFrame_Rest == toServer' = toServer \o FlattenSeq(queue)

ForwardFrame == toServer' = toServer \o Head(queue)

HandlePlain ==
  /\ handler = "handle" /\ Head(queue)[1].msg.kind # "query"
  /\ ForwardFrame
  /\ NextFrame
  /\ UNCHANGED <<client, server, toClient, sockets, buf, bbuf, backendTask, shutdown>>

HandleQuery ==
  /\ handler = "handle" /\ Head(queue)[1].msg.kind = "query"
  /\ handler' = "decide"
  /\ UNCHANGED <<client, server, toServer, toClient, sockets, frames, bbuf, backendTask,
                 shutdown>>

Approved ==
  /\ handler = "decide"
  /\ ForwardFrame
  /\ NextFrame
  /\ UNCHANGED <<client, server, toClient, sockets, buf, bbuf, backendTask, shutdown>>

Refused ==
  /\ handler = "decide"
  /\ WriteClient(Whole(Answer(Head(queue)[1].msg.id, PgHeader, "proxy")))
  /\ NextFrame
  /\ UNCHANGED <<client, server, toServer, sockets, buf, bbuf, backendTask, shutdown>>

\* Writing to a peer that is gone may raise.
WriteFails ==
  /\ handler \in {"handle", "decide"}
  /\ serverGone \/ clientSock = "closed"
  /\ Teardown
  /\ UNCHANGED <<client, server, toServer, toClient, serverSock, frames, bbuf, shutdown>>

-----------------------------------------------------------------------------
(***************************************************************************)
(* The backend task: _pipe_backend.                                        *)
(***************************************************************************)
\* (slip) a chunk that completes no message is not written
Relayed_Complete(chunk, f) == IF f.out = <<>> THEN <<>> ELSE chunk

\* What is written to the client: the chunk as it came.
Relayed(chunk, f) == chunk

PipeStarts ==
  /\ backendTask = "new"
  /\ backendTask' = "read"
  /\ UNCHANGED <<client, server, toServer, toClient, sockets, frames, bbuf, handler, shutdown>>

\* (slip) the client's writer is left to the handler
EndPipe_KeepsClient == backendTask' = "ended" /\ UNCHANGED clientSock

\* However it ends, it closes the client's writer.
EndPipe == backendTask' = "ended" /\ clientSock' = "closed"

\* A message out of bounds ends the task before its chunk is written.
PipeReads ==
  /\ backendTask = "read"
  /\ \E chunk \in Chunks(b2p) :
       LET f == Push(bbuf \o chunk, PgHeader, MaxMessage)
       IN  /\ b2p' = Drop(b2p, Len(chunk))
           /\ \/ /\ f.ok
                 /\ bbuf' = f.rest
                 /\ WriteClient(Relayed(chunk, f))
                 /\ UNCHANGED <<backendTask, clientSock>>
              \/ /\ ~f.ok
                 /\ EndPipe
                 /\ UNCHANGED <<bbuf, toClient>>
  /\ UNCHANGED <<client, served, serverGone, toServer, serverSock, frames, handler, shutdown>>

PipeEnds ==
  /\ (backendTask = "read" /\ ServerEof) \/ backendTask = "cancelled"
  /\ EndPipe
  /\ UNCHANGED <<client, server, toServer, toClient, serverSock, frames, bbuf, handler,
                 shutdown>>

PipeTimesOut ==
  /\ backendTask = "read" /\ ReadTimeout
  /\ EndPipe
  /\ UNCHANGED <<client, server, toServer, toClient, serverSock, frames, bbuf, handler,
                 shutdown>>

-----------------------------------------------------------------------------
\* start_postgres_proxy stops and cancels the task of every connection.  The
\* cancellation arrives where the handler waits: in its loop it starts the
\* teardown, while the backend task is awaited it cuts the teardown short,
\* while a socket closes it is suppressed.
Shutdown ==
  /\ ~shutdown /\ handler # "handle"
  /\ shutdown' = TRUE
  /\ \/ /\ handler \in {"startup", "connecting", "read", "decide"}
        /\ Teardown
        /\ UNCHANGED serverSock
     \/ /\ handler = "gather"
        /\ handler' = "aborted"
        /\ UNCHANGED <<backendTask, sockets>>
     \/ /\ handler = "wait_client"
        /\ CloseServer
        /\ UNCHANGED <<backendTask, clientSock>>
     \/ /\ handler = "wait_server"
        /\ handler' = "done"
        /\ UNCHANGED <<backendTask, sockets>>
  /\ UNCHANGED <<client, server, toServer, toClient, frames, bbuf>>

\* What the connection's task does by itself.
Handler ==
  \/ ReadStartup \/ Connected \/ StartupWriteFails \/ ConnectFails \/ ReadChunk \/ ReadEnds
  \/ HandlePlain \/ HandleQuery \/ WriteFails \/ Gathered \/ SocketClosed

Pipe == PipeStarts \/ PipeReads \/ PipeEnds

Decided == Approved \/ Refused

Timeouts == ReadTimesOut \/ PipeTimesOut

Environment == PgClientLeaves \/ PgServerLeaves \/ Shutdown \/ \E k \in PgKinds : ClientSends(k)

Next == Handler \/ Pipe \/ Decided \/ Timeouts \/ ServerAnswers \/ Environment

\* The event loop runs every task that can go on, connecting ends one way or
\* the other, and the server answers; nobody is obliged to send, to leave, to
\* answer a confirmation or to time out.
Fairness == WF_vars(Handler) /\ WF_vars(Pipe) /\ WF_vars(ServerAnswers)

FairSpec == Init /\ [][Next]_vars /\ Fairness

-----------------------------------------------------------------------------
Ended == handler \in {"done", "aborted"}

\* What the server gets is the startup message and then whole messages of the
\* client, each once and in the order it sent them, however the bytes were cut into chunks
\* and whatever was refused in between (FrontendFramer, raw in
\* _handle_frontend_message).
ServerStreamIntact ==
  \A i \in 1..Len(toServer) :
    /\ FitsAt(toServer, i)
    /\ (i = 1) = (toServer[i].msg.kind = "startup" /\ toServer[i].at = 1)
    /\ (i > 1 /\ toServer[i].at = 1) => toServer[i - 1].msg.id < toServer[i].msg.id
    /\ i = Len(toServer) => toServer[i].at = toServer[i].msg.size

\* The server's bytes reach the client in order, and an answer of the proxy
\* does not cut one of the server's messages in two, unless the client sent
\* the message it answers without waiting for the answers before it: then the
\* two tasks that write to the client's socket can mix (_pipe_backend writes
\* chunks, not messages).
ClientStreamIntact ==
  LET Server == {i \in 1..Len(toClient) : toClient[i].msg.from = "server"}
      Before(i) == {j \in Server : j < i}
  IN  /\ \A i \in Server :
           /\ Before(i) = {} => toClient[i].at = 1
           /\ Before(i) # {} => FitsAt(<<toClient[Max(Before(i))], toClient[i]>>, 2)
      /\ \A i \in 1..Len(toClient) :
           (toClient[i].msg.from = "proxy" /\ sent[toClient[i].msg.id].quiet) =>
              FitsAt(toClient, i)

\* A connection whose handler ran to its end leaves nothing behind: both
\* sockets are closed and the backend task is over, whatever ended it, also a
\* shutdown that arrived while a socket was closing.
NothingLeftBehind ==
  handler = "done" =>
    clientSock = "closed" /\ serverSock # "open" /\ backendTask \in {"none", "ended"}

\* Whenever something is unanswered, everything sent gets answered or the
\* connection ends, however the bytes are cut, as long as decisions are made.
AnsweredOrEnded ==
  []<>(handler # "decide") => (~AllAnswered ~> (Ended \/ AllAnswered))

\* When the client or the server goes away or the proxy is stopped, the
\* connection ends, also when that happens during a decision, as long as the
\* decision is made: the handler notices a server that left only because the
\* backend task closes the client's socket.
TeardownCompletes ==
  []<>(handler # "decide") =>
    ((clientGone \/ serverGone \/ shutdown) ~> Ended)

=============================================================================
