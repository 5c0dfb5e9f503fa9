-------------------------------- MODULE Wire --------------------------------
(***************************************************************************)
(* The state both kinds of connection have: two sockets with a proxy in    *)
(* between that relays bytes from either to the other.  A read returns any *)
(* non-empty prefix of the bytes in flight; Framer cuts them into messages.*)
(***************************************************************************)
EXTENDS Framer, SequencesExt

CONSTANTS
  MaxMessage,      \* opts.max_message_bytes
  ReadTimeout,     \* opts.socket_read_timeout_seconds is set
  MaxSent          \* bound on the messages of a client

ASSUME WireAssumption == MaxMessage \in Nat /\ MaxSent \in Nat /\ ReadTimeout \in BOOLEAN

VARIABLES
  sent,            \* the messages the client has sent
  c2p,             \* bytes on their way from the client
  clientGone,      \* the client has closed its end
  toServer,        \* all bytes written to the server
  served,          \* how many of them the server has dealt with
  b2p,             \* bytes on their way from the server
  serverGone,      \* the server has closed its end
  toClient,        \* all bytes written to the client
  clientSock,      \* the writer to the client: open or closed
  serverSock,      \* the writer to the server: none, open or closed
  buf, bbuf,       \* the buffers of the two framers
  queue,           \* the client's frames of the last chunk still to be handled
  handler,         \* where the task of the connection is
  backendTask,     \* the task that reads from the server
  shutdown         \* the proxy was stopped

client  == <<sent, c2p, clientGone>>
server  == <<served, b2p, serverGone>>
sockets == <<clientSock, serverSock>>
frames  == <<buf, queue>>
wire    == <<client, server, toServer, toClient, sockets, frames, bbuf, handler,
             backendTask, shutdown>>

InitWire ==
  /\ sent = <<>> /\ c2p = <<>> /\ clientGone = FALSE
  /\ toServer = <<>> /\ served = 0 /\ b2p = <<>> /\ serverGone = FALSE
  /\ toClient = <<>>
  /\ clientSock = "open" /\ serverSock = "none"
  /\ buf = <<>> /\ bbuf = <<>> /\ queue = <<>>
  /\ backendTask = "none" /\ shutdown = FALSE

-----------------------------------------------------------------------------
(***************************************************************************)
(* The two ends.                                                           *)
(***************************************************************************)
\* The client sends n bytes of a message (all of it, or the header of one it
\* does not complete because the length is invalid).
Send(m, n) ==
  /\ ~clientGone /\ clientSock = "open" /\ Len(sent) < MaxSent
  /\ sent' = Append(sent, m)
  /\ c2p' = c2p \o Bytes(m, n)
  /\ UNCHANGED clientGone

ClientLeaves ==
  /\ ~clientGone /\ clientSock = "open"
  /\ clientGone' = TRUE
  /\ UNCHANGED <<sent, c2p>>

\* The message the server can read next.
Unserved == Drop(toServer, served)
ServerHas(m) == serverSock = "open" /\ ~serverGone /\ Unserved # <<>> /\ m = Unserved[1].msg

Serve(answer) ==
  /\ served' = served + Unserved[1].msg.size
  /\ b2p' = b2p \o answer
  /\ UNCHANGED serverGone

ServerLeaves ==
  /\ serverSock = "open" /\ ~serverGone
  /\ serverGone' = TRUE
  /\ UNCHANGED <<served, b2p>>

\* A read by the proxy from the client or from the server.
Chunks(bytes) == {SubSeq(bytes, 1, n) : n \in 1..Len(bytes)}

ClientEof == clientSock = "closed" \/ (clientGone /\ c2p = <<>>)
ServerEof == serverGone /\ b2p = <<>>

\* A write to a closed writer is lost.
WriteClient(bytes) ==
  toClient' = IF clientSock = "open" THEN toClient \o bytes ELSE toClient

-----------------------------------------------------------------------------
\* The i-th byte of a stream continues the message of the byte before it, or
\* starts one after the end of another.
FitsAt(s, i) ==
  \/ s[i].at = 1 /\ (i > 1 => s[i - 1].at = s[i - 1].msg.size)
  \/ s[i].at > 1 /\ i > 1 /\ s[i - 1] = [s[i] EXCEPT !.at = @ - 1]

=============================================================================
