------------------------- MODULE PgConnectionProofs --------------------------
(***************************************************************************)
(* Proofs about PgConnection, for every message size, header size, limit   *)
(* and client, and however the bytes are cut.  Three parts: the end of a   *)
(* connection, the stream to the server, and the stream to the client,     *)
(* which needs what the second part knows of the messages still to come.   *)
(***************************************************************************)
EXTENDS PgConnection, Facts

-----------------------------------------------------------------------------
(***************************************************************************)
(* The end of a connection.  Where the handler is tells what can still be  *)
(* open: it reaches its end only behind the backend task and the sockets.  *)
(***************************************************************************)
HandlerIsSound ==
  /\ handler \in {"startup", "connecting"} => backendTask = "none" /\ serverSock = "none"
  /\ handler \in {"read", "handle", "decide"} =>
       backendTask \in {"new", "read", "ended"} /\ serverSock = "open"
  /\ handler = "gather" => backendTask \in {"cancelled", "ended"}
  /\ handler \in {"wait_client", "wait_server", "done"} =>
       clientSock = "closed" /\ backendTask \in {"none", "ended"}
  /\ handler \in {"wait_server", "done"} => serverSock # "open"

LifeTyped ==
  /\ handler \in {"startup", "connecting", "read", "handle", "decide", "gather",
                  "wait_client", "wait_server", "done", "aborted"}
  /\ backendTask \in {"none", "new", "read", "cancelled", "ended"}
  /\ clientSock \in {"open", "closed"} /\ serverSock \in {"none", "open", "closed"}

LifeInv == LifeTyped /\ HandlerIsSound

\* What a step may do with the handler, the backend task and the sockets.
LEMMA TeardownIsSound ==
  ASSUME LifeInv, Teardown, UNCHANGED serverSock,
         handler \in {"startup", "connecting", "read", "handle", "decide"}
  PROVE  LifeInv'
  BY DEF LifeInv, LifeTyped, HandlerIsSound, Teardown

\* No step breaks the invariant of the life cycle.
LEMMA LifeNext == LifeInv /\ [Next]_vars => LifeInv'
  <1> SUFFICES ASSUME LifeInv, [Next]_vars PROVE LifeInv'
    OBVIOUS
  <1> USE DEF LifeInv, LifeTyped, HandlerIsSound
  <1>1. CASE UNCHANGED <<handler, backendTask, sockets>>
    BY <1>1 DEF sockets
  <1>2. ASSUME handler \in {"startup", "connecting", "read", "handle", "decide"}, Teardown,
               UNCHANGED serverSock
        PROVE  LifeInv'
    BY <1>2, TeardownIsSound
  <1>3. CASE ReadStartup
    BY <1>2, <1>3 DEF ReadStartup
  <1>4. CASE Connected
    BY <1>4 DEF Connected
  <1>4a. CASE StartupWriteFails
    BY <1>4a DEF StartupWriteFails, Teardown
  <1>5. CASE ConnectFails \/ ReadEnds \/ WriteFails \/ ReadTimesOut
    BY <1>2, <1>5 DEF ConnectFails, ReadEnds, WriteFails, ReadTimesOut
  <1>6. CASE ReadChunk
    BY <1>2, <1>6 DEF ReadChunk
  <1>7. CASE HandlePlain \/ HandleQuery \/ Approved \/ Refused
    BY <1>7 DEF HandlePlain, HandleQuery, Approved, Refused, NextFrame, sockets
  <1>8. CASE Gathered
    BY <1>8 DEF Gathered
  <1>9. CASE SocketClosed
    BY <1>9 DEF SocketClosed, CloseServer
  <1>10. CASE PipeStarts \/ PipeReads \/ PipeEnds \/ PipeTimesOut
    BY <1>10 DEF PipeStarts, PipeReads, PipeEnds, PipeTimesOut, EndPipe, sockets
  <1>11. CASE Shutdown
    BY <1>2, <1>11 DEF Shutdown, CloseServer, sockets
  <1>12. CASE ServerAnswers \/ PgClientLeaves \/ PgServerLeaves \/ \E k \in PgKinds : ClientSends(k)
    BY <1>1, <1>12 DEF ServerAnswers, PgClientLeaves, PgServerLeaves, ClientSends
  <1>13. CASE UNCHANGED vars
    BY <1>1, <1>13 DEF vars, wire
  <1> QED BY <1>3, <1>4, <1>4a, <1>5, <1>6, <1>7, <1>8, <1>9, <1>10, <1>11, <1>12, <1>13
          DEF Next, Handler, Pipe, Decided, Timeouts, Environment

\* A connection whose handler ran to its end has closed both sockets and its
\* backend task is over, whatever ended it and however its tasks interleave.
THEOREM ConnectionLeavesNothing == FairSpec => []NothingLeftBehind
  <1>1. Init => LifeInv
    BY DEF Init, InitWire, LifeInv, LifeTyped, HandlerIsSound
  <1>2. LifeInv /\ [Next]_vars => LifeInv'
    BY LifeNext
  <1>3. LifeInv => NothingLeftBehind
    BY DEF LifeInv, HandlerIsSound, NothingLeftBehind
  <1> QED BY <1>1, <1>2, <1>3, PTL DEF FairSpec

-----------------------------------------------------------------------------
(***************************************************************************)
(* The stream to the server.  The bytes between the client and the framer  *)
(* are in line (Lined of Facts), and frames wait in the order in which     *)
(* their messages were sent, behind everything already written.            *)
(***************************************************************************)
Msg == [id : Nat, kind : PgKinds, size : Nat, quiet : BOOLEAN]

\* The messages a client sends to their last byte.
Full == {m \in Msg : m.kind \in StartupKinds \/ Valid(m.size)}

Cell == Cells(Msg)

SentInv ==
  /\ sent \in Seq(Msg)
  /\ \A i \in 1..Len(sent) : sent[i].id = i
  /\ \A i, j \in 1..Len(sent) :
       i < j /\ sent[i].kind = "startup" => sent[j].kind \notin StartupKinds

\* ServerStreamIntact for any stream.
Intact(s) ==
  \A i \in 1..Len(s) :
    /\ FitsAt(s, i)
    /\ (i = 1) = (s[i].msg.kind = "startup" /\ s[i].at = 1)
    /\ (i > 1 /\ s[i].at = 1) => s[i - 1].msg.id < s[i].msg.id
    /\ i = Len(s) => s[i].at = s[i].msg.size

\* The bytes the framer has or can still read.
Incoming(s) ==
  /\ Orderly(s, Msg, Full)
  /\ \A i \in 1..Len(s) : s[i].msg.id \in 1..Len(sent) /\ s[i].msg = sent[s[i].msg.id]

\* The handler has the startup message.
Started == handler \in {"connecting", "read", "handle", "decide"}
Active  == handler = "startup" \/ Started

StartupIsOver ==
  /\ \E z \in 1..Len(sent) : sent[z].kind = "startup"
  /\ \A i \in 1..Len(buf \o c2p) : (buf \o c2p)[i].msg.kind \notin StartupKinds

\* A frame is a whole message, younger than what was written and older than
\* what the framer has.
FrameIsSound(q) ==
  /\ q[1].msg \in Msg /\ q[1].msg.size > 0 /\ q = Whole(q[1].msg)
  /\ (q[1].msg.kind = "startup") = (handler = "connecting")
  /\ q[1].msg.id \in 1..Len(sent)
  /\ \A i \in 1..Len(toServer) : toServer[i].msg.id < q[1].msg.id
  /\ \A i \in 1..Len(buf \o c2p) : q[1].msg.id < (buf \o c2p)[i].msg.id

QueueInv ==
  /\ queue \in Seq(Seq(Cell))
  /\ \A j \in 1..Len(queue) : FrameIsSound(queue[j])
  /\ \A j, l \in 1..Len(queue) : j < l => queue[j][1].msg.id < queue[l][1].msg.id
  /\ handler = "connecting" => Len(queue) = 1
  /\ handler \in {"handle", "decide"} => Len(queue) > 0

Flow ==
  /\ buf \in Seq(Cell) /\ c2p \in Seq(Cell)
  /\ Incoming(buf \o c2p)
  /\ Started => StartupIsOver /\ QueueInv
  /\ handler \in {"startup", "connecting"} => toServer = <<>>
  /\ handler \in {"read", "handle", "decide"} => toServer # <<>>
  /\ \A i \in 1..Len(toServer), j \in 1..Len(buf \o c2p) :
       toServer[i].msg.id < (buf \o c2p)[j].msg.id

StreamInv ==
  /\ SentInv
  /\ toServer \in Seq(Cell) /\ Intact(toServer)
  /\ \A i \in 1..Len(toServer) : toServer[i].msg.id \in 1..Len(sent)
  /\ Active => Flow

\* Whatever is still to be read or handled is younger than message n.
Ahead(n) ==
  /\ \A j \in 1..Len(buf \o c2p) : n < (buf \o c2p)[j].msg.id
  /\ Started => \A l \in 1..Len(queue) : n < queue[l][1].msg.id

KeepsAhead == \A n \in 1..Len(sent) : Ahead(n) => Ahead(n)'

\* The proxy answers message id itself: none that was forwarded, and none that
\* will be.
Speaks(id) ==
  /\ id \in 1..Len(sent) /\ \A i \in 1..Len(toServer) : toServer[i].msg.id < id
  /\ \E n \in Nat \ {0} : WriteClient(Whole(Answer(id, n, "proxy")))
  /\ Active' => Ahead(id)'

\* The messages are such as the facts about streams ask for.
LEMMA MsgFacts == Messages(Msg) /\ Full \in SUBSET Msg
  BY DEF Messages, Msg, Full

\* A whole message behind an intact stream.
LEMMA AppendWhole ==
  ASSUME NEW s \in Seq(Cell), Intact(s), NEW m \in Msg, m.size > 0,
         \A i \in 1..Len(s) : s[i].msg.id < m.id,
         (m.kind = "startup") = (s = <<>>)
  PROVE  s \o Whole(m) \in Seq(Cell) /\ Intact(s \o Whole(m))
  <1> DEFINE w == Whole(m)
             t == s \o w
  <1>1. /\ w \in Seq(Cell) /\ Len(w) = m.size
        /\ \A i \in 1..m.size : w[i] = [msg |-> m, at |-> i]
    BY MsgFacts, WholeFacts DEF Cell
  <1>2. m.size \in Nat /\ m.id \in Nat
    BY DEF Msg
  <1> HIDE DEF w
  <1>3. /\ t \in Seq(Cell) /\ Len(t) = Len(s) + m.size /\ Len(s) \in Nat
        /\ \A i \in 1..Len(s) : t[i] = s[i]
        /\ \A i \in Len(s) + 1..Len(s) + m.size : t[i] = w[i - Len(s)]
    BY <1>1, ConcatFacts
  <1> HIDE DEF t
  <1>4. ASSUME NEW i \in Len(s) + 1..Len(s) + m.size
        PROVE  t[i] = [msg |-> m, at |-> i - Len(s)] /\ t[i].msg = m /\ t[i].at = i - Len(s)
    <2>1. i - Len(s) \in 1..m.size
      BY <1>2, <1>3
    <2>2. t[i] = w[i - Len(s)]
      BY <1>3
    <2>3. t[i] = [msg |-> m, at |-> i - Len(s)]
      BY <1>1, <2>1, <2>2
    <2> QED BY <2>3
  <1>5. ASSUME NEW i \in 1..Len(t)
        PROVE  /\ FitsAt(t, i)
               /\ (i = 1) = (t[i].msg.kind = "startup" /\ t[i].at = 1)
               /\ (i > 1 /\ t[i].at = 1) => t[i - 1].msg.id < t[i].msg.id
               /\ i = Len(t) => t[i].at = t[i].msg.size
    <2>1. CASE i \in 1..Len(s)
      <3>1. t[i] = s[i] /\ (i > 1 => t[i - 1] = s[i - 1]) /\ i # Len(t)
        BY <1>2, <1>3, <2>1
      <3>2. FitsAt(s, i) => FitsAt(t, i)
        BY <3>1 DEF FitsAt
      <3> QED BY <2>1, <3>1, <3>2 DEF Intact
    <2>2. CASE i = Len(s) + 1
      <3>0. i \in Len(s) + 1..Len(s) + m.size /\ i - Len(s) = 1
        BY <1>2, <1>3, <2>2
      <3>1. t[i].msg = m /\ t[i].at = 1
        BY <1>4, <3>0
      <3>2. i > 1 => i - 1 = Len(s) /\ i - 1 \in 1..Len(s) /\ t[i - 1] = s[Len(s)]
        BY <1>3, <2>2
      <3>3. i > 1 => s[Len(s)].at = s[Len(s)].msg.size /\ s[Len(s)].msg.id < m.id
        BY <1>3, <2>2 DEF Intact
      <3>4. FitsAt(t, i)
        BY <3>1, <3>2, <3>3 DEF FitsAt
      <3>5. (i = 1) = (m.kind = "startup")
        BY <1>3, <2>2
      <3>6. i = Len(t) => m.size = 1
        BY <1>2, <1>3, <2>2
      <3> QED BY <3>1, <3>2, <3>3, <3>4, <3>5, <3>6
    <2>3. CASE i \in Len(s) + 2..Len(s) + m.size
      <3>1. i \in Len(s) + 1..Len(s) + m.size /\ i - 1 \in Len(s) + 1..Len(s) + m.size /\ i > 1
        BY <1>2, <1>3, <2>3
      <3>2. /\ t[i] = [msg |-> m, at |-> i - Len(s)] /\ t[i].msg = m /\ t[i].at = i - Len(s)
            /\ t[i - 1] = [msg |-> m, at |-> (i - 1) - Len(s)]
        BY <1>4, <3>1
      <3>3. i - Len(s) > 1 /\ (i - 1) - Len(s) = (i - Len(s)) - 1 /\ i # 1
        BY <1>2, <1>3, <2>3
      <3>4. t[i - 1] = [t[i] EXCEPT !.at = @ - 1]
        BY <3>2, <3>3
      <3>5. t[i].at > 1
        BY <3>2, <3>3
      <3>6. FitsAt(t, i)
        BY <3>1, <3>4, <3>5 DEF FitsAt
      <3>7. i = Len(t) => i - Len(s) = m.size
        BY <1>2, <1>3
      <3>8. t[i].at # 1
        BY <1>3, <3>1, <3>5, <3>2
      <3> QED BY <3>2, <3>3, <3>6, <3>7, <3>8
    <2> QED BY <1>2, <1>3, <2>1, <2>2, <2>3
  <1>6. Intact(t)
    BY <1>5 DEF Intact
  <1> QED BY <1>3, <1>6 DEF t, w

\* What is left of the incoming bytes behind the end of a message.
LEMMA CutIncoming ==
  ASSUME NEW s \in Seq(Cell), Incoming(s), NEW k \in 0..Len(s), EndsAt(s, k, Full)
  PROVE  /\ Drop(s, k) \in Seq(Cell) /\ Incoming(Drop(s, k))
         /\ \A j \in 1..Len(Drop(s, k)) :
              /\ j + k \in 1..Len(s) /\ Drop(s, k)[j] = s[j + k]
              /\ \A i \in 1..k : s[i].msg.id < Drop(s, k)[j].msg.id
  <1> DEFINE t == Drop(s, k)
  <1>1. /\ t \in Seq(Cell) /\ Orderly(t, Msg, Full)
        /\ \A j \in 1..Len(t) : /\ j + k \in 1..Len(s) /\ t[j] = s[j + k]
                                /\ \A i \in 1..k : s[i].msg.id < t[j].msg.id
    BY CutStream DEF Incoming, Cell, Orderly
  <1> HIDE DEF t
  <1>2. Incoming(t)
    BY <1>1 DEF Incoming
  <1> QED BY <1>1, <1>2 DEF t

\* A message the client sends.
LEMMA ClientSendsStream ==
  ASSUME StreamInv, NEW kind \in PgKinds, ClientSends(kind)
  PROVE  StreamInv' /\ (Active => KeepsAhead)
  <1> DEFINE m == [id |-> Len(sent) + 1, kind |-> kind, size |-> PgSizes[kind],
                   quiet |-> AllAnswered]
             n == IF kind \in StartupKinds \/ Valid(m.size) THEN m.size ELSE PgHeader
             s == buf \o c2p
  <1>1. /\ sent' = Append(sent, m) /\ c2p' = c2p \o Bytes(m, n)
        /\ UNCHANGED <<toServer, buf, queue, handler>>
        /\ MayFollow(kind)
    BY DEF ClientSends, Send, frames
  <1>2. m \in Msg /\ n \in Nat /\ (m \in Full => n = m.size) /\ m.id = Len(sent) + 1
        /\ m.kind = kind
    <2>1. AllAnswered \in BOOLEAN
      BY DEF AllAnswered
    <2>2. Len(sent) + 1 \in Nat
      BY DEF StreamInv, SentInv
    <2>3. PgSizes[kind] \in Nat /\ PgHeader \in Nat
      BY PgWireAssumption
    <2>4. m \in Msg
      BY <2>1, <2>2, <2>3 DEF Msg
    <2> QED BY <2>3, <2>4 DEF Full
  <1> HIDE DEF m, n
  <1>3. /\ sent \in Seq(Msg) /\ Len(sent) \in Nat /\ sent' \in Seq(Msg) /\ Len(sent') = Len(sent) + 1
        /\ \A i \in 1..Len(sent) : sent'[i] = sent[i]
        /\ sent'[Len(sent) + 1] = m
    BY <1>1, <1>2, AppendFacts DEF StreamInv, SentInv
  <1>4. SentInv'
    <2>1. \A i \in 1..Len(sent') : sent'[i].id = i
      BY <1>2, <1>3 DEF StreamInv, SentInv
    <2>2. ASSUME NEW i \in 1..Len(sent'), NEW j \in 1..Len(sent'), i < j,
                 sent'[i].kind = "startup"
          PROVE  sent'[j].kind \notin StartupKinds
      <3>1. i \in 1..Len(sent) /\ sent[i].kind = "startup"
        BY <1>3, <2>2
      <3>2. CASE j \in 1..Len(sent)
        BY <1>3, <2>2, <3>1, <3>2 DEF StreamInv, SentInv
      <3>3. CASE j = Len(sent) + 1
        BY <1>1, <1>2, <1>3, <3>1, <3>3 DEF MayFollow
      <3> QED BY <1>3, <3>2, <3>3
    <2> QED BY <1>3, <2>1, <2>2 DEF SentInv
  <1>5. \A i \in 1..Len(toServer) : toServer[i].msg.id \in 1..Len(sent')
    BY <1>3 DEF StreamInv
  <1>6. ASSUME Active PROVE Flow' /\ KeepsAhead
    <2>1. Flow /\ buf \in Seq(Cell) /\ c2p \in Seq(Cell) /\ Incoming(s)
      BY <1>6 DEF StreamInv, Flow
    <2>2. s \in Seq(Cell)
      BY <2>1, ConcatType
    <2> DEFINE t == s \o Bytes(m, n)
    <2>3. \A i \in 1..Len(s) : s[i].msg.id < m.id /\ s[i].msg.id \in 1..Len(sent)
      BY <1>2, <1>3, <2>1 DEF Incoming
    <2>4. /\ Orderly(t, Msg, Full)
          /\ \A i \in 1..Len(t) : t[i].msg = m \/ (i \in 1..Len(s) /\ t[i] = s[i])
      <3>1. Orderly(s, Msg, Full)
        BY <2>1 DEF Incoming
      <3>2. m \in Msg /\ n \in Nat /\ Sendable(s, m, n, Full)
        BY <1>2, <2>3 DEF Sendable
      <3> HIDE DEF s
      <3>3. /\ Orderly(s \o Bytes(m, n), Msg, Full)
            /\ \A i \in 1..Len(s \o Bytes(m, n)) :
                 \/ (s \o Bytes(m, n))[i].msg = m
                 \/ i \in 1..Len(s) /\ (s \o Bytes(m, n))[i] = s[i]
        BY ONLY <3>1, <3>2, SendLined
      <3> QED BY <3>3, Zenon
    <2>5. Bytes(m, n) \in Seq(Cell)
      BY <1>2 DEF Bytes, Cell, Cells
    <2>6. buf' \o c2p' = t /\ c2p' \in Seq(Cell)
      <3>1. (buf \o c2p) \o Bytes(m, n) = buf \o (c2p \o Bytes(m, n))
        BY <2>1, <2>5, ConcatAssoc
      <3> QED BY <1>1, <2>1, <2>5, <3>1, ConcatType
    <2> HIDE DEF s, t
    <2>7. \A i \in 1..Len(t) : t[i].msg.id \in 1..Len(sent') /\ t[i].msg = sent'[t[i].msg.id]
      <3> SUFFICES ASSUME NEW i \in 1..Len(t)
                   PROVE  t[i].msg.id \in 1..Len(sent') /\ t[i].msg = sent'[t[i].msg.id]
        OBVIOUS
      <3>1. CASE t[i].msg = m
        BY <1>2, <1>3, <3>1
      <3>2. CASE i \in 1..Len(s) /\ t[i] = s[i]
        <4>1. s[i].msg = sent[s[i].msg.id]
          BY <2>1, <3>2 DEF Incoming
        <4>2. s[i].msg.id \in 1..Len(sent)
          BY <2>3, <3>2
        <4>3. s[i].msg.id \in 1..Len(sent') /\ sent'[s[i].msg.id] = sent[s[i].msg.id]
          BY ONLY <1>3, <4>2
        <4> QED BY ONLY <3>2, <4>1, <4>3
      <3> QED BY <2>4, <3>1, <3>2
    <2>8. Incoming(buf \o c2p)'
      BY <2>4, <2>6, <2>7 DEF Incoming
    <2>9. ASSUME Started PROVE StartupIsOver'
      <3>1. PICK z \in 1..Len(sent) : sent[z].kind = "startup"
        BY <2>1, <2>9 DEF Flow, StartupIsOver
      <3>2. kind \notin StartupKinds
        BY <1>1, <3>1 DEF MayFollow
      <3>3. z \in 1..Len(sent') /\ sent'[z].kind = "startup"
        BY <1>3, <3>1
      <3>4. \A i \in 1..Len(s) : s[i].msg.kind \notin StartupKinds
        BY <2>1, <2>9 DEF Flow, StartupIsOver, s
      <3>5. \A i \in 1..Len(t) : t[i].msg.kind \notin StartupKinds
        BY <1>2, <2>4, <3>2, <3>4
      <3> QED BY <2>6, <3>3, <3>5 DEF StartupIsOver
    <2>10. ASSUME Started PROVE QueueInv'
      <3>1. QueueInv
        BY <2>1, <2>10 DEF Flow
      <3>2. ASSUME NEW j \in 1..Len(queue) PROVE FrameIsSound(queue[j])'
        <4> DEFINE q == queue[j]
        <4>1. /\ q[1].msg \in Msg /\ q[1].msg.size > 0 /\ q = Whole(q[1].msg)
              /\ (q[1].msg.kind = "startup") = (handler = "connecting")
              /\ q[1].msg.id \in 1..Len(sent)
              /\ \A i \in 1..Len(toServer) : toServer[i].msg.id < q[1].msg.id
              /\ \A i \in 1..Len(s) : q[1].msg.id < s[i].msg.id
          BY <3>1 DEF QueueInv, FrameIsSound, s
        <4>2. q[1].msg.id < m.id /\ q[1].msg.id \in 1..Len(sent')
          BY <1>2, <1>3, <4>1
        <4>3. \A i \in 1..Len(t) : q[1].msg.id < t[i].msg.id
          BY <2>4, <4>1, <4>2
        <4> HIDE DEF q
        <4>4. FrameIsSound(q)'
          <5>1. q' = q
            BY <1>1 DEF q
          <5> QED BY <1>1, <2>6, <4>1, <4>2, <4>3, <5>1 DEF FrameIsSound
        <4> QED BY <4>4 DEF q
      <3> QED BY <1>1, <3>1, <3>2 DEF QueueInv
    <2>11. \A i \in 1..Len(toServer), j \in 1..Len(t) : toServer[i].msg.id < t[j].msg.id
      <3> SUFFICES ASSUME NEW i \in 1..Len(toServer), NEW j \in 1..Len(t)
                   PROVE  toServer[i].msg.id < t[j].msg.id
        OBVIOUS
      <3>1. toServer[i].msg.id \in 1..Len(sent)
        BY DEF StreamInv
      <3>2. CASE t[j].msg = m
        BY <1>2, <1>3, <3>1, <3>2
      <3>3. CASE j \in 1..Len(s) /\ t[j] = s[j]
        BY <2>1, <3>3 DEF Flow, s
      <3> QED BY <2>4, <3>2, <3>3
    <2>12. KeepsAhead
      <3> SUFFICES ASSUME NEW k \in 1..Len(sent), Ahead(k) PROVE Ahead(k)'
        BY DEF KeepsAhead
      <3>1. \A j \in 1..Len(s) : k < s[j].msg.id
        BY DEF Ahead, s
      <3>2. k < m.id
        BY <1>2, <1>3
      <3>3. \A j \in 1..Len(t) : k < t[j].msg.id
        BY <2>4, <3>1, <3>2
      <3> QED BY <1>1, <2>6, <3>3 DEF Ahead, Started
    <2> QED BY <1>1, <2>1, <2>6, <2>8, <2>9, <2>10, <2>11, <2>12 DEF Flow, Started
  <1> QED BY <1>1, <1>4, <1>5, <1>6 DEF StreamInv, Active, Started

\* The rest of a connection's life leaves the stream to the server alone.
LEMMA StreamEnds ==
  ASSUME StreamInv, UNCHANGED <<sent, toServer>>, ~Active'
  PROVE  StreamInv'
  BY DEF StreamInv, SentInv, Active, Started

\* A step that touches neither the bytes from the client nor the frames.
LEMMA StreamSame ==
  ASSUME StreamInv, UNCHANGED <<sent, toServer, c2p, buf, queue, handler>>
  PROVE  StreamInv'
  <1>1. SentInv'
    BY DEF StreamInv, SentInv
  <1>2. Active => Flow'
    BY DEF StreamInv, Flow, Incoming, Started, StartupIsOver, QueueInv, FrameIsSound
  <1> QED BY <1>1, <1>2 DEF StreamInv, Active, Started

\* A complete message in front of the incoming bytes.
LEMMA WholeIncoming ==
  ASSUME NEW s \in Seq(Cell), Incoming(s), Len(s) > 0, s[1].msg.size > 0, s[1].msg.size <= Len(s),
         s[1].msg.kind \in StartupKinds
  PROVE  /\ EndsAt(s, s[1].msg.size, Full)
         /\ SubSeq(s, 1, s[1].msg.size) = Whole(s[1].msg)
         /\ s[1].msg \in Msg /\ s[1].msg.size \in 0..Len(s)
  <1> DEFINE m == s[1].msg
             k == m.size
  <1>1. Len(s) \in Nat /\ 1 \in 1..Len(s)
    OBVIOUS
  <1>2. m \in Msg /\ k \in Nat
    BY <1>1, MsgFacts, CellFacts DEF Cell
  <1>3. m \in Full
    BY <1>2 DEF Full
  <1>4. s[1].at = 1
    BY DEF Incoming, Orderly, Starts
  <1>5. SubSeq(s, 1, k) = Whole(m)
    BY <1>3, <1>4, MsgFacts, WholeAtStart DEF Incoming, Orderly, Cell
  <1>6. s[k] = [msg |-> m, at |-> k]
    <2>1. \A i \in 1..k : Whole(m)[i] = [msg |-> m, at |-> i]
      BY <1>2, MsgFacts, WholeFacts
    <2>2. k \in 1..k /\ k \in 1..Len(s)
      BY <1>1, <1>2
    <2>3. SubSeq(s, 1, k)[k] = s[k]
      BY <1>1, <1>2, <2>2
    <2> QED BY <1>5, <2>1, <2>2, <2>3
  <1>7. s[k].msg = m /\ s[k].at = k
    BY <1>6
  <1> HIDE DEF m, k
  <1>8. EndsAt(s, k, Full)
    BY <1>3, <1>7 DEF EndsAt, k
  <1> QED BY <1>1, <1>2, <1>5, <1>8 DEF k, m

\* Startup: bytes are kept, or a complete message is taken.
LEMMA ReadStartupStream ==
  ASSUME StreamInv, ReadStartup
  PROVE  /\ StreamInv' /\ (Active' => KeepsAhead)
         /\ UNCHANGED toClient \/ \E id : Speaks(id)
  <1>s. PICK s : s = buf \o c2p
    OBVIOUS
  <1>0. handler = "startup" /\ UNCHANGED <<sent, toServer>>
    BY DEF ReadStartup
  <1>1. /\ Flow /\ buf \in Seq(Cell) /\ c2p \in Seq(Cell) /\ s \in Seq(Cell) /\ Incoming(s)
        /\ toServer = <<>>
    <2>1. Flow
      BY <1>0 DEF StreamInv, Active
    <2>2. buf \in Seq(Cell) /\ c2p \in Seq(Cell)
      BY <2>1 DEF Flow
    <2>3. s \in Seq(Cell)
      BY <1>s, <2>2, ConcatType
    <2> QED BY <1>0, <1>s, <2>1, <2>2, <2>3 DEF Flow
  <1>2. CASE handler' \in {"gather", "wait_client"}
    <2>1. ~Active'
      BY <1>2 DEF Active, Started
    <2>2. UNCHANGED toClient
      BY <1>0, <1>2 DEF ReadStartup
    <2> QED BY <1>0, <2>1, <2>2, StreamEnds
  <1>3. CASE handler' \notin {"gather", "wait_client"}
    <2>1. PICK chunk \in Chunks(c2p) :
            LET bytes == buf \o chunk
                m == bytes[1].msg
                got == StartupPush(bytes)
            IN  /\ c2p' = Drop(c2p, Len(chunk))
                /\ \/ got = "more" /\ buf' = bytes /\ UNCHANGED <<handler, queue, toClient>>
                   \/ /\ got = "whole" /\ m.kind = "ssl" /\ buf' = <<>>
                      /\ WriteClient(No(m)) /\ UNCHANGED <<handler, queue>>
                   \/ /\ got = "whole" /\ m.kind = "startup" /\ UNCHANGED toClient
                      /\ buf' = <<>> /\ queue' = <<bytes>> /\ handler' = "connecting"
      BY <1>3 DEF ReadStartup, Teardown
    <2>b. PICK bytes : bytes = buf \o chunk
      OBVIOUS
    <2>r. PICK rest : rest = Drop(c2p, Len(chunk))
      OBVIOUS
    <2> DEFINE m == bytes[1].msg
    <2>2. /\ bytes \in Seq(Cell) /\ Len(bytes) \in Nat /\ Len(bytes) > 0
          /\ rest \in Seq(Cell) /\ bytes \o rest = s /\ c2p' = rest
      <3>1. /\ bytes \in Seq(Cell) /\ Len(bytes) > 0
            /\ rest \in Seq(Cell) /\ bytes \o rest = s
        <4>1. ReadOff(buf, c2p, chunk, bytes, rest)
          BY <2>1, <2>b, <2>r DEF ReadOff, Chunks
        <4>2. buf \in Seq(Cell) /\ c2p \in Seq(Cell)
          BY <1>1
        <4>3. bytes \in Seq(Cell) /\ Len(bytes) > 0 /\ rest \in Seq(Cell) /\ bytes \o rest = buf \o c2p
          <5>1. SplitsInto(Cell, buf, c2p, chunk, bytes, rest)
            BY ONLY <4>1, <4>2, ReadSplitsInto
          <5> QED BY ONLY <5>1 DEF SplitsInto
        <4> QED BY <1>s, <4>3
      <3>2. c2p' = rest
        BY <2>1, <2>r
      <3>3. Len(bytes) \in Nat
        BY <3>1
      <3> QED BY <3>1, <3>2, <3>3, Zenon
    <2>3. CASE buf' = bytes /\ UNCHANGED <<handler, queue, toClient>>
      <3>1. buf' \o c2p' = s
        BY <2>2, <2>3
      <3>2. Incoming(buf \o c2p)'
        BY <1>0, <1>1, <3>1 DEF Incoming
      <3>3. buf' \in Seq(Cell) /\ c2p' \in Seq(Cell) /\ toServer' = <<>> /\ handler' = "startup"
        BY <1>0, <1>1, <2>2, <2>3
      <3>4. Flow'
        BY <3>2, <3>3 DEF Flow, Started
      <3>5. KeepsAhead
        BY <1>s, <2>3, <3>1 DEF KeepsAhead, Ahead, Started
      <3> QED BY <1>0, <2>3, <3>4, <3>5 DEF StreamInv, SentInv
    <2>4. ASSUME StartupPush(bytes) = "whole", m.kind \in StartupKinds
          PROVE  /\ bytes = Whole(m) /\ m \in Msg /\ m.size > 0
                 /\ m.id \in 1..Len(sent) /\ m = sent[m.id]
                 /\ Incoming(rest) /\ \A j \in 1..Len(rest) : m.id < rest[j].msg.id
                 /\ \A n \in 1..Len(sent) :
                      Ahead(n) => n < m.id /\ \A j \in 1..Len(rest) : n < rest[j].msg.id
      <3> DEFINE k == Len(bytes)
      <3>0. m.size \in Nat
        <4>1. 1 \in 1..Len(bytes)
          BY <2>2
        <4> QED BY <2>2, <4>1, MsgFacts, CellFacts DEF Cell
      <3>1. m.size > 0 /\ m.size = k
        BY ONLY <2>4, <3>0, <2>2, WireAssumption DEF StartupPush
      <3>2. /\ Len(s) \in Nat /\ k <= Len(s) /\ s[1] = bytes[1] /\ SubSeq(s, 1, k) = bytes
            /\ 1 \in 1..Len(s)
        <4>1. /\ Len(rest) \in Nat /\ Len(s) = k + Len(rest)
              /\ \A i \in 1..k : s[i] = bytes[i]
          BY <2>2, ConcatFacts
        <4>2. k \in Nat /\ k > 0 /\ Len(s) \in Nat
          BY <2>2, <4>1
        <4>3. SubSeq(s, 1, k) \in Seq(Cell) /\ Len(SubSeq(s, 1, k)) = k
              /\ \A i \in 1..k : SubSeq(s, 1, k)[i] = s[i]
          BY <1>1, <4>1, <4>2
        <4>4. SubSeq(s, 1, k) = bytes
          BY <2>2, <4>1, <4>3, SeqEqual
        <4> QED BY <4>1, <4>2, <4>4
      <3>3. EndsAt(s, k, Full) /\ bytes = Whole(m) /\ m \in Msg /\ k \in 0..Len(s)
        <4>1. Len(s) > 0 /\ s[1].msg = m /\ m.size <= Len(s)
          BY <3>1, <3>2
        <4>2. /\ EndsAt(s, s[1].msg.size, Full) /\ s[1].msg \in Msg
              /\ SubSeq(s, 1, s[1].msg.size) = Whole(s[1].msg) /\ s[1].msg.size \in 0..Len(s)
          BY <1>1, <2>4, <3>1, <4>1, WholeIncoming
        <4> QED BY <3>1, <3>2, <4>1, <4>2
      <3>4. Drop(s, k) = rest
        <4>1. Drop(bytes, k) \o rest = Drop(s, k)
          <5>1. k \in 0..Len(bytes)
            BY <2>2
          <5> QED BY <2>2, <5>1, DropConcat
        <4>2. Drop(bytes, k) = <<>>
          BY <2>2 DEF Drop
        <4>3. <<>> \o rest = rest
          BY <2>2
        <4> QED BY <4>1, <4>2, <4>3
      <3>5. /\ Incoming(rest)
            /\ \A j \in 1..Len(rest) : \A i \in 1..k : s[i].msg.id < rest[j].msg.id
        BY <1>1, <3>3, <3>4, CutIncoming
      <3>6. s[1].msg.id \in 1..Len(sent) /\ s[1].msg = sent[s[1].msg.id]
        BY <1>1, <3>2 DEF Incoming
      <3>7. 1 \in 1..k
        BY <2>2
      <3>8. \A j \in 1..Len(rest) : j + k \in 1..Len(s) /\ rest[j] = s[j + k]
        BY <1>1, <3>3, <3>4, CutIncoming
      <3>9. \A n \in 1..Len(sent) :
              Ahead(n) => n < m.id /\ \A j \in 1..Len(rest) : n < rest[j].msg.id
        <4> SUFFICES ASSUME NEW n \in 1..Len(sent), Ahead(n)
                     PROVE  n < m.id /\ \A j \in 1..Len(rest) : n < rest[j].msg.id
          OBVIOUS
        <4>1. \A j \in 1..Len(s) : n < s[j].msg.id
          BY <1>s DEF Ahead
        <4> QED BY <3>2, <3>8, <4>1
      <3> HIDE DEF k
      <3> QED BY <3>1, <3>2, <3>3, <3>5, <3>6, <3>7, <3>9
    <2>5. buf' = <<>> => buf' \in Seq(Cell) /\ buf' \o c2p' = rest
      <3>1. <<>> \in Seq(Cell) /\ <<>> \o rest = rest
        BY <2>2
      <3> QED BY <2>2, <3>1
    <2>6. CASE /\ StartupPush(bytes) = "whole" /\ m.kind = "ssl" /\ buf' = <<>>
               /\ WriteClient(No(m)) /\ UNCHANGED <<handler, queue>>
      <3>1. /\ Incoming(rest) /\ m.id \in 1..Len(sent) /\ \A j \in 1..Len(rest) : m.id < rest[j].msg.id
            /\ \A n \in 1..Len(sent) : Ahead(n) => \A j \in 1..Len(rest) : n < rest[j].msg.id
        BY <2>4, <2>6 DEF StartupKinds
      <3>3. ~Started'
        BY <1>0, <2>6 DEF Started
      <3>4. KeepsAhead
        BY <2>5, <2>6, <3>1, <3>3 DEF KeepsAhead, Ahead
      <3>5. Ahead(m.id)'
        BY <2>5, <2>6, <3>1, <3>3 DEF Ahead
      <3>6. Speaks(m.id)
        <4>1. \A i \in 1..Len(toServer) : toServer[i].msg.id < m.id
          BY <1>1
        <4>2. 1 \in Nat \ {0} /\ WriteClient(Whole(Answer(m.id, 1, "proxy")))
          BY <2>6 DEF No
        <4>3. \E n \in Nat \ {0} : WriteClient(Whole(Answer(m.id, n, "proxy")))
          BY <4>2
        <4> QED BY <3>1, <3>5, <4>1, <4>3 DEF Speaks
      <3>2. Flow'
        BY <1>0, <1>1, <2>2, <2>5, <2>6, <3>1 DEF Flow, Incoming, Started
      <3> QED BY <1>0, <2>6, <3>2, <3>4, <3>6 DEF StreamInv, SentInv
    <2>7. CASE /\ StartupPush(bytes) = "whole" /\ m.kind = "startup" /\ UNCHANGED toClient
               /\ buf' = <<>> /\ queue' = <<bytes>> /\ handler' = "connecting"
      <3>1. /\ bytes = Whole(m) /\ m \in Msg /\ m.size > 0
            /\ m.id \in 1..Len(sent) /\ m = sent[m.id]
            /\ Incoming(rest) /\ \A j \in 1..Len(rest) : m.id < rest[j].msg.id
            /\ \A n \in 1..Len(sent) :
                 Ahead(n) => n < m.id /\ \A j \in 1..Len(rest) : n < rest[j].msg.id
        BY <2>4, <2>7 DEF StartupKinds
      <3>2. StartupIsOver'
        <4>1. ASSUME NEW j \in 1..Len(rest) PROVE rest[j].msg.kind \notin StartupKinds
          <5>1. /\ rest[j].msg.id \in 1..Len(sent) /\ rest[j].msg = sent[rest[j].msg.id]
                /\ m.id < rest[j].msg.id
            BY <3>1 DEF Incoming
          <5> QED BY <2>7, <3>1, <5>1 DEF StreamInv, SentInv
        <4>2. \E z \in 1..Len(sent) : sent[z].kind = "startup"
          BY <2>7, <3>1
        <4> QED BY <1>0, <2>5, <2>7, <4>1, <4>2 DEF StartupIsOver
      <3>3. QueueInv'
        <4>1. queue' \in Seq(Seq(Cell)) /\ Len(queue') = 1 /\ queue'[1] = bytes
          BY <2>2, <2>7
        <4>2. bytes[1].msg = m
          OBVIOUS
        <4>3. FrameIsSound(bytes)'
          <5>1. bytes[1].msg.id \in 1..Len(sent')
            BY <1>0, <3>1
          <5> QED BY <1>0, <1>1, <2>5, <2>7, <3>1, <5>1 DEF FrameIsSound
        <4>4. \A j \in 1..Len(queue') : j = 1
          BY <4>1
        <4> QED BY <2>7, <4>1, <4>3, <4>4 DEF QueueInv
      <3>4. Flow'
        BY <1>0, <1>1, <2>2, <2>5, <2>7, <3>1, <3>2, <3>3 DEF Flow, Incoming, Started
      <3>5. KeepsAhead
        <4>1. \A l \in 1..Len(queue') : queue'[l][1].msg = m
          <5>1. Len(queue') = 1 /\ queue'[1] = bytes
            BY <2>2, <2>7
          <5>2. \A l \in 1..Len(queue') : l = 1
            BY <5>1
          <5> QED BY <5>1, <5>2
        <4> QED BY <2>5, <2>7, <3>1, <4>1 DEF KeepsAhead, Ahead
      <3> QED BY <1>0, <2>7, <3>4, <3>5 DEF StreamInv, SentInv
    <2> QED BY <2>1, <2>b, <2>3, <2>6, <2>7
  <1> QED BY <1>2, <1>3

\* A frame is done with: written to the server, or answered by the proxy.
LEMMA FrameDoneStream ==
  ASSUME StreamInv, handler \in {"connecting", "handle", "decide"},
         queue' = Tail(queue), handler' = (IF Len(queue) = 1 THEN "read" ELSE "handle"),
         UNCHANGED <<sent, c2p, buf>>,
         toServer' = toServer \o Head(queue) \/ (handler # "connecting" /\ UNCHANGED toServer)
  PROVE  /\ StreamInv' /\ KeepsAhead
         /\ \A n : n = Head(queue)[1].msg.id => Ahead(n)'
  <1>q. PICK q : q = Head(queue)
    OBVIOUS
  <1>m. PICK m : m = q[1].msg
    OBVIOUS
  <1>s. PICK s : s = buf \o c2p
    OBVIOUS
  <1>v. PICK v : v = toServer
    OBVIOUS
  <1>w. PICK w : w = toServer'
    OBVIOUS
  <1>1. /\ Flow /\ QueueInv /\ StartupIsOver
        /\ v \in Seq(Cell) /\ Intact(v) /\ \A i \in 1..Len(v) : v[i].msg.id \in 1..Len(sent)
        /\ SentInv
    <2>1. Active /\ Started
      BY DEF Active, Started
    <2> QED BY <1>v, <2>1 DEF StreamInv, Flow
  <1>2. /\ queue \in Seq(Seq(Cell)) /\ Len(queue) \in Nat \ {0} /\ q = queue[1]
        /\ queue' \in Seq(Seq(Cell)) /\ Len(queue') = Len(queue) - 1
        /\ \A j \in 1..Len(queue) - 1 : queue'[j] = queue[j + 1]
    <2>1. queue \in Seq(Seq(Cell)) /\ Len(queue) > 0
      BY <1>1 DEF QueueInv
    <2>2. queue # <<>>
      BY <2>1
    <2> QED BY <1>q, <2>1, <2>2, TailFacts
  <1>3. /\ m \in Msg /\ m.size > 0 /\ q = Whole(m)
        /\ (m.kind = "startup") = (handler = "connecting")
        /\ m.id \in 1..Len(sent)
        /\ \A i \in 1..Len(v) : v[i].msg.id < m.id
        /\ \A i \in 1..Len(s) : m.id < s[i].msg.id
    <2>1. FrameIsSound(queue[1])
      BY <1>1, <1>2 DEF QueueInv
    <2> QED BY <1>m, <1>s, <1>v, <1>2, <2>1 DEF FrameIsSound
  <1>4. m.id \in Nat /\ m.size \in Nat /\ Len(sent) \in Nat
    BY <1>1, <1>3 DEF Msg, SentInv
  <1>5. /\ w \in Seq(Cell) /\ Intact(w) /\ w # <<>>
        /\ \A i \in 1..Len(w) : w[i].msg.id \in 1..Len(sent) /\ w[i].msg.id <= m.id
    <2>1. CASE w = v \o Whole(m)
      <3>1. (m.kind = "startup") = (v = <<>>)
        BY <1>v, <1>1, <1>3 DEF Flow
      <3>2. w \in Seq(Cell) /\ Intact(w)
        BY <1>1, <1>3, <2>1, <3>1, AppendWhole
      <3>3. /\ Whole(m) \in Seq(Cell) /\ Len(Whole(m)) = m.size
            /\ \A i \in 1..m.size : Whole(m)[i] = [msg |-> m, at |-> i]
        BY <1>3, MsgFacts, WholeFacts DEF Cell
      <3>w. PICK u : u = Whole(m)
        OBVIOUS
      <3>4. /\ Len(v) \in Nat /\ Len(w) = Len(v) + m.size
            /\ \A i \in 1..Len(v) : w[i] = v[i]
            /\ \A i \in Len(v) + 1..Len(v) + m.size : w[i] = u[i - Len(v)]
        BY <1>1, <2>1, <3>3, <3>w, ConcatFacts
      <3>5. w # <<>>
        BY <1>3, <1>4, <3>2, <3>4
      <3>6. ASSUME NEW i \in 1..Len(w)
            PROVE  w[i].msg.id \in 1..Len(sent) /\ w[i].msg.id <= m.id
        <4>1. CASE i \in 1..Len(v)
          <5>1. w[i] = v[i]
            BY <3>4, <4>1
          <5>2. v[i].msg.id \in 1..Len(sent) /\ v[i].msg.id < m.id
            BY <1>1, <1>3, <4>1
          <5> QED BY ONLY <1>4, <5>1, <5>2
        <4>2. CASE i \in Len(v) + 1..Len(v) + m.size
          <5>1. i - Len(v) \in 1..m.size
            BY <1>4, <3>4, <4>2
          <5>2. w[i] = u[i - Len(v)]
            BY <3>4, <4>2
          <5>3. u[i - Len(v)] = [msg |-> m, at |-> i - Len(v)]
            BY <3>3, <3>w, <5>1
          <5>4. w[i].msg = m
            BY <5>2, <5>3
          <5> QED BY <1>3, <1>4, <5>4
        <4> QED BY <1>4, <3>4, <4>1, <4>2
      <3> QED BY <3>2, <3>5, <3>6
    <2>2. CASE handler # "connecting" /\ w = v
      <3>1. v # <<>>
        BY <1>v, <1>1, <2>2 DEF Flow
      <3> QED BY <1>1, <1>3, <1>4, <2>2, <3>1
    <2> QED BY <1>q, <1>v, <1>w, <1>3, <2>1, <2>2
  <1>6. handler' \in {"read", "handle"}
    OBVIOUS
  <1>7. QueueInv'
    <2>1. ASSUME NEW j \in 1..Len(queue') PROVE FrameIsSound(queue[j])'
      <3>p. PICK p : p = queue[j + 1]
        OBVIOUS
      <3>0. j + 1 \in 1..Len(queue) /\ 1 \in 1..Len(queue) /\ 1 < j + 1 /\ j \in 1..Len(queue) - 1
        BY <1>2
      <3>1. FrameIsSound(p)
        BY <1>1, <3>p, <3>0 DEF QueueInv
      <3>2. m.id < p[1].msg.id
        BY <1>m, <1>1, <1>2, <3>p, <3>0 DEF QueueInv
      <3>3. handler # "connecting"
        BY <1>1, <1>2, <3>0 DEF QueueInv
      <3>4. /\ p[1].msg \in Msg /\ p[1].msg.size > 0 /\ p = Whole(p[1].msg)
            /\ p[1].msg.kind # "startup" /\ p[1].msg.id \in 1..Len(sent)
            /\ \A i \in 1..Len(s) : p[1].msg.id < s[i].msg.id
        BY <1>s, <3>1, <3>3 DEF FrameIsSound
      <3>5. \A i \in 1..Len(w) : w[i].msg.id < p[1].msg.id
        BY <1>4, <1>5, <3>2, <3>4
      <3>6. FrameIsSound(p)'
        BY <1>s, <1>w, <1>6, <3>4, <3>5 DEF FrameIsSound
      <3>7. p = queue'[j]
        BY <1>2, <3>p, <3>0
      <3> QED BY <3>6, <3>7
    <2>2. ASSUME NEW j \in 1..Len(queue'), NEW l \in 1..Len(queue'), j < l
          PROVE  queue'[j][1].msg.id < queue'[l][1].msg.id
      <3>1. /\ j + 1 \in 1..Len(queue) /\ l + 1 \in 1..Len(queue) /\ j + 1 < l + 1
            /\ j \in 1..Len(queue) - 1 /\ l \in 1..Len(queue) - 1
        BY <1>2, <2>2
      <3>2. queue[j + 1][1].msg.id < queue[l + 1][1].msg.id
        BY <1>1, <3>1 DEF QueueInv
      <3> QED BY <1>2, <3>1, <3>2
    <2>3. handler' = "handle" => Len(queue') > 0
      BY <1>2
    <2> QED BY <1>2, <1>6, <2>1, <2>2, <2>3 DEF QueueInv
  <1>8. Incoming(buf \o c2p)' /\ StartupIsOver'
    BY <1>1 DEF Flow, Incoming, StartupIsOver
  <1>9. ASSUME NEW i \in 1..Len(w), NEW j \in 1..Len(s) PROVE w[i].msg.id < s[j].msg.id
    <2>1. m.id < s[j].msg.id /\ w[i].msg.id <= m.id /\ w[i].msg.id \in Nat
      BY <1>3, <1>5
    <2>2. s \in Seq(Cell)
      BY <1>s, <1>1, ConcatType DEF Flow
    <2>3. s[j].msg.id \in Nat
      BY <2>2, MsgFacts, CellFacts DEF Cell
    <2> QED BY <1>4, <2>1, <2>3
  <1>10. Flow'
    BY <1>s, <1>w, <1>1, <1>5, <1>6, <1>7, <1>8, <1>9 DEF Flow
  <1>11. \A n \in 1..Len(sent) : Ahead(n) \/ n = m.id => Ahead(n)'
    <2> SUFFICES ASSUME NEW n \in 1..Len(sent), Ahead(n) \/ n = m.id PROVE Ahead(n)'
      OBVIOUS
    <2>1. \A j \in 1..Len(s) : n < s[j].msg.id
      BY <1>s, <1>3 DEF Ahead
    <2>2. ASSUME NEW l \in 1..Len(queue') PROVE n < queue'[l][1].msg.id
      <3>1. /\ l + 1 \in 1..Len(queue) /\ 1 \in 1..Len(queue) /\ 1 < l + 1
            /\ queue'[l] = queue[l + 1]
        BY <1>2
      <3>2. queue[1][1].msg.id < queue[l + 1][1].msg.id
        BY <1>1, <3>1 DEF QueueInv
      <3>3. Ahead(n) => n < queue[l + 1][1].msg.id
        BY <3>1 DEF Ahead, Started
      <3> QED BY <1>m, <1>2, <3>1, <3>2, <3>3
    <2> QED BY <1>s, <2>1, <2>2 DEF Ahead
  <1>12. KeepsAhead /\ Ahead(m.id)'
    BY <1>3, <1>11 DEF KeepsAhead
  <1>13. StreamInv'
    BY <1>w, <1>1, <1>5, <1>10 DEF StreamInv, SentInv
  <1> QED BY <1>q, <1>m, <1>12, <1>13

\* What the framer makes of the bytes it has and a chunk.
LEMMA ChunkIsCut ==
  ASSUME StreamInv, handler = "read", NEW s, s = buf \o c2p, NEW chunk \in Chunks(c2p),
         NEW bytes, bytes = buf \o chunk, NEW rest, rest = Drop(c2p, Len(chunk))
  PROVE  /\ bytes \in Seq(Cell) /\ Len(bytes) \in Nat /\ Len(s) \in Nat /\ Len(bytes) <= Len(s)
         /\ \A i \in 1..Len(bytes) : s[i] = bytes[i]
         /\ \E k \in 0..Len(bytes) : Cut(bytes, k, Push(bytes, PgHeader, MaxMessage), PgHeader,
                                         MaxMessage, Msg, Full)
  <1>1. /\ buf \in Seq(Cell) /\ c2p \in Seq(Cell) /\ s \in Seq(Cell) /\ Incoming(s)
    <2>1. Flow
      BY DEF StreamInv, Active, Started
    <2>2. buf \in Seq(Cell) /\ c2p \in Seq(Cell)
      BY <2>1 DEF Flow
    <2>3. s \in Seq(Cell)
      BY <2>2, ConcatType
    <2> QED BY <2>1, <2>2, <2>3 DEF Flow
  <1>2. /\ bytes \in Seq(Cell) /\ rest \in Seq(Cell) /\ bytes \o rest = s
    <2>1. ReadOff(buf, c2p, chunk, bytes, rest)
      BY DEF ReadOff, Chunks
    <2>2. bytes \in Seq(Cell) /\ rest \in Seq(Cell) /\ bytes \o rest = buf \o c2p
      <3>1. buf \in Seq(Cell) /\ c2p \in Seq(Cell)
        BY <1>1
      <3>2. SplitsInto(Cell, buf, c2p, chunk, bytes, rest)
        BY ONLY <2>1, <3>1, ReadSplitsInto
      <3> QED BY ONLY <3>2 DEF SplitsInto
    <2> QED BY ONLY <2>2, s = buf \o c2p
  <1>3. /\ Len(bytes) \in Nat /\ Len(s) \in Nat /\ Len(bytes) <= Len(s)
        /\ \A i \in 1..Len(bytes) : s[i] = bytes[i]
    <2>1. /\ Len(bytes) \in Nat /\ Len(rest) \in Nat /\ Len(bytes \o rest) = Len(bytes) + Len(rest)
          /\ \A i \in 1..Len(bytes) : (bytes \o rest)[i] = bytes[i]
      BY <1>2, ConcatFacts
    <2> QED BY <1>2, <2>1
  <1>4. Stream(bytes, PgHeader, MaxMessage, Msg, Full)
    <2>1. Lined(s, Full) /\ Starts(s)
      BY <1>1 DEF Incoming, Orderly
    <2>2. Lined(bytes, Full) /\ Starts(bytes)
      <3>1. Lined(bytes \o rest, Full) /\ Starts(bytes \o rest)
        BY <1>2, <2>1
      <3> QED BY ONLY <1>2, <3>1, PrefixLined DEF Cell
    <2>3. \A m \in Msg : PgHeader <= m.size /\ m.size <= MaxMessage => m \in Full
      BY PgWireAssumption, WireAssumption DEF Msg, Full, Valid
    <2> QED BY <1>2, <2>2, <2>3, MsgFacts, PgWireAssumption, WireAssumption DEF Stream, Cell
  <1>5. \E k \in 0..Len(bytes) :
          Cut(bytes, k, Push(bytes, PgHeader, MaxMessage), PgHeader, MaxMessage, Msg, Full)
    BY <1>4, PushCuts
  <1> QED BY <1>2, <1>3, <1>5

\* The complete messages of a chunk are taken, what is left stays.
LEMMA ReadChunkStream ==
  ASSUME StreamInv, ReadChunk
  PROVE  /\ StreamInv' /\ (Active' => KeepsAhead)
         /\ UNCHANGED toClient \/ \E id : Speaks(id)
  <1>s. PICK s : s = buf \o c2p
    OBVIOUS
  <1>0. handler = "read" /\ UNCHANGED <<sent, toServer>>
    BY DEF ReadChunk
  <1>1. /\ Flow /\ buf \in Seq(Cell) /\ c2p \in Seq(Cell) /\ s \in Seq(Cell) /\ Incoming(s)
        /\ StartupIsOver /\ toServer # <<>>
    <2>1. Flow
      BY <1>0 DEF StreamInv, Active, Started
    <2>2. buf \in Seq(Cell) /\ c2p \in Seq(Cell)
      BY <2>1 DEF Flow
    <2>3. s \in Seq(Cell)
      BY <1>s, <2>2, ConcatType
    <2> QED BY <1>0, <1>s, <2>1, <2>2, <2>3 DEF Flow, Started
  <1>2. CASE handler' \in {"gather", "wait_client"}
    <2>1. ~Active'
      BY <1>2 DEF Active, Started
    <2>2. PICK chunk \in Chunks(c2p) :
            LET f == Push(buf \o chunk, PgHeader, MaxMessage)
            IN  ~f.ok /\ WriteClient(Whole(Answer(f.rest[1].msg.id, PgHeader, "proxy")))
      BY <1>2 DEF ReadChunk
    <2>b. PICK bytes : bytes = buf \o chunk
      OBVIOUS
    <2>r. PICK rest : rest = Drop(c2p, Len(chunk))
      OBVIOUS
    <2>f. PICK f : f = Push(bytes, PgHeader, MaxMessage)
      OBVIOUS
    <2>d. PICK id : id = f.rest[1].msg.id
      OBVIOUS
    <2>3. /\ bytes \in Seq(Cell) /\ Len(bytes) \in Nat /\ Len(s) \in Nat /\ Len(bytes) <= Len(s)
          /\ \A i \in 1..Len(bytes) : s[i] = bytes[i]
      BY <1>0, <1>s, <2>b, <2>r, ChunkIsCut
    <2>4. PICK k \in 0..Len(bytes) : Cut(bytes, k, f, PgHeader, MaxMessage, Msg, Full)
      BY <1>0, <1>s, <2>b, <2>r, <2>f, ChunkIsCut
    <2>5. f.rest = Drop(bytes, k) /\ f.rest # <<>>
      BY <2>2, <2>b, <2>f, <2>4 DEF Cut
    <2>6. k + 1 \in 1..Len(s) /\ f.rest[1] = s[k + 1]
      <3>1. /\ Drop(bytes, k) \in Seq(Cell) /\ Len(Drop(bytes, k)) = Len(bytes) - k
            /\ \A i \in 1..Len(bytes) - k : Drop(bytes, k)[i] = bytes[i + k]
        BY <2>3, DropFacts
      <3>2. Len(bytes) - k # 0
        BY <2>5, <3>1, EmptySeq
      <3>3. 1 \in 1..Len(bytes) - k /\ k + 1 \in 1..Len(bytes) /\ 1 + k = k + 1
        BY <2>3, <3>2
      <3> QED BY <2>3, <2>5, <3>1, <3>3
    <2>7. id \in 1..Len(sent) /\ \A i \in 1..Len(toServer) : toServer[i].msg.id < id
      BY <1>s, <1>1, <2>d, <2>6 DEF Incoming, Flow
    <2>8. \E n \in Nat \ {0} : WriteClient(Whole(Answer(id, n, "proxy")))
      BY <2>2, <2>b, <2>f, <2>d, PgWireAssumption
    <2>9. Speaks(id)
      BY <2>1, <2>7, <2>8 DEF Speaks
    <2> QED BY <1>0, <2>1, <2>9, StreamEnds
  <1>3. CASE handler' \notin {"gather", "wait_client"}
    <2>1. PICK chunk \in Chunks(c2p) :
            LET f == Push(buf \o chunk, PgHeader, MaxMessage)
            IN  /\ c2p' = Drop(c2p, Len(chunk)) /\ UNCHANGED toClient
                /\ f.ok /\ buf' = f.rest /\ queue' = f.out
                /\ handler' = IF f.out = <<>> THEN "read" ELSE "handle"
      BY <1>3 DEF ReadChunk, Teardown
    <2>b. PICK bytes : bytes = buf \o chunk
      OBVIOUS
    <2>r. PICK rest : rest = Drop(c2p, Len(chunk))
      OBVIOUS
    <2>f. PICK f : f = Push(bytes, PgHeader, MaxMessage)
      OBVIOUS
    <2>2. /\ bytes \in Seq(Cell) /\ Len(bytes) > 0
          /\ rest \in Seq(Cell) /\ bytes \o rest = s
      <3>1. ReadOff(buf, c2p, chunk, bytes, rest)
        BY <2>1, <2>b, <2>r DEF ReadOff, Chunks
      <3>2. buf \in Seq(Cell) /\ c2p \in Seq(Cell)
        BY <1>1
      <3>3. bytes \in Seq(Cell) /\ Len(bytes) > 0 /\ rest \in Seq(Cell) /\ bytes \o rest = buf \o c2p
        <4>1. SplitsInto(Cell, buf, c2p, chunk, bytes, rest)
          BY ONLY <3>1, <3>2, ReadSplitsInto
        <4> QED BY ONLY <4>1 DEF SplitsInto
      <3> QED BY <1>s, <3>3
    <2>3. /\ c2p' = rest /\ buf' = f.rest /\ queue' = f.out /\ UNCHANGED toClient
          /\ handler' = IF f.out = <<>> THEN "read" ELSE "handle"
      BY <2>1, <2>b, <2>r, <2>f
    <2>5. PICK k \in 0..Len(bytes) : Cut(bytes, k, f, PgHeader, MaxMessage, Msg, Full)
      BY <1>0, <1>s, <2>b, <2>r, <2>f, ChunkIsCut
    <2>o. PICK out : out = f.out
      OBVIOUS
    <2>t. PICK t : t = Drop(s, k)
      OBVIOUS
    <2>6. /\ out \in Seq(Seq(Cell)) /\ f.rest \in Seq(Cell) /\ f.rest = Drop(bytes, k)
          /\ EndsAt(bytes, k, Full) /\ Framed(bytes, k, out, PgHeader, MaxMessage, Full)
      BY <2>5, <2>o DEF Cut, Cell
    <2>7. /\ Len(bytes) \in Nat /\ Len(s) \in Nat /\ Len(bytes) <= Len(s) /\ k \in 0..Len(s)
          /\ \A i \in 1..Len(bytes) : s[i] = bytes[i]
      <3>1. /\ Len(bytes) \in Nat /\ Len(s) \in Nat /\ Len(bytes) <= Len(s)
            /\ \A i \in 1..Len(bytes) : s[i] = bytes[i]
        BY <1>0, <1>s, <2>b, <2>r, ChunkIsCut
      <3> QED BY <3>1
    <2>8. EndsAt(s, k, Full)
      <3>1. k > 0 => s[k] = bytes[k]
        BY <2>7
      <3> QED BY <2>6, <3>1 DEF EndsAt
    <2>9. /\ t \in Seq(Cell) /\ Incoming(t)
          /\ \A j \in 1..Len(t) : /\ j + k \in 1..Len(s) /\ t[j] = s[j + k]
                                  /\ \A i \in 1..k : s[i].msg.id < t[j].msg.id
      BY <1>1, <2>t, <2>7, <2>8, CutIncoming
    <2>10. buf' \o c2p' = t
      <3>1. Drop(bytes, k) \o rest = Drop(s, k)
        BY <2>2, DropConcat
      <3> QED BY <2>t, <2>3, <2>6, <3>1
    <2>11. ASSUME NEW j \in 1..Len(out)
           PROVE  \E i \in 1..k : /\ out[j] = Whole(s[i].msg) /\ out[j][1].msg = s[i].msg
                                  /\ s[i].msg \in Msg /\ s[i].msg.size > 0 /\ i \in 1..Len(s)
      <3>1. PICK i \in 1..k : /\ out[j] = Whole(bytes[i].msg) /\ bytes[i].msg \in Full
                              /\ bytes[i].msg.size >= PgHeader
        BY <2>6 DEF Framed
      <3>2. i \in 1..Len(bytes) /\ i \in 1..Len(s) /\ s[i] = bytes[i]
        BY <2>7
      <3>3. bytes[i].msg \in Msg
        BY <3>1 DEF Full
      <3>4. bytes[i].msg.size > 0
        BY <3>1, <3>3, PgWireAssumption DEF Msg
      <3>5. Whole(bytes[i].msg)[1].msg = bytes[i].msg
        BY <3>3, <3>4, MsgFacts, WholeFacts
      <3> QED BY <3>1, <3>2, <3>3, <3>4, <3>5
    <2>12. handler' \in {"read", "handle"}
      BY <2>3
    <2>13. StartupIsOver'
      <3>1. \A j \in 1..Len(t) : t[j].msg.kind \notin StartupKinds
        BY <1>s, <1>1, <2>9 DEF StartupIsOver
      <3>2. \E z \in 1..Len(sent) : sent[z].kind = "startup"
        BY <1>1 DEF StartupIsOver
      <3> QED BY <1>0, <2>10, <3>1, <3>2 DEF StartupIsOver
    <2>14. ASSUME NEW j \in 1..Len(out) PROVE FrameIsSound(out[j])'
      <3>q. PICK q : q = out[j]
        OBVIOUS
      <3>1. PICK i \in 1..k : /\ q = Whole(s[i].msg) /\ q[1].msg = s[i].msg
                              /\ s[i].msg \in Msg /\ s[i].msg.size > 0 /\ i \in 1..Len(s)
        BY <2>11, <3>q
      <3>2. q[1].msg.kind # "startup"
        BY <1>s, <1>1, <3>1 DEF StartupIsOver, StartupKinds
      <3>3. q[1].msg.id \in 1..Len(sent)
        BY <1>1, <3>1 DEF Incoming
      <3>4. \A z \in 1..Len(toServer) : toServer[z].msg.id < q[1].msg.id
        BY <1>s, <1>1, <3>1 DEF Flow
      <3>5. \A z \in 1..Len(t) : q[1].msg.id < t[z].msg.id
        BY <2>9, <3>1
      <3>6. FrameIsSound(q)'
        BY <1>0, <2>10, <2>12, <3>1, <3>2, <3>3, <3>4, <3>5 DEF FrameIsSound
      <3> QED BY <3>q, <3>6
    <2>15. QueueInv'
      <3>1. queue' = out
        BY <2>o, <2>3
      <3>2. handler' = "handle" => Len(out) > 0
        <4>1. handler' = "handle" => out # <<>>
          BY <2>o, <2>3
        <4> QED BY <2>6, <4>1
      <3>3. \A j, l \in 1..Len(out) : j < l => out[j][1].msg.id < out[l][1].msg.id
        BY <2>6 DEF Framed
      <3> QED BY <2>6, <2>12, <2>14, <3>1, <3>2, <3>3 DEF QueueInv
    <2>16. \A i \in 1..Len(toServer), j \in 1..Len(t) : toServer[i].msg.id < t[j].msg.id
      BY <1>s, <1>1, <2>9 DEF Flow
    <2>17. Incoming(buf \o c2p)'
      BY <1>0, <2>9, <2>10 DEF Incoming
    <2>18. buf' \in Seq(Cell) /\ c2p' \in Seq(Cell)
      BY <2>2, <2>3, <2>6
    <2>19. Flow'
      BY <1>0, <1>1, <2>10, <2>12, <2>13, <2>15, <2>16, <2>17, <2>18 DEF Flow
    <2>20. KeepsAhead
      <3> SUFFICES ASSUME NEW n \in 1..Len(sent), Ahead(n) PROVE Ahead(n)'
        BY DEF KeepsAhead
      <3>1. \A j \in 1..Len(s) : n < s[j].msg.id
        BY <1>s DEF Ahead
      <3>2. \A j \in 1..Len(t) : n < t[j].msg.id
        BY <2>9, <3>1
      <3>3. \A l \in 1..Len(out) : n < out[l][1].msg.id
        BY <2>11, <3>1
      <3> QED BY <2>o, <2>3, <2>10, <3>2, <3>3 DEF Ahead
    <2> QED BY <1>0, <2>3, <2>19, <2>20 DEF StreamInv, SentInv
  <1> QED BY <1>2, <1>3

\* Every step keeps the stream in order.
LEMMA StreamNext == StreamInv /\ [Next]_vars => StreamInv'
  <1> SUFFICES ASSUME StreamInv, [Next]_vars PROVE StreamInv'
    OBVIOUS
  <1>1. CASE \E k \in PgKinds : ClientSends(k)
    BY <1>1, ClientSendsStream
  <1>2. CASE ReadStartup
    BY <1>2, ReadStartupStream
  <1>3. CASE ReadChunk
    BY <1>3, ReadChunkStream
  <1>4. CASE Connected
    <2>1. /\ handler = "connecting" /\ queue' = <<>> /\ handler' = "read"
          /\ toServer' = toServer \o queue[1] /\ UNCHANGED <<sent, c2p, buf>>
      BY <1>4 DEF Connected, client
    <2>2. queue \in Seq(Seq(Cell)) /\ Len(queue) = 1
      BY <2>1 DEF StreamInv, Active, Started, Flow, QueueInv
    <2>3. Tail(queue) = <<>> /\ Head(queue) = queue[1]
      <3>1. queue # <<>>
        <4>1. queue = <<>> => Len(queue) = 0
          BY EmptySeq, Zenon
        <4> QED BY <2>2, <4>1
      <3>2. Tail(queue) \in Seq(Seq(Cell)) /\ Len(Tail(queue)) = Len(queue) - 1 /\ Head(queue) = queue[1]
        BY <2>2, <3>1, TailFacts
      <3>3. Len(Tail(queue)) = 0
        BY <2>2, <3>2
      <3> QED BY <3>2, <3>3, EmptySeq
    <2> QED BY <2>1, <2>2, <2>3, FrameDoneStream
  <1>5. CASE HandlePlain \/ Approved
    BY <1>5, FrameDoneStream DEF HandlePlain, Approved, NextFrame, ForwardFrame, client
  <1>6. CASE Refused
    BY <1>6, FrameDoneStream DEF Refused, NextFrame, client
  <1>7. CASE HandleQuery
    <2>1. /\ handler = "handle" /\ handler' = "decide"
          /\ UNCHANGED <<sent, toServer, c2p, buf, queue>>
      BY <1>7 DEF HandleQuery, client, frames
    <2>2. Flow'
      BY <2>1 DEF StreamInv, Active, Flow, Incoming, Started, StartupIsOver, QueueInv, FrameIsSound
    <2> QED BY <2>1, <2>2 DEF StreamInv, SentInv
  <1>8. CASE StartupWriteFails \/ ConnectFails \/ ReadEnds \/ WriteFails \/ ReadTimesOut \/ Gathered \/ SocketClosed
    <2>1. UNCHANGED <<sent, toServer>> /\ ~Active'
      BY <1>8 DEF StartupWriteFails, ConnectFails, ReadEnds, WriteFails, ReadTimesOut, Gathered, SocketClosed, CloseServer,
                  Teardown, Active, Started, client
    <2> QED BY <2>1, StreamEnds
  <1>9. CASE Shutdown
    <2>1. UNCHANGED <<sent, toServer>> /\ ~Active'
      BY <1>9 DEF Shutdown, CloseServer, Teardown, Active, Started, client
    <2> QED BY <2>1, StreamEnds
  <1>10. CASE \/ PipeStarts \/ PipeReads \/ PipeEnds \/ PipeTimesOut
              \/ ServerAnswers \/ PgClientLeaves \/ PgServerLeaves \/ UNCHANGED vars
    <2>1. UNCHANGED <<sent, toServer, c2p, buf, queue, handler>>
      BY <1>10 DEF PipeStarts, PipeReads, PipeEnds, PipeTimesOut, ServerAnswers, PgClientLeaves,
                   ClientLeaves, PgServerLeaves, vars, wire, client, frames
    <2> QED BY <2>1, StreamSame
  <1> QED BY <1>1, <1>2, <1>3, <1>4, <1>5, <1>6, <1>7, <1>8, <1>9, <1>10
          DEF Next, Handler, Pipe, Decided, Timeouts, Environment

\* Nothing is on its way at first.
LEMMA StreamInit == Init => StreamInv
  <1> SUFFICES ASSUME Init PROVE StreamInv
    OBVIOUS
  <1>1. /\ sent = <<>> /\ c2p = <<>> /\ buf = <<>> /\ toServer = <<>> /\ handler = "startup"
    BY DEF Init, InitWire
  <1>2. <<>> \in Seq(Cell) /\ <<>> \in Seq(Msg) /\ Len(<<>>) = 0
    OBVIOUS
  <1>3. buf \o c2p = <<>>
    BY <1>1
  <1>4. Incoming(<<>>)
    BY <1>2, MsgFacts DEF Incoming, Orderly, Lined, Starts, Closed, Cell
  <1>5. Flow
    BY <1>1, <1>2, <1>3, <1>4 DEF Flow, Started
  <1> QED BY <1>1, <1>2, <1>5 DEF StreamInv, SentInv, Intact

\* For every message size, header size and limit, and however the client's
\* bytes are cut into chunks: the server gets the startup message and then
\* whole messages, each once and in the order they were sent, whatever the
\* proxy refused in between and whenever the connection ended.
THEOREM ServerGetsWholeMessages == FairSpec => []ServerStreamIntact
  <1>1. Init => StreamInv
    BY StreamInit
  <1>2. StreamInv /\ [Next]_vars => StreamInv'
    BY StreamNext
  <1>3. StreamInv => ServerStreamIntact
    BY DEF StreamInv, Intact, ServerStreamIntact
  <1> QED BY <1>1, <1>2, <1>3, PTL DEF FairSpec

-----------------------------------------------------------------------------
(***************************************************************************)
(* The stream to the client.  Two tasks write to it.  What the backend     *)
(* task has written and can still read is one stream of whole answers, the *)
(* later ones to later messages; what the handler writes answers a message *)
(* that is never forwarded.  So when all that a client had sent before     *)
(* this message was answered to the end, no answer of the server is half   *)
(* written.                                                                *)
(***************************************************************************)
Ans == [id : Nat, size : Nat, from : {"server", "proxy"}]
ACell == Cells(Ans)

\* The server has dealt with whole messages.
ServedInv ==
  /\ Orderly(toServer, Msg, Msg)
  /\ served \in 0..Len(toServer) /\ EndsAt(toServer, served, Msg)

ServedIds == {toServer[i].msg.id : i \in 1..served}

\* h are the server's bytes among those of s, p their places.
Picks(s, h, p) ==
  /\ p \in [1..Len(h) -> 1..Len(s)]
  /\ \A k, l \in 1..Len(h) : k < l => p[k] < p[l]
  /\ \A k \in 1..Len(h) : h[k] = s[p[k]] /\ h[k].msg.from = "server"
  /\ \A i \in 1..Len(s) : s[i].msg.from = "server" => \E k \in 1..Len(h) : p[k] = i

FromServer(s, h) == \E p : Picks(s, h, p)

\* The server's bytes h in front of those on their way.
Heard(h) ==
  /\ FromServer(toClient, h) /\ Lined(h, Ans) /\ Starts(h)
  /\ \A i \in 1..Len(h) : h[i].msg.id \in ServedIds
  /\ clientSock = "open" => Orderly(h \o b2p, Ans, Ans)

RelayInv ==
  /\ toClient \in Seq(ACell) /\ b2p \in Seq(ACell)
  /\ \A i \in 1..Len(b2p) : b2p[i].msg.from = "server" /\ b2p[i].msg.id \in ServedIds
  /\ \E h \in Seq(ACell) : Heard(h)

\* A message the proxy has answered was not forwarded and will not be; its
\* answer is not in the middle of another one if the client had waited.
ProxyInv ==
  \A i \in 1..Len(toClient) :
    toClient[i].msg.from = "proxy" =>
      LET id == toClient[i].msg.id
      IN  /\ id \in 1..Len(sent) /\ (sent[id].quiet => FitsAt(toClient, i))
          /\ \A j \in 1..Len(toServer) : toServer[j].msg.id # id
          /\ Active => Ahead(id)

\* The proxy's answers are written in one piece.
LastInv ==
  toClient # <<>> /\ toClient[Len(toClient)].msg.from = "proxy" =>
    toClient[Len(toClient)].at = toClient[Len(toClient)].msg.size

\* Everything sent before a quiet message is answered.
QuietInv ==
  \A i \in 1..Len(sent) : sent[i].quiet => \A j \in 1..i - 1 : AnsweredIn(toClient, j)

\* Answers are such as the facts about streams ask for.
LEMMA AnsFacts == Messages(Ans) /\ Ans \in SUBSET Ans
  BY DEF Messages, Ans

\* The frame the handler works on.
LEMMA HeadFacts ==
  ASSUME StreamInv, handler \in {"connecting", "handle", "decide"}
  PROVE  /\ queue[1] = Head(queue) /\ 1 \in 1..Len(queue)
         /\ \E m \in Msg : /\ Head(queue) = Whole(m) /\ m.size > 0 /\ Head(queue)[1].msg = m
                           /\ m.id \in 1..Len(sent)
                           /\ \A i \in 1..Len(toServer) : toServer[i].msg.id < m.id
  <1>1. QueueInv
    BY DEF StreamInv, Flow, Active, Started
  <1>2. queue \in Seq(Seq(Cell)) /\ Len(queue) > 0
    BY <1>1 DEF QueueInv
  <1>3. queue # <<>> /\ 1 \in 1..Len(queue)
    BY <1>2
  <1>4. Head(queue) = queue[1]
    BY <1>2, <1>3, TailFacts
  <1>5. FrameIsSound(queue[1])
    BY <1>1, <1>3 DEF QueueInv
  <1> QED BY <1>3, <1>4, <1>5 DEF FrameIsSound

\* What a step can do to the streams: nothing, forward a frame, answer
\* instead of the server, or let the server's bytes move on.
Idle == UNCHANGED <<toServer, toClient, served, b2p>>

Forwards ==
  /\ handler \in {"connecting", "handle", "decide"}
  /\ toServer' = toServer \o Head(queue) /\ UNCHANGED <<sent, toClient, served, b2p>>

Replies == (\E id : Speaks(id)) /\ UNCHANGED <<sent, toServer, served, b2p>>

Streams ==
  /\ clientSock' = "open" => clientSock = "open"
  /\ Active' => Active /\ KeepsAhead
  /\ UNCHANGED sent \/ (Idle /\ \E k \in PgKinds : ClientSends(k))
  /\ Idle \/ Forwards \/ Replies \/ ServerAnswers \/ PipeReads

\* Nothing else happens to them.
LEMMA StepStreams == ASSUME StreamInv, [Next]_vars PROVE Streams
  <1>1. CASE \E k \in PgKinds : ClientSends(k)
    <2>1. PICK k \in PgKinds : ClientSends(k)
      BY <1>1
    <2>2. UNCHANGED <<clientSock, handler>> /\ Idle
      BY <2>1 DEF ClientSends, server, sockets, Idle
    <2>3. Active => KeepsAhead
      BY <2>1, ClientSendsStream
    <2> QED BY <1>1, <2>2, <2>3 DEF Streams, Active, Started
  <1>2. CASE ReadStartup
    <2>1. (Active' => KeepsAhead) /\ (UNCHANGED toClient \/ \E id : Speaks(id))
      BY <1>2, ReadStartupStream
    <2>2. handler = "startup" /\ UNCHANGED <<sent, toServer, served, b2p>>
      BY <1>2 DEF ReadStartup, server
    <2>3. clientSock' = "open" => clientSock = "open"
      BY <1>2 DEF ReadStartup, Teardown
    <2> QED BY <2>1, <2>2, <2>3 DEF Streams, Active, Idle, Replies
  <1>3. CASE ReadChunk
    <2>1. (Active' => KeepsAhead) /\ (UNCHANGED toClient \/ \E id : Speaks(id))
      BY <1>3, ReadChunkStream
    <2>2. handler = "read" /\ UNCHANGED <<sent, toServer, served, b2p>>
      BY <1>3 DEF ReadChunk, server
    <2>3. clientSock' = "open" => clientSock = "open"
      BY <1>3 DEF ReadChunk, Teardown
    <2> QED BY <2>1, <2>2, <2>3 DEF Streams, Active, Started, Idle, Replies
  <1>4. CASE Connected
    <2>1. /\ handler = "connecting" /\ queue' = <<>> /\ handler' = "read" /\ UNCHANGED clientSock
          /\ toServer' = toServer \o queue[1] /\ UNCHANGED <<sent, c2p, buf, toClient, served, b2p>>
      BY <1>4 DEF Connected, client, server
    <2>2. queue[1] = Head(queue)
      BY <2>1, HeadFacts
    <2>3. KeepsAhead
      <3>1. Len(queue') = 0
        BY <2>1
      <3>2. \A l \in 1..Len(queue') : FALSE
        BY <3>1
      <3> QED BY <2>1, <3>2 DEF KeepsAhead, Ahead
    <2> QED BY <2>1, <2>2, <2>3 DEF Streams, Active, Started, Forwards
  <1>5. CASE HandlePlain \/ Approved
    <2>1. /\ handler \in {"handle", "decide"} /\ NextFrame /\ toServer' = toServer \o Head(queue)
          /\ UNCHANGED <<sent, c2p, buf, toClient, served, b2p, clientSock>>
      BY <1>5 DEF HandlePlain, Approved, ForwardFrame, client, server, sockets
    <2>2. KeepsAhead
      BY <2>1, FrameDoneStream DEF NextFrame
    <2> QED BY <2>1, <2>2 DEF Streams, Active, Started, Forwards
  <1>6. CASE Refused
    <2>1. /\ handler = "decide" /\ NextFrame
          /\ WriteClient(Whole(Answer(Head(queue)[1].msg.id, PgHeader, "proxy")))
          /\ UNCHANGED <<sent, c2p, buf, toServer, served, b2p, clientSock>>
      BY <1>6 DEF Refused, client, server, sockets
    <2>d. PICK id : id = Head(queue)[1].msg.id
      OBVIOUS
    <2>2. KeepsAhead /\ Ahead(id)'
      BY <2>1, <2>d, FrameDoneStream DEF NextFrame
    <2>3. id \in 1..Len(sent) /\ \A i \in 1..Len(toServer) : toServer[i].msg.id < id
      BY <2>1, <2>d, HeadFacts
    <2>4. Speaks(id)
      BY <2>1, <2>d, <2>2, <2>3, PgWireAssumption DEF Speaks
    <2> QED BY <2>1, <2>2, <2>4 DEF Streams, Active, Started, Replies
  <1>7. CASE HandleQuery
    BY <1>7 DEF HandleQuery, client, server, sockets, frames, Streams, Active, Started, KeepsAhead,
                Ahead, Idle
  <1>8. CASE StartupWriteFails \/ ConnectFails \/ ReadEnds \/ WriteFails \/ ReadTimesOut \/ Gathered \/ SocketClosed
    <2>1. Idle /\ UNCHANGED sent /\ ~Active' /\ (clientSock' = "open" => clientSock = "open")
      BY <1>8 DEF StartupWriteFails, ConnectFails, ReadEnds, WriteFails, ReadTimesOut, Gathered, SocketClosed, CloseServer,
                  Teardown, Active, Started, client, server, Idle
    <2> QED BY <2>1 DEF Streams
  <1>9. CASE Shutdown
    <2>1. Idle /\ UNCHANGED sent /\ ~Active' /\ (clientSock' = "open" => clientSock = "open")
      BY <1>9 DEF Shutdown, CloseServer, Teardown, Active, Started, client, server, sockets, Idle
    <2> QED BY <2>1 DEF Streams
  <1>10. CASE \/ PipeStarts \/ PipeReads \/ PipeEnds \/ PipeTimesOut
              \/ ServerAnswers \/ PgClientLeaves \/ PgServerLeaves \/ UNCHANGED vars
    <2>1. UNCHANGED <<sent, c2p, buf, queue, handler>> /\ (clientSock' = "open" => clientSock = "open")
      BY <1>10 DEF PipeStarts, PipeReads, PipeEnds, PipeTimesOut, EndPipe, ServerAnswers, PgClientLeaves,
                   ClientLeaves, PgServerLeaves, vars, wire, client, frames, sockets
    <2>2. Idle \/ ServerAnswers \/ PipeReads
      BY <1>10 DEF PipeStarts, PipeEnds, PipeTimesOut, PgClientLeaves, PgServerLeaves, ServerLeaves, vars,
                   wire, server, Idle
    <2> QED BY <2>1, <2>2 DEF Streams, Active, Started, KeepsAhead, Ahead
  <1> QED BY <1>1, <1>2, <1>3, <1>4, <1>5, <1>6, <1>7, <1>8, <1>9, <1>10
          DEF Next, Handler, Pipe, Decided, Timeouts, Environment

\* The message the server can read next is a whole one, later than all it
\* has dealt with.
LEMMA UnservedFacts ==
  ASSUME ServedInv, NEW m, Unserved # <<>>, m = Unserved[1].msg
  PROVE  /\ m \in Msg /\ served + m.size \in 0..Len(toServer) /\ served + 1 \in 1..served + m.size
         /\ toServer[served + 1].msg = m /\ EndsAt(toServer, served + m.size, Msg)
         /\ \A n \in ServedIds : n < m.id
  <1>u. PICK u : u = Unserved
    OBVIOUS
  <1>1. /\ Orderly(u, Msg, Msg) /\ Len(u) = Len(toServer) - served
        /\ \A j \in 1..Len(u) : /\ j + served \in 1..Len(toServer) /\ u[j] = toServer[j + served]
                                /\ \A i \in 1..served : toServer[i].msg.id < u[j].msg.id
    BY <1>u, CutStream DEF ServedInv, Unserved
  <1>2. u \in Seq(Cells(Msg)) /\ u # <<>> /\ toServer \in Seq(Cells(Msg))
    BY <1>u, <1>1 DEF Orderly, ServedInv
  <1>3. Len(u) \in Nat /\ Len(u) > 0 /\ 1 \in 1..Len(u) /\ Len(toServer) \in Nat
    BY <1>2
  <1>4. m \in Msg /\ m.size \in 1..Len(u) /\ EndsAt(u, m.size, Msg)
    <2>1. u[1].msg \in Msg /\ u[1].msg.size \in 1..Len(u) /\ EndsAt(u, u[1].msg.size, Msg)
      BY <1>1, <1>3, FirstIsWhole
    <2> QED BY <1>u, <2>1
  <1>5. /\ served \in Nat /\ m.size \in Nat /\ m.size > 0
        /\ served + m.size \in 0..Len(toServer) /\ served + 1 \in 1..served + m.size
    BY <1>1, <1>3, <1>4 DEF ServedInv
  <1>6. u[m.size] = toServer[served + m.size] /\ u[1] = toServer[served + 1]
    <2>1. m.size + served = served + m.size /\ 1 + served = served + 1
      BY <1>5
    <2> QED BY <1>1, <1>3, <1>4, <2>1
  <1>7. EndsAt(toServer, served + m.size, Msg)
    BY <1>4, <1>5, <1>6 DEF EndsAt
  <1> QED BY <1>u, <1>1, <1>3, <1>4, <1>5, <1>6, <1>7 DEF ServedIds

\* The server deals with whole messages, and what is forwarded comes behind.
LEMMA ServedNext ==
  ASSUME StreamInv, ServedInv, Streams
  PROVE  ServedInv' /\ ServedIds \subseteq ServedIds'
  <1>1. CASE UNCHANGED <<toServer, served>>
    BY <1>1 DEF ServedInv, ServedIds
  <1>2. CASE Forwards
    <2>1. PICK m \in Msg : /\ Head(queue) = Whole(m) /\ m.size > 0
                           /\ \A i \in 1..Len(toServer) : toServer[i].msg.id < m.id
      BY <1>2, HeadFacts DEF Forwards
    <2>n. PICK n : n = m.size
      OBVIOUS
    <2>2. toServer' = toServer \o Bytes(m, n) /\ UNCHANGED served /\ n \in Nat
      BY <1>2, <2>1, <2>n DEF Forwards, Whole, Msg
    <2>3. Sendable(toServer, m, n, Msg) /\ Orderly(toServer, Msg, Msg)
      BY <2>1, <2>n DEF Sendable, ServedInv
    <2>4. Orderly(toServer \o Bytes(m, n), Msg, Msg)
      BY <2>2, <2>3, SendLined
    <2>5. toServer \in Seq(Cells(Msg)) /\ Bytes(m, n) \in Seq(Cells(Msg))
      BY <2>2, <2>3 DEF Orderly, Bytes, Cells
    <2>b. PICK b : b = Bytes(m, n)
      OBVIOUS
    <2>6. /\ Len(toServer') = Len(toServer) + Len(b) /\ Len(toServer) \in Nat /\ Len(b) \in Nat
          /\ \A i \in 1..Len(toServer) : toServer'[i] = toServer[i]
      BY <2>b, <2>2, <2>5, ConcatFacts
    <2>7. /\ served' \in 0..Len(toServer') /\ \A i \in 1..served : toServer'[i] = toServer[i]
      BY <2>2, <2>6 DEF ServedInv
    <2>8. EndsAt(toServer, served, Msg)'
      BY <2>2, <2>7 DEF ServedInv, EndsAt
    <2> QED BY <2>2, <2>4, <2>7, <2>8 DEF ServedInv, ServedIds
  <1>3. CASE ServerAnswers
    <2>m. PICK m : m = Unserved[1].msg
      OBVIOUS
    <2>1. Unserved # <<>> /\ served' = served + m.size /\ UNCHANGED toServer
      BY <1>3, <2>m DEF ServerAnswers, ServerHas, Serve
    <2>2. /\ m \in Msg /\ served + m.size \in 0..Len(toServer) /\ EndsAt(toServer, served + m.size, Msg)
      BY <2>m, <2>1, UnservedFacts
    <2>3. 1..served \subseteq 1..served + m.size
      <3>1. served \in Nat /\ m.size \in Nat
        BY <2>2 DEF ServedInv, Msg
      <3> QED BY <3>1
    <2> QED BY <2>1, <2>2, <2>3 DEF ServedInv, ServedIds
  <1>4. CASE Idle \/ Replies \/ PipeReads
    BY <1>1, <1>4 DEF Idle, Replies, PipeReads
  <1> QED BY <1>2, <1>3, <1>4 DEF Streams

\* Bytes of the server behind both.
LEMMA PicksMore ==
  ASSUME NEW s \in Seq(ACell), NEW h \in Seq(ACell), NEW c \in Seq(ACell), FromServer(s, h),
         \A i \in 1..Len(c) : c[i].msg.from = "server"
  PROVE  FromServer(s \o c, h \o c)
  <1>t. PICK t : t = s \o c
    OBVIOUS
  <1>g. PICK g : g = h \o c
    OBVIOUS
  <1>1. PICK p : Picks(s, h, p)
    BY DEF FromServer
  <1>2. /\ Len(s) \in Nat /\ Len(c) \in Nat /\ Len(t) = Len(s) + Len(c)
        /\ \A i \in 1..Len(s) : t[i] = s[i]
        /\ \A i \in Len(s) + 1..Len(s) + Len(c) : t[i] = c[i - Len(s)]
    BY <1>t, ConcatFacts
  <1>3. /\ Len(h) \in Nat /\ Len(g) = Len(h) + Len(c)
        /\ \A i \in 1..Len(h) : g[i] = h[i]
        /\ \A i \in Len(h) + 1..Len(h) + Len(c) : g[i] = c[i - Len(h)]
    BY <1>g, ConcatFacts
  <1>4. /\ p \in [1..Len(h) -> 1..Len(s)]
        /\ \A k, l \in 1..Len(h) : k < l => p[k] < p[l]
        /\ \A k \in 1..Len(h) : h[k] = s[p[k]] /\ h[k].msg.from = "server"
        /\ \A i \in 1..Len(s) : s[i].msg.from = "server" => \E k \in 1..Len(h) : p[k] = i
    BY <1>1 DEF Picks
  <1>q. PICK q : q = [k \in 1..Len(g) |-> IF k <= Len(h) THEN p[k] ELSE Len(s) + (k - Len(h))]
    OBVIOUS
  <1>5. /\ \A k \in 1..Len(h) : k \in 1..Len(g) /\ q[k] = p[k] /\ p[k] \in 1..Len(s)
        /\ \A k \in Len(h) + 1..Len(h) + Len(c) :
             /\ k \in 1..Len(g) /\ q[k] = Len(s) + (k - Len(h))
             /\ k - Len(h) \in 1..Len(c) /\ q[k] \in Len(s) + 1..Len(s) + Len(c)
             /\ q[k] - Len(s) = k - Len(h)
        /\ \A k \in 1..Len(g) : k \in 1..Len(h) \/ k \in Len(h) + 1..Len(h) + Len(c)
    <2>1. \A k \in 1..Len(g) : q[k] = IF k <= Len(h) THEN p[k] ELSE Len(s) + (k - Len(h))
      BY <1>q
    <2>2. ASSUME NEW k \in 1..Len(h) PROVE k \in 1..Len(g) /\ q[k] = p[k] /\ p[k] \in 1..Len(s)
      <3>1. k \in 1..Len(g) /\ k <= Len(h)
        BY <1>2, <1>3
      <3> QED BY <1>4, <2>1, <3>1
    <2>3. ASSUME NEW k \in Len(h) + 1..Len(h) + Len(c)
          PROVE  /\ k \in 1..Len(g) /\ q[k] = Len(s) + (k - Len(h))
                 /\ k - Len(h) \in 1..Len(c) /\ q[k] \in Len(s) + 1..Len(s) + Len(c)
                 /\ q[k] - Len(s) = k - Len(h)
      <3>1. k \in 1..Len(g) /\ ~(k <= Len(h))
        BY <1>2, <1>3
      <3>2. q[k] = Len(s) + (k - Len(h))
        BY <2>1, <3>1
      <3> QED BY <1>2, <1>3, <3>1, <3>2
    <2>4. \A k \in 1..Len(g) : k \in 1..Len(h) \/ k \in Len(h) + 1..Len(h) + Len(c)
      BY <1>2, <1>3
    <2> QED BY <2>2, <2>3, <2>4
  <1>6. q \in [1..Len(g) -> 1..Len(t)]
    <2>1. \A k \in 1..Len(g) : q[k] \in 1..Len(t)
      BY <1>2, <1>3, <1>5
    <2> QED BY <1>q, <2>1
  <1>7. \A k, l \in 1..Len(g) : k < l => q[k] < q[l]
    <2> SUFFICES ASSUME NEW k \in 1..Len(g), NEW l \in 1..Len(g), k < l PROVE q[k] < q[l]
      OBVIOUS
    <2>1. CASE l \in 1..Len(h)
      <3>1. k \in 1..Len(h)
        BY <1>3, <2>1
      <3> QED BY <1>4, <1>5, <2>1, <3>1
    <2>2. CASE k \in 1..Len(h) /\ l \in Len(h) + 1..Len(h) + Len(c)
      <3>1. q[k] \in 1..Len(s) /\ q[l] \in Len(s) + 1..Len(s) + Len(c)
        BY <1>5, <2>2
      <3> QED BY <1>2, <3>1
    <2>3. CASE k \in Len(h) + 1..Len(h) + Len(c) /\ l \in Len(h) + 1..Len(h) + Len(c)
      <3>1. q[k] = Len(s) + (k - Len(h)) /\ q[l] = Len(s) + (l - Len(h))
        BY <1>5, <2>3
      <3> QED BY <1>2, <1>3, <3>1
    <2> QED BY <1>5, <2>1, <2>2, <2>3
  <1>8. ASSUME NEW k \in 1..Len(g) PROVE g[k] = t[q[k]] /\ g[k].msg.from = "server"
    <2>1. CASE k \in 1..Len(h)
      <3>1. g[k] = h[k] /\ h[k] = s[p[k]] /\ h[k].msg.from = "server"
        BY <1>3, <1>4, <2>1
      <3>2. q[k] = p[k] /\ p[k] \in 1..Len(s)
        BY <1>5, <2>1
      <3>3. t[p[k]] = s[p[k]]
        BY <1>2, <3>2
      <3> QED BY <3>1, <3>2, <3>3
    <2>2. CASE k \in Len(h) + 1..Len(h) + Len(c)
      <3>1. g[k] = c[k - Len(h)] /\ k - Len(h) \in 1..Len(c)
        BY <1>3, <1>5, <2>2
      <3>2. t[q[k]] = c[k - Len(h)]
        BY <1>2, <1>5, <2>2
      <3> QED BY <3>1, <3>2
    <2> QED BY <1>5, <2>1, <2>2
  <1>9. ASSUME NEW i \in 1..Len(t), t[i].msg.from = "server" PROVE \E k \in 1..Len(g) : q[k] = i
    <2>1. CASE i \in 1..Len(s)
      <3>1. PICK k \in 1..Len(h) : p[k] = i
        BY <1>2, <1>4, <1>9, <2>1
      <3> QED BY <1>5, <3>1
    <2>2. CASE i \in Len(s) + 1..Len(s) + Len(c)
      <3>1. Len(h) + (i - Len(s)) \in Len(h) + 1..Len(h) + Len(c)
        BY <1>2, <1>3, <2>2
      <3>k. PICK k : k = Len(h) + (i - Len(s))
        OBVIOUS
      <3>2. q[k] = Len(s) + (k - Len(h)) /\ k \in 1..Len(g)
        BY <1>5, <3>k, <3>1
      <3>3. Len(s) + (k - Len(h)) = i
        BY <1>2, <1>3, <2>2, <3>k
      <3> QED BY <3>2, <3>3
    <2> QED BY <1>2, <2>1, <2>2
  <1>10. Picks(t, g, q)
    BY <1>6, <1>7, <1>8, <1>9 DEF Picks
  <1> QED BY <1>t, <1>g, <1>10 DEF FromServer

\* Bytes of the proxy behind them.
LEMMA PicksSame ==
  ASSUME NEW s \in Seq(ACell), NEW h \in Seq(ACell), NEW c \in Seq(ACell), FromServer(s, h),
         \A i \in 1..Len(c) : c[i].msg.from # "server"
  PROVE  FromServer(s \o c, h)
  <1>t. PICK t : t = s \o c
    OBVIOUS
  <1>1. PICK p : Picks(s, h, p)
    BY DEF FromServer
  <1>2. /\ Len(s) \in Nat /\ Len(c) \in Nat /\ Len(t) = Len(s) + Len(c)
        /\ \A i \in 1..Len(s) : t[i] = s[i]
        /\ \A i \in Len(s) + 1..Len(s) + Len(c) : t[i] = c[i - Len(s)]
    BY <1>t, ConcatFacts
  <1>4. /\ p \in [1..Len(h) -> 1..Len(s)]
        /\ \A k, l \in 1..Len(h) : k < l => p[k] < p[l]
        /\ \A k \in 1..Len(h) : h[k] = s[p[k]] /\ h[k].msg.from = "server"
        /\ \A i \in 1..Len(s) : s[i].msg.from = "server" => \E k \in 1..Len(h) : p[k] = i
    BY <1>1 DEF Picks
  <1>5. p \in [1..Len(h) -> 1..Len(t)]
    BY <1>2, <1>4
  <1>6. \A k \in 1..Len(h) : h[k] = t[p[k]]
    BY <1>2, <1>4
  <1>7. ASSUME NEW i \in 1..Len(t), t[i].msg.from = "server" PROVE i \in 1..Len(s) /\ t[i] = s[i]
    <2>1. CASE i \in Len(s) + 1..Len(s) + Len(c)
      <3>1. i - Len(s) \in 1..Len(c) /\ t[i] = c[i - Len(s)]
        BY <1>2, <2>1
      <3> QED BY <1>7, <3>1
    <2> QED BY <1>2, <2>1
  <1>8. Picks(t, h, p)
    BY <1>4, <1>5, <1>6, <1>7 DEF Picks
  <1> QED BY <1>t, <1>8 DEF FromServer

\* The bytes of an answer.
LEMMA AnswerFacts ==
  ASSUME NEW a \in Ans
  PROVE  /\ Whole(a) = Bytes(a, a.size) /\ Whole(a) \in Seq(ACell) /\ Len(Whole(a)) = a.size
         /\ \A i \in 1..a.size : /\ Whole(a)[i] = [msg |-> a, at |-> i]
                                 /\ Whole(a)[i].msg = a /\ Whole(a)[i].at = i
  <1>1. a.size \in Nat
    BY DEF Ans
  <1>2. Whole(a) = [j \in 1..a.size |-> [msg |-> a, at |-> j]]
    BY DEF Whole, Bytes
  <1>3. \A j \in 1..a.size : [msg |-> a, at |-> j] \in ACell
    BY <1>1 DEF ACell, Cells
  <1>4. /\ Whole(a) \in Seq(ACell) /\ Len(Whole(a)) = a.size
        /\ \A j \in 1..a.size : Whole(a)[j] = [msg |-> a, at |-> j]
    BY <1>1, <1>2, <1>3
  <1> QED BY <1>4 DEF Whole

\* The parts of an answer.
LEMMA AnswerParts ==
  ASSUME NEW id \in Nat, NEW n \in Nat, NEW from \in {"server", "proxy"}
  PROVE  /\ Answer(id, n, from) \in Ans /\ Answer(id, n, from).id = id
         /\ Answer(id, n, from).size = n /\ Answer(id, n, from).from = from
  BY DEF Answer, Ans

\* Only the server's bytes, in line, are relayed.
LEMMA RelayNext ==
  ASSUME StreamInv, ServedInv, RelayInv, Streams
  PROVE  RelayInv'
  <1>0. ServedInv' /\ ServedIds \subseteq ServedIds'
    BY ServedNext
  <1>1. PICK h \in Seq(ACell) : Heard(h)
    BY DEF RelayInv
  <1>2. /\ FromServer(toClient, h) /\ Lined(h, Ans) /\ Starts(h)
        /\ \A i \in 1..Len(h) : h[i].msg.id \in ServedIds'
        /\ clientSock = "open" => Orderly(h \o b2p, Ans, Ans)
        /\ toClient \in Seq(ACell) /\ b2p \in Seq(ACell)
        /\ \A i \in 1..Len(b2p) : b2p[i].msg.from = "server" /\ b2p[i].msg.id \in ServedIds'
        /\ clientSock' = "open" => clientSock = "open"
    BY <1>0, <1>1 DEF RelayInv, Heard, Streams
  <1>3. CASE UNCHANGED <<toClient, b2p>>
    BY <1>2, <1>3 DEF RelayInv, Heard
  <1>4. CASE Replies
    <2>1. PICK id : Speaks(id)
      BY <1>4 DEF Replies
    <2>2. PICK n \in Nat \ {0} : WriteClient(Whole(Answer(id, n, "proxy")))
      BY <2>1 DEF Speaks
    <2>a. PICK a : a = Answer(id, n, "proxy")
      OBVIOUS
    <2>w. PICK w : w = Whole(a)
      OBVIOUS
    <2>3. id \in Nat /\ n \in Nat
      BY <2>1 DEF Speaks, StreamInv, SentInv
    <2>4. w \in Seq(ACell) /\ \A i \in 1..Len(w) : w[i].msg.from = "proxy"
      <3>1. a \in Ans /\ a.from = "proxy"
        BY <2>a, <2>3, AnswerParts
      <3>2. w \in Seq(ACell) /\ Len(w) = a.size /\ \A i \in 1..a.size : w[i].msg = a
        BY <2>w, <3>1, AnswerFacts
      <3> QED BY <3>1, <3>2
    <2>5. CASE toClient' = toClient \o w
      <3>1. FromServer(toClient \o w, h)
        BY <1>2, <2>4, PicksSame
      <3>2. toClient' \in Seq(ACell)
        BY <1>2, <2>4, <2>5, ConcatType
      <3> QED BY <1>2, <1>4, <2>5, <3>1, <3>2 DEF Replies, RelayInv, Heard
    <2>6. toClient' = toClient \o w \/ UNCHANGED toClient
      BY <2>2, <2>a, <2>w DEF WriteClient
    <2> QED BY <1>3, <1>4, <2>5, <2>6 DEF Replies
  <1>5. CASE ServerAnswers
    <2>m. PICK m : m = Unserved[1].msg
      OBVIOUS
    <2>1. PICK size \in PgAnswers :
            /\ Unserved # <<>> /\ served' = served + m.size
            /\ b2p' = b2p \o Whole(Answer(m.id, size, "server")) /\ UNCHANGED <<toServer, toClient>>
      BY <1>5, <2>m DEF ServerAnswers, ServerHas, Serve
    <2>2. /\ m \in Msg /\ served + 1 \in 1..served + m.size /\ toServer[served + 1].msg = m
          /\ \A n \in ServedIds : n < m.id
      BY <2>m, <2>1, UnservedFacts
    <2>3. m.id \in Nat /\ size \in Nat
      BY <2>2, PgWireAssumption DEF Msg
    <2>4. m.id \in ServedIds'
      BY <2>1, <2>2 DEF ServedIds
    <2>a. PICK a : a = Answer(m.id, size, "server")
      OBVIOUS
    <2>w. PICK w : w = Whole(a)
      OBVIOUS
    <2>5. /\ w = Bytes(a, size) /\ a \in Ans /\ a.id = m.id /\ a.size = size /\ w \in Seq(ACell)
          /\ \A i \in 1..Len(w) : w[i].msg.id = m.id /\ w[i].msg.from = "server"
      <3>1. a \in Ans /\ a.id = m.id /\ a.size = size /\ a.from = "server"
        BY <2>a, <2>3, AnswerParts
      <3>2. /\ w = Bytes(a, a.size) /\ w \in Seq(ACell) /\ Len(w) = a.size
            /\ \A i \in 1..a.size : w[i].msg = a
        BY <2>w, <3>1, AnswerFacts
      <3> QED BY <3>1, <3>2
    <2>b. PICK b : b = b2p \o w
      OBVIOUS
    <2>6. /\ b \in Seq(ACell) /\ b2p' = b
          /\ \A i \in 1..Len(b) : b[i].msg.from = "server" /\ b[i].msg.id \in ServedIds'
      <3>1. /\ b \in Seq(ACell) /\ Len(b2p) \in Nat /\ Len(w) \in Nat /\ Len(b) = Len(b2p) + Len(w)
            /\ \A i \in 1..Len(b2p) : b[i] = b2p[i]
            /\ \A i \in Len(b2p) + 1..Len(b2p) + Len(w) : b[i] = w[i - Len(b2p)]
        BY <1>2, <2>5, <2>b, ConcatFacts
      <3>2. ASSUME NEW i \in 1..Len(b)
            PROVE  b[i].msg.from = "server" /\ b[i].msg.id \in ServedIds'
        <4>1. CASE i \in 1..Len(b2p)
          BY <1>2, <3>1, <4>1
        <4>2. CASE i \in Len(b2p) + 1..Len(b2p) + Len(w)
          <5>1. i - Len(b2p) \in 1..Len(w) /\ b[i] = w[i - Len(b2p)]
            BY <3>1, <4>2
          <5> QED BY <2>4, <2>5, <5>1
        <4> QED BY <3>1, <4>1, <4>2
      <3> QED BY <2>1, <2>a, <2>w, <2>b, <3>1, <3>2
    <2>7. ASSUME clientSock = "open" PROVE Orderly(h \o b, Ans, Ans)
      <3>s. PICK s : s = h \o b2p
        OBVIOUS
      <3>1. /\ Len(s) = Len(h) + Len(b2p) /\ Len(h) \in Nat /\ Len(b2p) \in Nat
            /\ \A i \in 1..Len(h) : s[i] = h[i]
            /\ \A i \in Len(h) + 1..Len(h) + Len(b2p) : s[i] = b2p[i - Len(h)]
        BY <1>2, <3>s, ConcatFacts
      <3>2. ASSUME NEW i \in 1..Len(s) PROVE s[i].msg.id < a.id
        <4>1. \A k \in 1..Len(h) : h[k].msg.id \in ServedIds
          BY <1>1 DEF Heard
        <4>2. \A k \in 1..Len(b2p) : b2p[k].msg.id \in ServedIds
          BY DEF RelayInv
        <4>3. CASE i \in 1..Len(h)
          BY <2>2, <2>5, <3>1, <4>1, <4>3
        <4>4. CASE i \in Len(h) + 1..Len(h) + Len(b2p)
          <5>1. i - Len(h) \in 1..Len(b2p) /\ s[i] = b2p[i - Len(h)]
            BY <3>1, <4>4
          <5> QED BY <2>2, <2>5, <4>2, <5>1
        <4> QED BY <3>1, <4>3, <4>4
      <3>3. Orderly(s, Ans, Ans) /\ Sendable(s, a, size, Ans)
        BY <1>2, <2>5, <2>7, <3>s, <3>2 DEF Sendable
      <3>4. Orderly(s \o Bytes(a, size), Ans, Ans)
        BY <2>3, <2>5, <3>3, SendLined
      <3>5. (h \o b2p) \o w = h \o (b2p \o w)
        BY <1>2, <2>5, ConcatAssoc
      <3> QED BY <2>b, <2>5, <3>s, <3>4, <3>5
    <2>8. UNCHANGED clientSock
      BY <1>5 DEF ServerAnswers, sockets
    <2>9. Heard(h)'
      BY <1>2, <2>1, <2>6, <2>7, <2>8 DEF Heard
    <2> QED BY <1>2, <2>1, <2>6, <2>9 DEF RelayInv
  <1>6. CASE PipeReads
    <2>1. PICK chunk \in Chunks(b2p) :
            /\ b2p' = Drop(b2p, Len(chunk))
            /\ \/ WriteClient(chunk) /\ UNCHANGED clientSock
               \/ UNCHANGED toClient /\ clientSock' = "closed"
      BY <1>6 DEF PipeReads, EndPipe, Relayed
    <2>c. PICK c : c = chunk
      OBVIOUS
    <2>d. PICK d : d = Drop(b2p, Len(c))
      OBVIOUS
    <2>p. PICK p : p = h \o c
      OBVIOUS
    <2>2. /\ c \in Seq(ACell) /\ p \in Seq(ACell) /\ Len(p) > 0 /\ d \in Seq(ACell)
          /\ p \o d = h \o b2p
      <3>1. ReadOff(h, b2p, c, p, d)
        BY <2>1, <2>c, <2>d, <2>p DEF ReadOff, Chunks
      <3>2. h \in Seq(ACell) /\ b2p \in Seq(ACell)
        BY <1>2
      <3>3. SplitsInto(ACell, h, b2p, c, p, d)
        BY ONLY <3>1, <3>2, ReadSplitsInto
      <3> QED BY ONLY <3>3 DEF SplitsInto
    <2>3. /\ Len(c) \in 0..Len(b2p) /\ \A i \in 1..Len(c) : i \in 1..Len(b2p) /\ c[i] = b2p[i]
      <3>1. PICK n \in 1..Len(b2p) : c = SubSeq(b2p, 1, n)
        BY <2>c DEF Chunks
      <3> QED BY <1>2, <3>1
    <2>4. \A i \in 1..Len(d) : i + Len(c) \in 1..Len(b2p) /\ d[i] = b2p[i + Len(c)]
      <3>1. Len(d) = Len(b2p) - Len(c) /\ \A i \in 1..Len(b2p) - Len(c) : d[i] = b2p[i + Len(c)]
        BY <1>2, <2>d, <2>3, DropFacts
      <3> QED BY <1>2, <2>3, <3>1
    <2>5. /\ b2p' = d /\ \A i \in 1..Len(d) : d[i].msg.from = "server" /\ d[i].msg.id \in ServedIds'
      BY <1>2, <2>1, <2>c, <2>d, <2>4
    <2>6. CASE clientSock = "open" /\ toClient' = toClient \o c
      <3>1. FromServer(toClient \o c, p)
        BY <1>2, <2>p, <2>2, <2>3, PicksMore
      <3>2. Orderly(p \o d, Ans, Ans)
        BY <1>2, <2>2, <2>6
      <3>3. Lined(p, Ans) /\ Starts(p)
        <4>1. Lined(p \o d, Ans) /\ Starts(p \o d)
          BY <3>2 DEF Orderly
        <4> QED BY <2>2, <4>1, PrefixLined DEF ACell
      <3>4. \A i \in 1..Len(p) : p[i].msg.id \in ServedIds'
        <4>1. /\ Len(h) \in Nat /\ Len(c) \in Nat /\ Len(p) = Len(h) + Len(c)
              /\ \A i \in 1..Len(h) : p[i] = h[i]
              /\ \A i \in Len(h) + 1..Len(h) + Len(c) : p[i] = c[i - Len(h)]
          BY <2>p, <2>2, ConcatFacts
        <4>2. ASSUME NEW i \in 1..Len(p) PROVE p[i].msg.id \in ServedIds'
          <5>1. CASE i \in 1..Len(h)
            BY <1>2, <4>1, <5>1
          <5>2. CASE i \in Len(h) + 1..Len(h) + Len(c)
            <6>1. i - Len(h) \in 1..Len(c) /\ p[i] = c[i - Len(h)]
              BY <4>1, <5>2
            <6> QED BY <1>2, <2>3, <6>1
          <5> QED BY <4>1, <5>1, <5>2
        <4> QED BY <4>2
      <3>5. Heard(p)'
        BY <2>5, <2>6, <3>1, <3>2, <3>3, <3>4 DEF Heard
      <3>6. toClient' \in Seq(ACell)
        BY <1>2, <2>2, <2>6, ConcatType
      <3> QED BY <2>2, <2>5, <3>5, <3>6 DEF RelayInv
    <2>7. CASE UNCHANGED toClient /\ clientSock' # "open"
      <3>1. Heard(h)'
        BY <1>2, <2>7 DEF Heard
      <3> QED BY <1>2, <2>2, <2>5, <2>7, <3>1 DEF RelayInv
    <2> QED BY <2>1, <2>c, <2>6, <2>7 DEF WriteClient
  <1> QED BY <1>3, <1>4, <1>5, <1>6 DEF Streams, Idle, Forwards

\* How a step writes to the client: an answer of the proxy, or bytes from the
\* server.
Writes(w) ==
  /\ w \in Seq(ACell) /\ w # <<>> /\ toClient' = toClient \o w
  /\ \/ \A i \in 1..Len(w) : w[i].msg.from = "server"
     \/ \E a \in Ans : w = Whole(a) /\ a.size > 0 /\ Speaks(a.id) /\ Replies

\* Every step writes so, or not at all.
LEMMA StepWrites ==
  ASSUME StreamInv, RelayInv, Streams
  PROVE  UNCHANGED toClient \/ \E w : Writes(w)
  <1>1. CASE Replies
    <2>1. PICK id : Speaks(id)
      BY <1>1 DEF Replies
    <2>2. PICK n \in Nat \ {0} : WriteClient(Whole(Answer(id, n, "proxy")))
      BY <2>1 DEF Speaks
    <2>a. PICK a : a = Answer(id, n, "proxy")
      OBVIOUS
    <2>w. PICK w : w = Whole(a)
      OBVIOUS
    <2>3. id \in Nat /\ n \in Nat /\ n > 0
      BY <2>1 DEF Speaks, StreamInv, SentInv
    <2>4. a \in Ans /\ a.id = id /\ a.size = n
      BY <2>a, <2>3, AnswerParts
    <2>5. w \in Seq(ACell) /\ Len(w) = a.size
      BY <2>w, <2>4, AnswerFacts
    <2>6. w # <<>>
      BY <2>3, <2>4, <2>5
    <2>7. \E b \in Ans : w = Whole(b) /\ b.size > 0 /\ Speaks(b.id) /\ Replies
      BY <1>1, <2>w, <2>1, <2>3, <2>4
    <2>8. toClient' = toClient \o w \/ UNCHANGED toClient
      BY <2>2, <2>a, <2>w DEF WriteClient
    <2> QED BY <2>5, <2>6, <2>7, <2>8 DEF Writes
  <1>2. CASE PipeReads
    <2>1. PICK chunk \in Chunks(b2p) : WriteClient(chunk) \/ UNCHANGED toClient
      BY <1>2 DEF PipeReads, Relayed
    <2>2. PICK n \in 1..Len(b2p) : chunk = SubSeq(b2p, 1, n)
      BY DEF Chunks
    <2>3. b2p \in Seq(ACell) /\ \A i \in 1..Len(b2p) : b2p[i].msg.from = "server"
      BY DEF RelayInv
    <2>4. /\ chunk \in Seq(ACell) /\ Len(chunk) = n
          /\ \A i \in 1..n : i \in 1..Len(b2p) /\ chunk[i] = b2p[i]
      BY <2>2, <2>3
    <2>5. chunk # <<>> /\ \A i \in 1..Len(chunk) : chunk[i].msg.from = "server"
      BY <2>3, <2>4
    <2>6. toClient' = toClient \o chunk \/ UNCHANGED toClient
      BY <2>1 DEF WriteClient
    <2> QED BY <2>4, <2>5, <2>6 DEF Writes
  <1>3. CASE Idle \/ Forwards \/ ServerAnswers
    BY <1>3 DEF Idle, Forwards, ServerAnswers
  <1> QED BY <1>1, <1>2, <1>3 DEF Streams

\* What was written stays.
LEMMA WrittenStays ==
  ASSUME StreamInv, RelayInv, Streams
  PROVE  /\ Len(toClient) \in Nat /\ Len(toClient') \in Nat /\ Len(toClient) <= Len(toClient')
         /\ \A i \in 1..Len(toClient) : toClient'[i] = toClient[i]
  <1>1. toClient \in Seq(ACell) /\ Len(toClient) \in Nat
    BY DEF RelayInv
  <1>2. ASSUME NEW w, Writes(w) PROVE /\ Len(toClient') \in Nat /\ Len(toClient) <= Len(toClient')
                                      /\ \A i \in 1..Len(toClient) : toClient'[i] = toClient[i]
    <2>1. w \in Seq(ACell) /\ toClient' = toClient \o w
      BY <1>2 DEF Writes
    <2>2. /\ Len(toClient \o w) = Len(toClient) + Len(w) /\ Len(w) \in Nat
          /\ \A i \in 1..Len(toClient) : (toClient \o w)[i] = toClient[i]
      BY <1>1, <2>1, ConcatFacts
    <2> QED BY <1>1, <2>1, <2>2
  <1> QED BY <1>1, <1>2, StepWrites

\* An answer stays an answer, and a client is quiet only when all is answered.
LEMMA QuietNext ==
  ASSUME StreamInv, RelayInv, QuietInv, Streams
  PROVE  QuietInv'
  <1>1. ASSUME NEW j, AnsweredIn(toClient, j) PROVE AnsweredIn(toClient', j)
    <2>1. PICK i \in 1..Len(toClient) : toClient[i].msg.id = j /\ toClient[i].at = toClient[i].msg.size
      BY <1>1 DEF AnsweredIn
    <2>2. i \in 1..Len(toClient') /\ toClient'[i] = toClient[i]
      BY WrittenStays
    <2> QED BY <2>1, <2>2 DEF AnsweredIn
  <1>2. CASE UNCHANGED sent
    BY <1>1, <1>2 DEF QuietInv
  <1>3. CASE \E k \in PgKinds : ClientSends(k)
    <2>1. PICK k \in PgKinds : ClientSends(k)
      BY <1>3
    <2>m. PICK m : m = [id |-> Len(sent) + 1, kind |-> k, size |-> PgSizes[k], quiet |-> AllAnswered]
      OBVIOUS
    <2>2. sent' = Append(sent, m) /\ m.quiet = AllAnswered
      BY <2>1, <2>m DEF ClientSends, Send
    <2>3. sent \in Seq(Msg) /\ Len(sent) \in Nat
      BY DEF StreamInv, SentInv
    <2>4. m \in Msg
      <3>1. m.quiet \in BOOLEAN
        BY <2>2 DEF AllAnswered
      <3>2. PgSizes[k] \in Nat /\ Len(sent) + 1 \in Nat
        BY <2>3, PgWireAssumption
      <3>3. AllAnswered \in BOOLEAN
        BY DEF AllAnswered
      <3> QED BY <2>m, <3>2, <3>3 DEF Msg
    <2>5. /\ Len(sent') = Len(sent) + 1 /\ sent'[Len(sent) + 1] = m
          /\ \A i \in 1..Len(sent) : sent'[i] = sent[i]
      BY <2>2, <2>3, <2>4, AppendFacts
    <2>6. ASSUME NEW i \in 1..Len(sent'), sent'[i].quiet, NEW j \in 1..i - 1
          PROVE  AnsweredIn(toClient, j)
      <3>1. CASE i \in 1..Len(sent)
        <4>1. sent[i].quiet
          BY <2>5, <2>6, <3>1
        <4> QED BY <3>1, <4>1 DEF QuietInv
      <3>2. CASE i = Len(sent) + 1
        <4>1. AllAnswered
          BY <2>2, <2>5, <2>6, <3>2
        <4>2. j \in 1..Len(sent)
          BY <2>3, <3>2
        <4> QED BY <4>1, <4>2 DEF AllAnswered
      <3> QED BY <2>3, <2>5, <3>1, <3>2
    <2> QED BY <1>1, <2>6 DEF QuietInv
  <1> QED BY <1>2, <1>3 DEF Streams

\* When a quiet client's message is answered by the proxy, the last answer is
\* written to its end.
LEMMA LastIsWhole ==
  ASSUME RelayInv, ProxyInv, LastInv, QuietInv, NEW id \in 1..Len(sent), sent[id].quiet,
         \A i \in 1..Len(toServer) : toServer[i].msg.id < id, ServedInv, toClient # <<>>,
         StreamInv
  PROVE  toClient[Len(toClient)].at = toClient[Len(toClient)].msg.size
  <1>n. PICK n : n = Len(toClient)
    OBVIOUS
  <1>1. toClient \in Seq(ACell) /\ n \in Nat /\ n \in 1..Len(toClient)
    BY <1>n DEF RelayInv
  <1>c. PICK c : c = toClient[n]
    OBVIOUS
  <1>2. c.msg \in Ans /\ c.msg.from \in {"server", "proxy"}
    <2>1. c.msg \in Ans
      BY <1>1, <1>c, AnsFacts, CellFacts DEF ACell
    <2> QED BY <2>1 DEF Ans
  <1>3. CASE c.msg.from = "proxy"
    BY <1>n, <1>c, <1>3 DEF LastInv
  <1>4. CASE c.msg.from = "server"
    <2>1. PICK h \in Seq(ACell) : Heard(h)
      BY DEF RelayInv
    <2>2. PICK p : Picks(toClient, h, p)
      BY <2>1 DEF Heard, FromServer
    <2>3. PICK l \in 1..Len(h) : p[l] = n
      BY <1>c, <1>1, <1>4, <2>2 DEF Picks
    <2>4. Len(h) \in Nat /\ \A k \in 1..Len(h) : p[k] \in 1..n /\ h[k] = toClient[p[k]]
      BY <1>n, <2>2 DEF Picks
    <2>5. l = Len(h)
      <3>1. \A k \in 1..Len(h) : l < k => n < p[k]
        BY <2>2, <2>3 DEF Picks
      <3>2. Len(h) \in 1..Len(h)
        BY <2>4
      <3> QED BY <1>1, <2>4, <3>1, <3>2
    <2>6. h[l] = c
      BY <1>c, <2>3, <2>4
    <2>j. PICK j : j = c.msg.id
      OBVIOUS
    <2>7. PICK z \in 1..served : toServer[z].msg.id = j
      BY <2>j, <2>1, <2>6 DEF Heard, ServedIds
    <2>8. z \in 1..Len(toServer)
      BY DEF ServedInv, Orderly
    <2>9. j \in 1..id - 1
      <3>1. toServer[z].msg.id \in 1..Len(sent)
        BY <2>8 DEF StreamInv
      <3>2. toServer[z].msg.id < id /\ Len(sent) \in Nat
        BY <2>8 DEF StreamInv, SentInv
      <3> QED BY <2>7, <3>1, <3>2
    <2>10. PICK y \in 1..Len(toClient) : toClient[y].msg.id = j /\ toClient[y].at = toClient[y].msg.size
      BY <2>9 DEF QuietInv, AnsweredIn
    <2>11. toClient[y].msg.from = "server"
      <3>1. toClient[y].msg.from # "proxy"
        BY <2>7, <2>8, <2>10 DEF ProxyInv
      <3>2. toClient[y].msg \in Ans
        BY <1>1, AnsFacts, CellFacts DEF ACell
      <3> QED BY <3>1, <3>2 DEF Ans
    <2>12. PICK k \in 1..Len(h) : p[k] = y
      BY <2>2, <2>11 DEF Picks
    <2>13. h[k].msg.id = j /\ h[k].at = h[k].msg.size /\ h[k].msg \in Ans
      <3>1. h[k].msg \in Ans
        BY AnsFacts, CellFacts DEF ACell
      <3> QED BY <2>4, <2>10, <2>12, <3>1
    <2>14. CASE k = l
      BY <1>n, <1>c, <2>6, <2>13, <2>14
    <2>15. CASE k # l
      <3>1. k \in 1..Len(h) - 1 /\ l \in k + 1..Len(h) /\ k \in 1..k
        BY <2>4, <2>5, <2>15
      <3>2. EndsAt(h, k, Ans)
        BY <2>13 DEF EndsAt
      <3>3. Lined(h, Ans)
        BY <2>1 DEF Heard
      <3>4. h \in Seq(Cells(Ans))
        BY DEF ACell
      <3>5. \A x \in 1..k, v \in k + 1..Len(h) : h[x].msg.id < h[v].msg.id
        BY ONLY <3>1, <3>2, <3>3, <3>4, AnsFacts, BehindAnEnd
      <3>6. h[k].msg.id < h[l].msg.id
        BY <3>1, <3>5
      <3>7. j \in Nat
        BY <2>9
      <3> QED BY <2>j, <2>6, <2>13, <3>6, <3>7
    <2> QED BY <2>14, <2>15
  <1> QED BY <1>2, <1>3, <1>4

\* The places of what is written.
LEMMA WritesFacts ==
  ASSUME RelayInv, NEW w, Writes(w)
  PROVE  /\ Len(toClient) \in Nat /\ Len(w) \in Nat \ {0} /\ Len(toClient') = Len(toClient) + Len(w)
         /\ \A i \in 1..Len(toClient) : toClient'[i] = toClient[i]
         /\ \A i \in 1..Len(w) : toClient'[Len(toClient) + i] = w[i]
         /\ \A i \in 1..Len(toClient') :
              i \in 1..Len(toClient) \/ \E j \in 1..Len(w) : i = Len(toClient) + j
  <1>1. toClient \in Seq(ACell) /\ w \in Seq(ACell) /\ w # <<>> /\ toClient' = toClient \o w
    BY DEF RelayInv, Writes
  <1>2. /\ Len(toClient) \in Nat /\ Len(w) \in Nat /\ Len(toClient \o w) = Len(toClient) + Len(w)
        /\ \A i \in 1..Len(toClient) : (toClient \o w)[i] = toClient[i]
        /\ \A i \in Len(toClient) + 1..Len(toClient) + Len(w) : (toClient \o w)[i] = w[i - Len(toClient)]
    BY <1>1, ConcatFacts
  <1>3. Len(w) # 0
    BY <1>1, EmptySeq
  <1>4. ASSUME NEW i \in 1..Len(w) PROVE toClient'[Len(toClient) + i] = w[i]
    <2>1. Len(toClient) + i \in Len(toClient) + 1..Len(toClient) + Len(w) /\ (Len(toClient) + i) - Len(toClient) = i
      BY <1>2
    <2> QED BY <1>1, <1>2, <2>1
  <1>5. ASSUME NEW i \in 1..Len(toClient'), i \notin 1..Len(toClient)
        PROVE  \E j \in 1..Len(w) : i = Len(toClient) + j
    <2>1. i - Len(toClient) \in 1..Len(w) /\ i = Len(toClient) + (i - Len(toClient))
      BY <1>1, <1>2, <1>5
    <2> QED BY <2>1
  <1> QED BY <1>1, <1>2, <1>3, <1>4, <1>5

\* The proxy's answers are written in one piece.
LEMMA LastNext ==
  ASSUME StreamInv, RelayInv, LastInv, Streams
  PROVE  LastInv'
  <1>1. CASE UNCHANGED toClient
    BY <1>1 DEF LastInv
  <1>2. ASSUME NEW w, Writes(w) PROVE LastInv'
    <2>1. /\ Len(toClient) \in Nat /\ Len(w) \in Nat \ {0} /\ Len(toClient') = Len(toClient) + Len(w)
          /\ \A i \in 1..Len(w) : toClient'[Len(toClient) + i] = w[i]
      BY <1>2, WritesFacts
    <2>2. Len(w) \in 1..Len(w) /\ toClient'[Len(toClient')] = w[Len(w)]
      BY <2>1
    <2>3. w[Len(w)].msg.from = "server" \/ w[Len(w)].at = w[Len(w)].msg.size
      <3>1. CASE \A i \in 1..Len(w) : w[i].msg.from = "server"
        BY <2>2, <3>1
      <3>2. ASSUME NEW a \in Ans, w = Whole(a) PROVE w[Len(w)].at = w[Len(w)].msg.size
        <4>1. /\ Len(w) = a.size /\ \A i \in 1..a.size : w[i].msg = a /\ w[i].at = i
          BY <3>2, AnswerFacts
        <4> QED BY <2>2, <4>1
      <3> QED BY <1>2, <3>1, <3>2 DEF Writes
    <2> QED BY <2>2, <2>3 DEF LastInv
  <1> QED BY <1>1, <1>2, StepWrites

\* An answer of the proxy to a quiet client fits in.
LEMMA AnswerFits ==
  ASSUME StreamInv, ServedInv, RelayInv, ProxyInv, LastInv, QuietInv, NEW w, Writes(w),
         NEW a \in Ans, w = Whole(a), Speaks(a.id), sent[a.id].quiet, NEW j \in 1..Len(w)
  PROVE  FitsAt(toClient', Len(toClient) + j)
  <1>1. /\ Len(toClient) \in Nat /\ Len(w) \in Nat \ {0} /\ Len(toClient') = Len(toClient) + Len(w)
        /\ \A i \in 1..Len(toClient) : toClient'[i] = toClient[i]
        /\ \A i \in 1..Len(w) : toClient'[Len(toClient) + i] = w[i]
    BY WritesFacts
  <1>2. /\ Len(w) = a.size /\ \A i \in 1..a.size : w[i].at = i /\ w[i] = [msg |-> a, at |-> i]
    BY AnswerFacts
  <1>n. PICK n : n = Len(toClient) + j
    OBVIOUS
  <1>3. toClient'[n] = [msg |-> a, at |-> j] /\ toClient'[n].at = j /\ n \in Nat /\ j \in Nat \ {0}
    BY <1>n, <1>1, <1>2
  <1>4. CASE j = 1 /\ Len(toClient) = 0
    <2>1. n = 1 /\ toClient'[n].at = 1
      BY <1>n, <1>3, <1>4
    <2> QED BY <1>n, <2>1 DEF FitsAt
  <1>5. CASE j = 1 /\ Len(toClient) > 0
    <2>1. n - 1 = Len(toClient) /\ n - 1 \in 1..Len(toClient) /\ toClient # <<>>
      BY <1>n, <1>1, <1>5
    <2>2. toClient[Len(toClient)].at = toClient[Len(toClient)].msg.size
      <3>1. a.id \in 1..Len(sent) /\ \A i \in 1..Len(toServer) : toServer[i].msg.id < a.id
        BY DEF Speaks
      <3> QED BY <2>1, <3>1, LastIsWhole
    <2>3. toClient'[n - 1].at = toClient'[n - 1].msg.size
      BY <1>1, <2>1, <2>2
    <2> QED BY <1>n, <1>3, <1>5, <2>3 DEF FitsAt
  <1>6. CASE j > 1
    <2>1. j - 1 \in 1..Len(w) /\ n - 1 = Len(toClient) + (j - 1) /\ n > 1
      BY <1>n, <1>1, <1>3, <1>6
    <2>2. toClient'[n - 1] = [msg |-> a, at |-> j - 1]
      BY <1>1, <1>2, <2>1
    <2>3. toClient'[n - 1] = [toClient'[n] EXCEPT !.at = @ - 1]
      BY <1>3, <2>2
    <2> QED BY <1>n, <1>3, <1>6, <2>1, <2>3 DEF FitsAt
  <1> QED BY <1>1, <1>3, <1>4, <1>5, <1>6

\* Messages the proxy answered are not forwarded.
LEMMA ProxyNext ==
  ASSUME StreamInv, ServedInv, RelayInv, ProxyInv, LastInv, QuietInv, Streams
  PROVE  ProxyInv'
  <1>1. /\ Len(sent) \in Nat /\ Len(sent') \in Nat /\ Len(sent) <= Len(sent')
        /\ \A i \in 1..Len(sent) : i \in 1..Len(sent') /\ sent'[i] = sent[i]
    <2>0. sent \in Seq(Msg) /\ Len(sent) \in Nat
      BY DEF StreamInv, SentInv
    <2>1. CASE UNCHANGED sent
      BY <2>0, <2>1
    <2>2. ASSUME NEW k \in PgKinds, ClientSends(k)
          PROVE  /\ Len(sent') \in Nat /\ Len(sent) <= Len(sent')
                 /\ \A i \in 1..Len(sent) : i \in 1..Len(sent') /\ sent'[i] = sent[i]
      <3>1. PICK m : sent' = Append(sent, m)
        BY <2>2 DEF ClientSends, Send
      <3> QED BY <2>0, <3>1
    <2> QED BY <2>0, <2>1, <2>2 DEF Streams
  <1>2. /\ Len(toClient) \in Nat /\ Len(toClient') \in Nat /\ Len(toClient) <= Len(toClient')
        /\ \A i \in 1..Len(toClient) : toClient'[i] = toClient[i]
    BY WrittenStays
  <1> DEFINE Good(i) == toClient'[i].msg.from = "proxy" =>
               /\ toClient'[i].msg.id \in 1..Len(sent')
               /\ sent'[toClient'[i].msg.id].quiet => FitsAt(toClient', i)
               /\ \A j \in 1..Len(toServer') : toServer'[j].msg.id # toClient'[i].msg.id
               /\ Active' => \A n : n = toClient'[i].msg.id => Ahead(n)'
  <1>3. ASSUME NEW i \in 1..Len(toClient) PROVE Good(i)
    <2> SUFFICES ASSUME toClient[i].msg.from = "proxy" PROVE Good(i)
      BY <1>2
    <2>d. PICK id : id = toClient[i].msg.id
      OBVIOUS
    <2>1. /\ id \in 1..Len(sent) /\ (sent[id].quiet => FitsAt(toClient, i))
          /\ \A j \in 1..Len(toServer) : toServer[j].msg.id # id
          /\ Active => Ahead(id)
      BY <2>d DEF ProxyInv
    <2>2. sent[id].quiet => FitsAt(toClient', i)
      <3>1. i > 1 => i - 1 \in 1..Len(toClient)
        BY <1>2
      <3>2. toClient'[i] = toClient[i] /\ (i > 1 => toClient'[i - 1] = toClient[i - 1])
        BY <1>2, <3>1
      <3> QED BY <2>1, <3>2 DEF FitsAt
    <2>3. \A j \in 1..Len(toServer') : toServer'[j].msg.id # id
      <3>1. CASE UNCHANGED toServer
        BY <2>1, <3>1
      <3>2. CASE Forwards
        <4>1. PICK m \in Msg : /\ Head(queue) = Whole(m) /\ m.size > 0 /\ Head(queue)[1].msg = m
              /\ queue[1] = Head(queue) /\ 1 \in 1..Len(queue)
          BY <3>2, HeadFacts DEF Forwards
        <4>2. id < m.id
          <5>1. Active /\ Started
            BY <3>2 DEF Forwards, Active, Started
          <5>2. id < queue[1][1].msg.id
            BY <2>1, <4>1, <5>1 DEF Ahead
          <5> QED BY <4>1, <5>2
        <4>w. PICK w : w = Whole(m)
          OBVIOUS
        <4>3. w \in Seq(Cell) /\ Len(w) = m.size /\ \A j \in 1..m.size : w[j] = [msg |-> m, at |-> j]
          BY <4>1, <4>w, MsgFacts, WholeFacts DEF Cell
        <4>4. toServer \in Seq(Cell) /\ toServer' = toServer \o w
          BY <3>2, <4>1, <4>w DEF StreamInv, Forwards
        <4>5. /\ Len(toServer) \in Nat /\ Len(w) \in Nat /\ Len(toServer') = Len(toServer) + Len(w)
              /\ \A j \in 1..Len(toServer) : toServer'[j] = toServer[j]
              /\ \A j \in Len(toServer) + 1..Len(toServer) + Len(w) : toServer'[j] = w[j - Len(toServer)]
          <5>1. /\ Len(toServer) \in Nat /\ Len(w) \in Nat
                /\ Len(toServer \o w) = Len(toServer) + Len(w)
                /\ \A j \in 1..Len(toServer) : (toServer \o w)[j] = toServer[j]
                /\ \A j \in Len(toServer) + 1..Len(toServer) + Len(w) :
                     (toServer \o w)[j] = w[j - Len(toServer)]
            <6>1. toServer \in Seq(Cell) /\ w \in Seq(Cell)
              BY <4>3, <4>4
            <6> QED BY ONLY <6>1, ConcatFacts
          <5> QED BY <4>4, <5>1
        <4>6. m.id \in Nat /\ id \in Nat
          BY <1>1, <2>1 DEF Msg
        <4>7. ASSUME NEW j \in 1..Len(toServer') PROVE toServer'[j].msg.id # id
          <5>1. CASE j \in 1..Len(toServer)
            BY <2>1, <4>5, <5>1
          <5>2. CASE j \in Len(toServer) + 1..Len(toServer) + Len(w)
            <6>1. j - Len(toServer) \in 1..Len(w) /\ toServer'[j] = w[j - Len(toServer)]
              BY <4>5, <5>2
            <6>2. toServer'[j].msg = m
              <7>k. PICK k : k = j - Len(toServer)
                OBVIOUS
              <7>1. k \in 1..m.size
                BY <4>3, <6>1, <7>k
              <7>2. w[k] = [msg |-> m, at |-> k]
                BY <4>3, <7>1
              <7> QED BY <6>1, <7>k, <7>2
            <6> QED BY <4>2, <4>6, <6>2
          <5> QED BY <4>5, <5>1, <5>2
        <4> QED BY <4>7
      <3>3. UNCHANGED toServer \/ Forwards
        BY DEF Streams, Idle, Replies, ServerAnswers, PipeReads
      <3> QED BY <3>1, <3>2, <3>3
    <2>4. Active' => Ahead(id)'
      BY <2>1 DEF Streams, KeepsAhead
    <2>5. toClient'[i].msg.id = id /\ id \in 1..Len(sent') /\ sent'[id] = sent[id]
      BY <1>1, <1>2, <2>d, <2>1
    <2> QED BY <2>2, <2>3, <2>4, <2>5
  <1>4. ASSUME NEW w, Writes(w), NEW j \in 1..Len(w) PROVE Good(Len(toClient) + j)
    <2>n. PICK n : n = Len(toClient) + j
      OBVIOUS
    <2>1. toClient'[n] = w[j]
      BY <1>4, <2>n, WritesFacts
    <2>2. CASE \A i \in 1..Len(w) : w[i].msg.from = "server"
      BY <2>n, <2>1, <2>2
    <2>3. ASSUME NEW a \in Ans, w = Whole(a), Speaks(a.id), Replies PROVE Good(n)
      <3>1. w[j].msg = a
        BY <2>3, AnswerFacts
      <3>2. /\ a.id \in 1..Len(sent) /\ \A i \in 1..Len(toServer) : toServer[i].msg.id < a.id
        BY <2>3 DEF Speaks
      <3>3. sent' = sent /\ toServer' = toServer
        BY <2>3 DEF Replies
      <3>4. sent[a.id].quiet => FitsAt(toClient', n)
        BY <1>4, <2>n, <2>3, AnswerFits
      <3>5. \A i \in 1..Len(toServer) : toServer[i].msg.id # a.id
        <4>1. \A i \in 1..Len(toServer) : toServer[i].msg.id \in 1..Len(sent)
          BY DEF StreamInv
        <4> QED BY <1>1, <3>2, <4>1
      <3>6. Active' => \A k : k = a.id => Ahead(k)'
        <4>1. PICK k : k = a.id
          OBVIOUS
        <4>2. Speaks(k)
          BY <2>3, <4>1
        <4> QED BY <4>1, <4>2 DEF Speaks
      <3>7. toClient'[n].msg.id = a.id
        BY <2>1, <3>1
      <3> QED BY <3>2, <3>3, <3>4, <3>5, <3>6, <3>7
    <2> QED BY <1>4, <2>n, <2>2, <2>3 DEF Writes
  <1>5. ASSUME NEW i \in 1..Len(toClient') PROVE Good(i)
    <2>1. CASE i \in 1..Len(toClient)
      BY <1>3, <2>1
    <2>2. CASE i \notin 1..Len(toClient)
      <3>1. PICK w : Writes(w)
        BY <2>2, StepWrites
      <3>2. PICK j \in 1..Len(w) : i = Len(toClient) + j
        BY <2>2, <3>1, WritesFacts
      <3> QED BY <1>4, <3>1, <3>2
    <2> QED BY <2>1, <2>2
  <1> QED BY <1>5 DEF ProxyInv

\* The server's bytes among those written follow one another.
LEMMA HeardInOrder ==
  ASSUME RelayInv, NEW i \in 1..Len(toClient), toClient[i].msg.from = "server", NEW B,
         B = {j \in {j \in 1..Len(toClient) : toClient[j].msg.from = "server"} : j < i}
  PROVE  /\ B = {} => toClient[i].at = 1
         /\ B # {} => FitsAt(<<toClient[Max(B)], toClient[i]>>, 2)
  <1>1. PICK h \in Seq(ACell) : Heard(h)
    BY DEF RelayInv
  <1>2. Lined(h, Ans) /\ Starts(h) /\ Len(h) \in Nat
    BY <1>1 DEF Heard
  <1>3. PICK p : Picks(toClient, h, p)
    BY <1>1 DEF Heard, FromServer
  <1>4. /\ p \in [1..Len(h) -> 1..Len(toClient)]
        /\ \A k, l \in 1..Len(h) : k < l => p[k] < p[l]
        /\ \A k \in 1..Len(h) : h[k] = toClient[p[k]] /\ h[k].msg.from = "server"
        /\ \A j \in 1..Len(toClient) : toClient[j].msg.from = "server" => \E k \in 1..Len(h) : p[k] = j
    BY <1>3 DEF Picks
  <1>5. PICK k \in 1..Len(h) : p[k] = i
    BY <1>4
  <1>6. Len(toClient) \in Nat /\ B \in SUBSET Int
    BY DEF RelayInv
  <1>7. \A l \in 1..Len(h) : l < k => p[l] \in B
    BY <1>4, <1>5
  <1>8. CASE k = 1
    <2>1. ASSUME NEW j \in B PROVE FALSE
      <3>1. PICK l \in 1..Len(h) : p[l] = j
        BY <1>4
      <3>2. p[l] < p[k]
        BY <1>5, <3>1
      <3>3. k < l \/ k = l
        BY <1>2, <1>8
      <3> QED BY <1>4, <1>6, <3>2, <3>3
    <2>2. h[1].at = 1
      BY <1>2, <1>8 DEF Starts
    <2> QED BY <1>4, <1>5, <1>8, <2>1, <2>2
  <1>9. CASE k # 1
    <2>m. PICK m : m = p[k - 1]
      OBVIOUS
    <2>1. k - 1 \in 1..Len(h) /\ k - 1 < k /\ k - 1 \in 1..Len(h) - 1 /\ (k - 1) + 1 = k
      BY <1>2, <1>9
    <2>2. m \in B
      BY <1>7, <2>m, <2>1
    <2>3. ASSUME NEW j \in B PROVE j <= m
      <3>1. PICK l \in 1..Len(h) : p[l] = j
        BY <1>4
      <3>2. p[l] < p[k]
        BY <1>5, <3>1
      <3>3. l < k
        <4>1. k < l \/ k = l \/ l < k
          BY <1>2
        <4>2. k < l => p[k] < p[l]
          BY <1>4
        <4>3. p[k] \in Nat /\ p[l] \in Nat
          <5>1. p[k] \in 1..Len(toClient) /\ p[l] \in 1..Len(toClient)
            BY <1>4
          <5> QED BY <5>1
        <4>4. k = l => p[k] = p[l]
          OBVIOUS
        <4> QED BY <3>2, <4>1, <4>2, <4>3, <4>4
      <3>4. l < k - 1 \/ l = k - 1
        BY <1>2, <3>3
      <3>5. p[l] < p[k - 1] \/ p[l] = p[k - 1]
        BY <1>4, <2>1, <3>4
      <3> QED BY <1>4, <1>6, <2>m, <2>1, <3>1, <3>5
    <2>4. Max(B) = m
      BY <1>6, <2>2, <2>3, GreatestIsMax
    <2>a. PICK a : a = h[k - 1]
      OBVIOUS
    <2>b. PICK b : b = h[k]
      OBVIOUS
    <2>5. a = toClient[Max(B)] /\ b = toClient[i]
      BY <1>4, <1>5, <2>a, <2>b, <2>m, <2>1, <2>4
    <2>6. /\ a \in ACell /\ b \in ACell /\ a.msg \in Ans /\ a.at \in Nat \ {0}
      <3>1. a \in ACell /\ b \in ACell
        BY <2>a, <2>b, <2>1
      <3> QED BY <3>1 DEF ACell, Cells
    <2>7. \/ b.msg = a.msg /\ b.at = a.at + 1
          \/ b.at = 1 /\ a.at = a.msg.size
      <3>e. PICK e : e = k - 1
        OBVIOUS
      <3>1. e \in 1..Len(h) - 1 /\ h[e] = a /\ h[e + 1] = b
        BY <2>a, <2>b, <2>1, <3>e
      <3>2. \/ h[e + 1].msg = h[e].msg /\ h[e + 1].at = h[e].at + 1
            \/ h[e + 1].at = 1 /\ (h[e].msg \in Ans => h[e].at = h[e].msg.size)
        BY <1>2, <3>1 DEF Lined
      <3> QED BY <2>6, <3>1, <3>2
    <2>s. PICK s : s = <<a, b>>
      OBVIOUS
    <2>8. s[1] = a /\ s[2] = b /\ 2 - 1 = 1 /\ 2 > 1
      BY <2>s
    <2>9. b.msg = a.msg /\ b.at = a.at + 1 => b.at > 1 /\ a = [b EXCEPT !.at = @ - 1]
      BY <2>6 DEF ACell, Cells
    <2>10. FitsAt(s, 2)
      BY <2>7, <2>8, <2>9 DEF FitsAt
    <2> QED BY <2>2, <2>s, <2>5, <2>10
  <1> QED BY <1>8, <1>9

\* The parts of the invariant together.
ClientInv == StreamInv /\ ServedInv /\ RelayInv /\ ProxyInv /\ LastInv /\ QuietInv

\* No step breaks it.
LEMMA ClientNext == ClientInv /\ [Next]_vars => ClientInv'
  <1> SUFFICES ASSUME ClientInv, [Next]_vars PROVE ClientInv'
    OBVIOUS
  <1>1. StreamInv /\ ServedInv /\ RelayInv /\ ProxyInv /\ LastInv /\ QuietInv
    BY DEF ClientInv
  <1>2. Streams
    BY <1>1, StepStreams
  <1>3. StreamInv'
    BY <1>1, StreamNext
  <1>4. ServedInv' /\ RelayInv'
    BY <1>1, <1>2, ServedNext, RelayNext
  <1>5. ProxyInv' /\ LastInv' /\ QuietInv'
    BY <1>1, <1>2, ProxyNext, LastNext, QuietNext
  <1> QED BY <1>3, <1>4, <1>5 DEF ClientInv

\* For every size of the server's answers and however they are cut into
\* chunks: the server's bytes reach the client in order and without a gap,
\* and an answer of the proxy stands between whole messages if the client had
\* waited for its answers before it sent the message.
THEOREM ClientGetsWholeMessages == FairSpec => []ClientStreamIntact
  <1>1. Init => ClientInv
    <2> SUFFICES ASSUME Init PROVE ClientInv
      OBVIOUS
    <2>1. /\ sent = <<>> /\ c2p = <<>> /\ buf = <<>> /\ toServer = <<>> /\ handler = "startup"
          /\ toClient = <<>> /\ b2p = <<>> /\ served = 0
      BY DEF Init, InitWire
    <2>2. StreamInv
      BY StreamInit
    <2>3. Len(<<>>) = 0 /\ <<>> \in Seq(Cells(Msg)) /\ <<>> \in Seq(ACell) /\ <<>> \in Seq(Cells(Ans))
      BY DEF ACell
    <2>4. ServedInv
      BY <2>1, <2>3, MsgFacts DEF ServedInv, Orderly, Lined, Starts, Closed, EndsAt
    <2>5. Orderly(<<>>, Ans, Ans)
      BY <2>3, AnsFacts DEF Orderly, Lined, Starts, Closed
    <2>6. Heard(<<>>)
      <3>1. Picks(<<>>, <<>>, [k \in 1..0 |-> k])
        <4>1. [k \in 1..0 |-> k] \in [1..0 -> 1..0]
          OBVIOUS
        <4> QED BY <2>3, <4>1 DEF Picks
      <3>2. FromServer(toClient, <<>>)
        BY <2>1, <3>1 DEF FromServer
      <3>3. <<>> \o b2p = <<>>
        BY <2>1
      <3> QED BY <2>3, <2>5, <3>2, <3>3 DEF Heard, Orderly
    <2>7. RelayInv
      <3>1. \E h \in Seq(ACell) : Heard(h)
        BY <2>3, <2>6
      <3>2. toClient \in Seq(ACell) /\ b2p \in Seq(ACell) /\ Len(b2p) = 0
        BY <2>1, <2>3
      <3> QED BY <3>1, <3>2 DEF RelayInv
    <2>8. ProxyInv /\ LastInv /\ QuietInv
      BY <2>1, <2>3 DEF ProxyInv, LastInv, QuietInv
    <2> QED BY <2>2, <2>4, <2>7, <2>8 DEF ClientInv
  <1>2. ClientInv /\ [Next]_vars => ClientInv'
    BY ClientNext
  <1>3. ClientInv => ClientStreamIntact
    <2> SUFFICES ASSUME ClientInv PROVE ClientStreamIntact
      OBVIOUS
    <2> DEFINE S == {i \in 1..Len(toClient) : toClient[i].msg.from = "server"}
               B(i) == {j \in S : j < i}
    <2>1. ASSUME NEW i \in S
          PROVE  /\ B(i) = {} => toClient[i].at = 1
                 /\ B(i) # {} => FitsAt(<<toClient[Max(B(i))], toClient[i]>>, 2)
      BY HeardInOrder DEF ClientInv
    <2>2. \A i \in 1..Len(toClient) :
            (toClient[i].msg.from = "proxy" /\ sent[toClient[i].msg.id].quiet) => FitsAt(toClient, i)
      BY DEF ClientInv, ProxyInv
    <2> QED BY <2>1, <2>2 DEF ClientStreamIntact
  <1> QED BY <1>1, <1>2, <1>3, PTL DEF FairSpec

=============================================================================
