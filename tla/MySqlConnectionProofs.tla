----------------------- MODULE MySqlConnectionProofs ------------------------
(***************************************************************************)
(* Proofs about MySqlConnection, for every packet size, header size, limit *)
(* and client, and however the bytes are cut.                              *)
(*                                                                         *)
(* Two things are to be shown: that the client's pump knows in time when   *)
(* the authentication is over, and that the packets of a command stay      *)
(* together on their way through framer, queue and assembler.  The first   *)
(* rests on the dialogue of the authentication: each reply of the client   *)
(* but the first answers a question that came back before it, so an OK is  *)
(* about the last of them (Dialogue).  The second numbers the packets from *)
(* one end to the other: d is the one the pump deals with next (Flow).     *)
(***************************************************************************)
EXTENDS MySqlConnection, Facts

\* Packets of the authentication are never so large that they are continued.
ShortAuthentication == \A k \in MyKinds \ Commands : MySizes[k] # MyHeader + MaxPayload

Msg  == [id : Nat, kind : MyKinds, size : Nat, seq : Nat, early : BOOLEAN]
SMsg == [id : Nat, size : Nat, kind : {"greeting", "more", "ok", "err", "result"}]

Cell  == Cells(Msg)
SCell == Cells(SMsg)

RelayTyped ==
  /\ greeted \in BOOLEAN /\ phase \in {"authentication", "command", "closed"}
  /\ auth \in {"waiting", "authenticating", "tls_rejected", "authenticated", "failed"}
  /\ inspected \in SUBSET (1..Len(sent)) /\ serverGone \in BOOLEAN
  /\ clientTask \in {"none", "read", "handle", "decide", "cancelled", "ended"}
  /\ clientSock \in {"open", "closed"} /\ serverSock \in {"none", "open", "closed"}

\* What the client has sent.
SentInv ==
  /\ sent \in Seq(Msg) /\ Len(sent) <= MaxSent
  /\ \A i \in 1..Len(sent) : sent[i].id = i /\ sent[i].size = MySizes[sent[i].kind]
  /\ \A i \in 1..Len(sent) :
       sent[i].kind \in Handshakes => i = 1 \/ (i = 2 /\ sent[1].kind = "ssl")

From(s) == \A i \in 1..Len(s) : s[i].msg.id \in 1..Len(sent) /\ s[i].msg = sent[s[i].msg.id]

\* What the server was given and has dealt with.
ServerInv ==
  /\ Orderly(toServer, Msg, Msg) /\ From(toServer)
  /\ toServer # <<>> => toServer[1].msg.kind = "response"
  /\ served \in 0..Len(toServer) /\ EndsAt(toServer, served, Msg)

ServedId(n) == \E k \in 1..served : toServer[k].msg.id = n

Answers == bbuf \o b2p

AnswersInv ==
  /\ bbuf \in Seq(SCell) /\ b2p \in Seq(SCell) /\ toClient \in Seq(SCell)
  /\ Orderly(Answers, SMsg, SMsg)
  /\ ~serverGone => \A i \in 1..Len(Answers) : Answers[i].msg.id = 0 \/ ServedId(Answers[i].msg.id)
  /\ serverSock = "none" => bbuf = <<>> /\ b2p = <<>>
  /\ handler = "connecting" => serverSock = "none" /\ clientTask = "none"

Said(s) == {s[i].msg : i \in 1..Len(s)}

\* All that the server has said and the client has got or can still get.
Replies == Said(Answers) \cup Said(toClient)

Dialogue ==
  /\ \A p \in Replies : p.kind \in {"more", "ok"} => ServedId(p.id)
  /\ \A p, q \in Replies : p.kind = "ok" /\ q.kind = "more" => q.id < p.id
  /\ granted \in BOOLEAN /\ \A p \in Replies : p.kind = "ok" => granted
  /\ \A p \in Replies : p.kind = "ok" =>
       \A i \in 1..Len(sent) : sent[i].kind \notin Commands => i <= p.id
  /\ \A i \in 1..Len(sent) : sent[i].kind = "auth" =>
       \E j \in 1..Len(toClient) : toClient[j].msg.kind = "more" /\ toClient[j].msg.id = i - 1

\* The two phases, and what the client's pump can conclude from them.
PhaseInv ==
  /\ auth = "waiting" => toServer = <<>> /\ phase = "authentication"
  /\ ~greeted => auth = "waiting"
  /\ phase = "command" => auth = "authenticated"
  /\ phase = "authentication" => auth \in {"waiting", "authenticating"}
  /\ auth \in {"authenticating", "authenticated"} => toServer # <<>>
  /\ phase = "authentication" =>
       /\ \A i \in 1..Len(toClient) : toClient[i].msg.kind # "ok"
       /\ \A i \in 1..Len(sent) : sent[i].kind \in Commands => sent[i].early
  /\ phase = "command" /\ clientSock = "open" =>
       \E i \in 1..Len(toClient) : toClient[i].msg.kind = "ok"

\* The bytes the framer has or can still read: all packets from the e-th on.
Incoming(s, e) ==
  /\ Orderly(s, Msg, Msg) /\ From(s)
  /\ Gapless(s)
  /\ s = <<>> => e = Len(sent) + 1
  /\ s # <<>> => s[1].msg.id = e /\ s[Len(s)].msg.id = Len(sent)

\* The queue holds the packets from the d-th on.
QueueFlow(d) ==
  /\ queue \in Seq(Seq(Cell)) /\ buf \in Seq(Cell) /\ c2p \in Seq(Cell)
  /\ \A j \in 1..Len(queue) : d + j - 1 <= Len(sent) /\ queue[j] = Whole(sent[d + j - 1])
  /\ Incoming(buf \o c2p, d + Len(queue))
  /\ clientTask \in {"none", "read"} => Len(queue) = 0
  /\ clientTask \in {"handle", "decide"} => Len(queue) > 0

\* The assembler holds the packets before it that belong to a command; what
\* was written is older still.
HeldFlow(d) ==
  /\ parts \in Seq(Seq(Cell)) /\ Len(parts) < d
  /\ \A j \in 1..Len(parts) : LET m == sent[d - Len(parts) + j - 1]
                              IN  parts[j] = Whole(m) /\ m.kind \in Commands
  /\ \A i \in 1..Len(toServer) : toServer[i].msg.id < d - Len(parts)
  /\ phase # "command" => parts = <<>>
  /\ phase = "command" => \A i \in d..Len(sent) : sent[i].kind \in Commands
  /\ clientTask = "decide" => phase = "command"

Follows(m, n) == n.id = m.id + 1 /\ n.seq = (m.seq + 1) % SequenceIds

\* The packets held are continued and in sequence, and the one before them
\* is not continued.
Packed(d) ==
  /\ \A j \in d - Len(parts)..d - 1 : Continued(sent[j])
  /\ \A j \in d - Len(parts)..d - 2 : Follows(sent[j], sent[j + 1])
  /\ d - Len(parts) > 1 => ~JoinsNext(sent[d - Len(parts) - 1])
  /\ clientTask = "decide" => ~Continued(sent[d]) /\ (parts # <<>> => Follows(sent[d - 1], sent[d]))

Flow(d) == QueueFlow(d) /\ HeldFlow(d) /\ (ShortAuthentication => Packed(d))

Active == clientTask \in {"none", "read", "handle", "decide"}

\* What ServerStreamIntact says of the places where a packet begins.
Joined(s) ==
  \A i \in 2..Len(s) :
    s[i].at = 1 /\ (JoinsNext(s[i - 1].msg) \/ JoinsNext(sent[s[i].msg.id - 1])) =>
      Follows(s[i - 1].msg, s[i].msg)

PackInv == Joined(toServer) /\ (toServer # <<>> => ~JoinsNext(toServer[Len(toServer)].msg))

IInv == /\ RelayTyped /\ SentInv /\ ServerInv /\ AnswersInv /\ Dialogue /\ PhaseInv
        /\ CommandsAreInspected
        /\ Active => \E d \in 1..Len(sent) + 1 : Flow(d)
        /\ ShortAuthentication => PackInv

-----------------------------------------------------------------------------
(***************************************************************************)
(* Packets behind one another.                                             *)
(***************************************************************************)
\* The packets are such as the facts about streams ask for.
LEMMA MsgFacts == Messages(Msg) /\ Messages(SMsg)
  BY DEF Messages, Msg, SMsg

\* A packet the client has sent.
LEMMA SentFacts ==
  ASSUME SentInv, NEW k \in 1..Len(sent)
  PROVE  /\ sent[k] \in Msg /\ sent[k].id = k /\ sent[k].size \in Nat \ {0}
         /\ Whole(sent[k]) \in Seq(Cell) /\ Len(Whole(sent[k])) = sent[k].size
         /\ \A i \in 1..sent[k].size : Whole(sent[k])[i] = [msg |-> sent[k], at |-> i]
         /\ Whole(sent[k])[1].msg = sent[k]
  <1>1. sent[k] \in Msg /\ sent[k].id = k /\ sent[k].size = MySizes[sent[k].kind]
    BY DEF SentInv
  <1>2. sent[k].kind \in MyKinds
    BY <1>1 DEF Msg
  <1>3. sent[k].size \in Nat \ {0}
    BY <1>1, <1>2, MyWireAssumption
  <1>4. sent[k].size > 0
    BY <1>3
  <1>5. /\ Whole(sent[k]) \in Seq(Cell) /\ Len(Whole(sent[k])) = sent[k].size
        /\ \A i \in 1..sent[k].size : Whole(sent[k])[i] = [msg |-> sent[k], at |-> i]
        /\ Whole(sent[k])[1].msg = sent[k]
    BY <1>1, <1>4, MsgFacts, WholeFacts DEF Cell
  <1> QED BY <1>1, <1>3, <1>5

\* How a stream of packets ends, before the k-th is written.
Before(t, k) == \A i \in 1..Len(t) : t[i].msg.id < k

LinksTo(t, k) ==
  t # <<>> /\ (JoinsNext(t[Len(t)].msg) \/ JoinsNext(sent[k - 1])) => Follows(t[Len(t)].msg, sent[k])

\* t goes on where s ends.
Extends(s, t) == Len(s) <= Len(t) /\ \A i \in 1..Len(s) : t[i] = s[i]

\* u is t and the k-th packet.
Longer(t, k, u) == u = t \o Whole(sent[k])

\* A packet written behind older ones.
LEMMA AppendPacket ==
  ASSUME SentInv, NEW t, Orderly(t, Msg, Msg), From(t), NEW k \in 1..Len(sent), Before(t, k),
         NEW u, Longer(t, k, u)
  PROVE  /\ Orderly(u, Msg, Msg) /\ From(u) /\ Before(u, k + 1) /\ Extends(t, u)
         /\ u # <<>> /\ u[Len(u)].msg = sent[k]
         /\ \A i \in 1..Len(u) : i \in 1..Len(t) \/ u[i].msg = sent[k]
         /\ Joined(t) /\ LinksTo(t, k) => Joined(u)
  <1>m. PICK m : m = sent[k]
    OBVIOUS
  <1>w. PICK w : w = Whole(m)
    OBVIOUS
  <1>0. u = t \o w /\ t \in Seq(Cell)
    BY <1>m, <1>w DEF Longer, Orderly, Cell
  <1>1. /\ m \in Msg /\ m.id = k /\ m.size \in Nat \ {0} /\ k \in Nat
        /\ w \in Seq(Cell) /\ Len(w) = m.size
        /\ \A i \in 1..m.size : w[i] = [msg |-> m, at |-> i]
    BY <1>m, <1>w, SentFacts
  <1>2. /\ u \in Seq(Cell) /\ Len(t) \in Nat /\ Len(u) = Len(t) + m.size
        /\ \A i \in 1..Len(t) : u[i] = t[i]
        /\ \A i \in Len(t) + 1..Len(t) + m.size : u[i] = w[i - Len(t)]
    <2>1. /\ u \in Seq(Cell) /\ Len(t) \in Nat /\ Len(u) = Len(t) + Len(w)
          /\ \A i \in 1..Len(t) : u[i] = t[i]
          /\ \A i \in Len(t) + 1..Len(t) + Len(w) : u[i] = w[i - Len(t)]
      <3>1. t \in Seq(Cell) /\ w \in Seq(Cell) /\ u = t \o w
        BY <1>0, <1>1
      <3> QED BY ONLY <3>1, ConcatFacts
    <2> QED BY <1>1, <2>1
  <1>3. ASSUME NEW i \in Len(t) + 1..Len(t) + m.size PROVE u[i].msg = m /\ u[i].at = i - Len(t)
    <2>1. i - Len(t) \in 1..m.size
      BY <1>1, <1>2
    <2>2. u[i] = [msg |-> m, at |-> i - Len(t)]
      BY <1>1, <1>2, <2>1
    <2> QED BY <2>2
  <1>4. Orderly(u, Msg, Msg)
    <2>1. Sendable(t, m, m.size, Msg)
      BY <1>1 DEF Sendable, Before
    <2>2. m \in Msg /\ m.size \in Nat
      BY <1>1
    <2>3. Orderly(t \o Bytes(m, m.size), Msg, Msg)
      BY <2>1, <2>2, SendLined
    <2> QED BY <1>0, <1>w, <2>3 DEF Whole
  <1>5. \A i \in 1..Len(u) : (i \in 1..Len(t) /\ u[i] = t[i]) \/ i \in Len(t) + 1..Len(t) + m.size
    BY <1>1, <1>2
  <1>6. From(u) /\ Before(u, k + 1)
    <2> SUFFICES ASSUME NEW i \in 1..Len(u)
                 PROVE  u[i].msg.id \in 1..Len(sent) /\ u[i].msg = sent[u[i].msg.id]
                        /\ u[i].msg.id < k + 1
      BY DEF From, Before
    <2>1. CASE i \in 1..Len(t) /\ u[i] = t[i]
      <3>1. t[i].msg.id \in 1..Len(sent) /\ t[i].msg = sent[t[i].msg.id] /\ t[i].msg.id < k
        BY <2>1 DEF From, Before
      <3>2. t[i].msg.id < k + 1
        BY <1>1, <3>1
      <3> QED BY <2>1, <3>1, <3>2
    <2>2. CASE i \in Len(t) + 1..Len(t) + m.size
      BY <1>m, <1>1, <1>3, <2>2
    <2> QED BY <1>5, <2>1, <2>2
  <1>7. Extends(t, u)
    BY <1>1, <1>2 DEF Extends
  <1>8. u # <<>> /\ u[Len(u)].msg = m
    <2>1. Len(u) \in Len(t) + 1..Len(t) + m.size /\ Len(u) # 0
      BY <1>1, <1>2
    <2> QED BY <1>3, <2>1
  <1>9. \A i \in 1..Len(u) : i \in 1..Len(t) \/ u[i].msg = m
    BY <1>3, <1>5
  <1>10. ASSUME Joined(t), LinksTo(t, k) PROVE Joined(u)
    <2> SUFFICES ASSUME NEW i \in 2..Len(u), u[i].at = 1,
                        JoinsNext(u[i - 1].msg) \/ JoinsNext(sent[u[i].msg.id - 1])
                 PROVE  Follows(u[i - 1].msg, u[i].msg)
      BY DEF Joined
    <2>1. CASE i \in 1..Len(t)
      <3>1. i \in 2..Len(t) /\ i - 1 \in 1..Len(t)
        BY <1>2, <2>1
      <3>2. u[i] = t[i] /\ u[i - 1] = t[i - 1]
        BY <1>2, <2>1, <3>1
      <3> QED BY <1>10, <3>1, <3>2 DEF Joined
    <2>2. CASE i = Len(t) + 1
      <3>1. i - 1 = Len(t) /\ Len(t) \in 1..Len(t) /\ i \in Len(t) + 1..Len(t) + m.size /\ t # <<>>
        BY <1>1, <1>2, <2>2
      <3>2. u[i - 1] = t[Len(t)] /\ u[i].msg = m
        BY <1>2, <1>3, <3>1
      <3> QED BY <1>m, <1>1, <1>10, <3>1, <3>2 DEF LinksTo
    <2>3. CASE i \in Len(t) + 2..Len(t) + m.size
      <3>1. i \in Len(t) + 1..Len(t) + m.size /\ i - Len(t) # 1
        BY <1>1, <1>2, <2>3
      <3>2. u[i].at = i - Len(t)
        BY <1>3, <3>1
      <3> QED BY <3>1, <3>2
    <2> QED BY <1>1, <1>2, <2>1, <2>2, <2>3
  <1> QED BY <1>m, <1>4, <1>6, <1>7, <1>8, <1>9, <1>10

-----------------------------------------------------------------------------
(***************************************************************************)
(* What steps of a kind keep.                                              *)
(***************************************************************************)
\* More bytes to the server do not change what it has dealt with.
LEMMA ServerGrows ==
  ASSUME ServerInv, UNCHANGED <<sent, served>>, NEW u, u = toServer', Extends(toServer, u),
         Orderly(u, Msg, Msg), From(u), toServer # <<>> \/ u = <<>> \/ u[1].msg.kind = "response"
  PROVE  ServerInv' /\ \A n : ServedId(n) <=> ServedId(n)'
  <1>1. /\ toServer \in Seq(Cell) /\ Len(toServer) \in Nat /\ u \in Seq(Cell) /\ Len(u) \in Nat
        /\ served \in 0..Len(toServer) /\ EndsAt(toServer, served, Msg)
        /\ Len(toServer) <= Len(u) /\ \A i \in 1..Len(toServer) : u[i] = toServer[i]
    BY DEF ServerInv, Orderly, Extends, Cell
  <1>2. served \in 0..Len(u) /\ (served > 0 => u[served] = toServer[served])
    BY <1>1
  <1>3. EndsAt(u, served, Msg)
    BY <1>1, <1>2 DEF EndsAt
  <1>4. u # <<>> => u[1].msg.kind = "response"
    <2>1. CASE toServer # <<>>
      <3>1. u[1] = toServer[1]
        BY <1>1, <2>1
      <3> QED BY <2>1, <3>1 DEF ServerInv
    <2> QED BY <2>1
  <1>5. From(toServer)'
    BY DEF From
  <1>6. ServerInv'
    BY <1>2, <1>3, <1>4, <1>5 DEF ServerInv
  <1>7. ASSUME NEW n PROVE ServedId(n) <=> ServedId(n)'
    <2>1. \A k \in 1..served : u[k] = toServer[k]
      BY <1>1
    <2> QED BY <2>1 DEF ServedId
  <1> QED BY <1>6, <1>7

\* Answers on their way, when the server may have got more but has said
\* nothing new.
LEMMA DialogueKept ==
  ASSUME Dialogue, UNCHANGED <<sent, granted>>, \A n : ServedId(n) => ServedId(n)',
         \A p \in Replies' : p \in Replies \/ p.kind \notin {"more", "ok"},
         Extends(toClient, toClient')
  PROVE  Dialogue'
  <1>1. \A p \in Replies' : p.kind \in {"more", "ok"} => p \in Replies
    OBVIOUS
  <1>2. \A p \in Replies' : p.kind \in {"more", "ok"} => ServedId(p.id)'
    BY <1>1 DEF Dialogue
  <1>3. /\ \A p, q \in Replies' : p.kind = "ok" /\ q.kind = "more" => q.id < p.id
        /\ granted \in BOOLEAN /\ \A p \in Replies' : p.kind = "ok" => granted
    BY <1>1 DEF Dialogue
  <1>4. \A p \in Replies' : p.kind = "ok" =>
          \A i \in 1..Len(sent') : sent'[i].kind \notin Commands => i <= p.id
    BY <1>1 DEF Dialogue
  <1>5. ASSUME NEW i \in 1..Len(sent), sent[i].kind = "auth"
        PROVE  \E j \in 1..Len(toClient') : toClient'[j].msg.kind = "more" /\ toClient'[j].msg.id = i - 1
    <2>1. PICK j \in 1..Len(toClient) : toClient[j].msg.kind = "more" /\ toClient[j].msg.id = i - 1
      BY <1>5 DEF Dialogue
    <2>2. j \in 1..Len(toClient') /\ toClient'[j] = toClient[j]
      BY DEF Extends
    <2> QED BY <2>1, <2>2
  <1> QED BY <1>2, <1>3, <1>4, <1>5 DEF Dialogue

\* A packet of its own that the proxy writes to the client.
LEMMA WriteClientFacts ==
  ASSUME AnswersInv, NEW bytes \in Seq(SCell), WriteClient(bytes)
  PROVE  /\ toClient' \in Seq(SCell) /\ Extends(toClient, toClient')
         /\ Said(toClient') \subseteq Said(toClient) \cup Said(bytes)
         /\ clientSock = "open" => \A i \in 1..Len(bytes) : bytes[i].msg \in Said(toClient')
  <1>t. PICK t : t = toClient
    OBVIOUS
  <1>u. PICK u : u = toClient'
    OBVIOUS
  <1>1. t \in Seq(SCell) /\ u = IF clientSock = "open" THEN t \o bytes ELSE t
    BY <1>t, <1>u DEF AnswersInv, WriteClient
  <1>2. /\ t \o bytes \in Seq(SCell) /\ Len(t) \in Nat /\ Len(bytes) \in Nat
        /\ Len(t \o bytes) = Len(t) + Len(bytes)
        /\ \A i \in 1..Len(t) : (t \o bytes)[i] = t[i]
        /\ \A i \in Len(t) + 1..Len(t) + Len(bytes) : (t \o bytes)[i] = bytes[i - Len(t)]
    BY <1>1, ConcatFacts
  <1>3. CASE u = t
    <2>1. clientSock # "open" \/ u = t \o bytes
      BY <1>1
    <2>2. clientSock = "open" => Len(bytes) = 0
      BY <1>2, <1>3, <2>1
    <2>3. Extends(t, u)
      BY <1>2, <1>3 DEF Extends
    <2> QED BY <1>t, <1>u, <1>1, <1>2, <1>3, <2>2, <2>3 DEF Said
  <1>4. CASE u = t \o bytes
    <2>1. /\ u \in Seq(SCell) /\ Len(u) = Len(t) + Len(bytes)
          /\ \A i \in 1..Len(t) : u[i] = t[i]
          /\ \A i \in Len(t) + 1..Len(t) + Len(bytes) : u[i] = bytes[i - Len(t)]
      BY <1>2, <1>4
    <2>2. Extends(t, u)
      BY <1>2, <2>1 DEF Extends
    <2>3. ASSUME NEW i \in 1..Len(u) PROVE u[i].msg \in Said(t) \cup Said(bytes)
      <3>1. CASE i \in 1..Len(t)
        BY <2>1, <3>1 DEF Said
      <3>2. CASE i \in Len(t) + 1..Len(t) + Len(bytes)
        <4>1. i - Len(t) \in 1..Len(bytes)
          BY <1>2, <3>2
        <4> QED BY <2>1, <3>2, <4>1 DEF Said
      <3> QED BY <1>2, <2>1, <3>1, <3>2
    <2>4. ASSUME NEW i \in 1..Len(bytes) PROVE bytes[i].msg \in Said(u)
      <3>1. /\ Len(t) + i \in 1..Len(u) /\ Len(t) + i \in Len(t) + 1..Len(t) + Len(bytes)
            /\ (Len(t) + i) - Len(t) = i
        BY <1>2, <2>1
      <3>2. u[Len(t) + i] = bytes[i]
        BY <2>1, <3>1
      <3> QED BY <3>1, <3>2 DEF Said
    <2>5. Said(u) \subseteq Said(t) \cup Said(bytes)
      BY <2>3 DEF Said
    <2> QED BY <1>t, <1>u, <2>1, <2>2, <2>4, <2>5
  <1> QED BY <1>1, <1>3, <1>4

\* An ERR packet of the proxy.
LEMMA ErrFacts ==
  ASSUME NEW m \in Msg
  PROVE  /\ Reply(m, "err") \in SMsg
         /\ Whole(Reply(m, "err")) \in Seq(SCell)
         /\ \A p \in Said(Whole(Reply(m, "err"))) : p.kind = "err"
  <1>r. PICK r : r = Reply(m, "err")
    OBVIOUS
  <1>1. r \in SMsg /\ r.size > 0 /\ r.kind = "err" /\ r.size \in Nat
    BY <1>r, MyWireAssumption DEF Reply, SMsg, Msg
  <1>2. /\ Whole(r) \in Seq(SCell) /\ Len(Whole(r)) = r.size
        /\ \A i \in 1..r.size : Whole(r)[i] = [msg |-> r, at |-> i]
    BY <1>1, MsgFacts, WholeFacts DEF SCell
  <1>3. ASSUME NEW i \in 1..r.size PROVE Whole(r)[i].msg = r
    <2>1. Whole(r)[i] = [msg |-> r, at |-> i]
      BY <1>2
    <2> QED BY <2>1
  <1>4. \A p \in Said(Whole(r)) : p = r
    BY <1>2, <1>3 DEF Said
  <1> QED BY <1>r, <1>1, <1>2, <1>4

\* A step of the life cycle: it ends or cancels tasks and closes sockets, and
\* leaves all bytes where they are.
LifeCycle ==
  /\ UNCHANGED <<sent, c2p, toServer, served, b2p, serverGone, toClient, buf, bbuf, queue,
                 greeted, auth, phase, inspected, granted>>
  /\ clientTask' \in {clientTask, "cancelled", "ended"}
  /\ clientTask' \in {"cancelled", "ended"} \/ UNCHANGED parts
  /\ clientSock' \in {clientSock, "closed"} /\ serverSock' \in {serverSock, "closed"}
  /\ handler' = "connecting" => UNCHANGED <<handler, serverSock, clientTask>>

\* The flow of packets does not depend on anything else.
LEMMA FlowSame ==
  ASSUME NEW d, Flow(d), UNCHANGED <<sent, c2p, toServer, buf, queue, phase, parts, clientTask>>
  PROVE  Flow(d)'
  BY DEF Flow, QueueFlow, Incoming, From, HeldFlow, Packed

\* Steps of the life cycle keep the invariant.
LEMMA LifeCycleKeeps ==
  ASSUME IInv, LifeCycle
  PROVE  IInv'
  <1> USE DEF LifeCycle
  <1>1. RelayTyped' /\ SentInv' /\ ServerInv'
    BY DEF IInv, RelayTyped, SentInv, ServerInv, From
  <1>2. AnswersInv'
    BY DEF IInv, AnswersInv, Answers, ServedId, RelayTyped
  <1>3. Dialogue'
    BY DEF IInv, Dialogue, Replies, Answers, Said, ServedId
  <1>4. PhaseInv' /\ CommandsAreInspected'
    BY DEF IInv, PhaseInv, CommandsAreInspected, RelayTyped
  <1>5. Active' => \E d \in 1..Len(sent') + 1 : Flow(d)'
    <2> SUFFICES ASSUME Active' PROVE \E d \in 1..Len(sent') + 1 : Flow(d)'
      OBVIOUS
    <2>1. UNCHANGED <<clientTask, parts>> /\ Active
      BY DEF Active
    <2>2. PICK d \in 1..Len(sent) + 1 : Flow(d)
      BY <2>1 DEF IInv
    <2>3. Flow(d)'
      BY <2>1, <2>2, FlowSame
    <2> QED BY <2>3
  <1>6. ShortAuthentication => PackInv'
    BY DEF IInv, PackInv, Joined
  <1> QED BY <1>1, <1>2, <1>3, <1>4, <1>5, <1>6 DEF IInv, ShortAuthentication

\* The client's pump goes on to its next packet.
Advance ==
  /\ queue' = Tail(queue) /\ UNCHANGED <<sent, c2p, buf>>
  /\ clientTask' \in {"handle", "read", "ended"}
  /\ (clientTask' = "handle") = (Len(queue) > 1)

\* The packet the client's pump deals with, and the flow behind it.
LEMMA QueueStep ==
  ASSUME SentInv, NEW d \in 1..Len(sent) + 1, QueueFlow(d), clientTask \in {"handle", "decide"}
  PROVE  /\ d \in 1..Len(sent) /\ Head(queue) = Whole(sent[d]) /\ Packet = sent[d]
         /\ Advance => QueueFlow(d + 1)'
  <1>1. queue \in Seq(Seq(Cell)) /\ Len(queue) \in Nat /\ Len(queue) > 0 /\ Len(sent) \in Nat
    BY DEF QueueFlow, SentInv
  <1>2. /\ queue # <<>> /\ Tail(queue) \in Seq(Seq(Cell)) /\ Len(Tail(queue)) = Len(queue) - 1
        /\ \A j \in 1..Len(queue) - 1 : Tail(queue)[j] = queue[j + 1]
        /\ Head(queue) = queue[1]
    <2>1. queue # <<>>
      BY <1>1
    <2> QED BY <1>1, <2>1, TailFacts
  <1>3. d \in 1..Len(sent) /\ queue[1] = Whole(sent[d])
    <2>1. 1 \in 1..Len(queue) /\ d + 1 - 1 = d
      BY <1>1
    <2>2. d + 1 - 1 <= Len(sent) /\ queue[1] = Whole(sent[d + 1 - 1])
      BY <2>1 DEF QueueFlow
    <2> QED BY <2>1, <2>2
  <1>4. Packet = sent[d]
    BY <1>2, <1>3, SentFacts DEF Packet
  <1>5. ASSUME Advance PROVE QueueFlow(d + 1)'
    <2> USE <1>5 DEF Advance
    <2>q. PICK q : q = queue'
      OBVIOUS
    <2>1. q \in Seq(Seq(Cell)) /\ Len(q) = Len(queue) - 1 /\ \A j \in 1..Len(q) : q[j] = queue[j + 1]
      BY <1>2, <1>5, <2>q
    <2>2. ASSUME NEW j \in 1..Len(q)
          PROVE  (d + 1) + j - 1 <= Len(sent) /\ q[j] = Whole(sent[(d + 1) + j - 1])
      <3>1. j + 1 \in 1..Len(queue) /\ d + (j + 1) - 1 = (d + 1) + j - 1
        BY <1>1, <2>1
      <3>2. d + (j + 1) - 1 <= Len(sent) /\ queue[j + 1] = Whole(sent[d + (j + 1) - 1])
        BY <3>1 DEF QueueFlow
      <3> QED BY <2>1, <3>1, <3>2
    <2>3. Incoming(buf \o c2p, (d + 1) + Len(q))
      <3>1. (d + 1) + Len(q) = d + Len(queue)
        BY <1>1, <2>1
      <3> QED BY <3>1 DEF QueueFlow
    <2>4. Incoming(buf \o c2p, (d + 1) + Len(queue))'
      BY <1>5, <2>q, <2>3 DEF Incoming, From
    <2>5. clientTask' = "read" => Len(q) = 0
      BY <1>1, <1>5, <2>1
    <2>6. clientTask' = "handle" => Len(q) > 0
      BY <1>1, <1>5, <2>1
    <2>7. buf \in Seq(Cell) /\ c2p \in Seq(Cell)
      BY DEF QueueFlow
    <2> QED BY <1>5, <2>q, <2>1, <2>2, <2>4, <2>5, <2>6, <2>7 DEF QueueFlow
  <1> QED BY <1>2, <1>3, <1>4, <1>5

-----------------------------------------------------------------------------
(***************************************************************************)
(* The client.                                                             *)
(***************************************************************************)
\* What a client waits for.
LEMMA MaySendFacts ==
  ASSUME NEW kind \in MyKinds, MaySend(kind)
  PROVE  /\ kind \in Handshakes => sent = <<>> \/ (Len(sent) = 1 /\ sent[1].kind = "ssl")
         /\ kind = "auth" => Asked
  <1>1. CASE kind \in Handshakes
    <2>1. sent = <<>> \/ (Len(sent) = 1 /\ sent[1].kind = "ssl")
      BY <1>1 DEF MaySend, Handshakes, Commands
    <2> QED BY <1>1, <2>1 DEF Handshakes, Commands
  <1>2. CASE kind = "auth"
    <2>1. Asked
      BY <1>2 DEF MaySend, Handshakes, Commands
    <2> QED BY <1>2, <2>1 DEF Handshakes, Commands
  <1>3. CASE kind \in Commands
    BY <1>3 DEF Handshakes, Commands
  <1> QED BY <1>1, <1>2, <1>3 DEF MyKinds

\* Once an OK is there, the client sends commands only.
LEMMA AfterOk ==
  ASSUME IInv, NEW kind \in MyKinds, MaySend(kind), NEW p \in Replies, p.kind = "ok"
  PROVE  kind \in Commands
  <1>1. ServedId(p.id)
    BY DEF IInv, Dialogue
  <1>2. PICK k \in 1..served : toServer[k].msg.id = p.id
    BY <1>1 DEF ServedId
  <1>3. toServer \in Seq(Cell) /\ k \in 1..Len(toServer) /\ toServer # <<>> /\ Len(toServer) \in Nat
        /\ 1 \in 1..Len(toServer) /\ Len(sent) \in Nat
    BY DEF IInv, ServerInv, Orderly, Cell, SentInv
  <1>4. /\ p.id \in 1..Len(sent) /\ toServer[1].msg.kind = "response"
        /\ toServer[1].msg.id \in 1..Len(sent) /\ toServer[1].msg = sent[toServer[1].msg.id]
    BY <1>2, <1>3 DEF IInv, ServerInv, From
  <1>5. kind \notin Handshakes
    <2> SUFFICES ASSUME kind \in Handshakes PROVE FALSE
      OBVIOUS
    <2>1. sent = <<>> \/ (Len(sent) = 1 /\ sent[1].kind = "ssl")
      BY MaySendFacts
    <2>2. sent # <<>>
      BY <1>4
    <2>3. toServer[1].msg.id = 1
      BY <1>4, <2>1, <2>2
    <2> QED BY <1>4, <2>1, <2>2, <2>3
  <1>6. kind # "auth"
    <2> SUFFICES ASSUME kind = "auth" PROVE FALSE
      OBVIOUS
    <2>1. Asked
      BY MaySendFacts
    <2>2. PICK i \in 1..Len(toClient) : toClient[i].msg.kind = "more" /\ toClient[i].msg.id = Len(sent)
      BY <2>1 DEF Asked
    <2>q. PICK q : q = toClient[i].msg
      OBVIOUS
    <2>3. q \in Replies /\ q.kind = "more" /\ q.id = Len(sent)
      BY <2>2, <2>q DEF Replies, Said
    <2>4. q.id < p.id
      BY <2>3 DEF IInv, Dialogue
    <2> QED BY <1>3, <1>4, <2>3, <2>4
  <1> QED BY <1>5, <1>6 DEF MyKinds

\* The client sends a packet.
LEMMA ClientSendsKeeps ==
  ASSUME IInv, NEW kind \in MyKinds, NEW stray \in BOOLEAN, ClientSends(kind, stray)
  PROVE  IInv'
  <1>m. PICK m : m = [id |-> Len(sent) + 1, kind |-> kind, size |-> MySizes[kind],
                      seq |-> SequenceId(stray), early |-> ~Got("ok")]
    OBVIOUS
  <1>u. PICK u : u = sent'
    OBVIOUS
  <1>1. /\ u = Append(sent, m) /\ c2p' = c2p \o Whole(m) /\ MaySend(kind) /\ clientSock = "open"
        /\ Len(sent) < MaxSent
        /\ UNCHANGED <<served, b2p, serverGone, toServer, toClient, clientSock, serverSock, buf,
                       queue, bbuf, handler, backendTask, clientTask, greeted, auth, phase, parts,
                       closing, inspected, granted>>
    BY <1>m, <1>u DEF ClientSends, Send, Whole, server, sockets, frames, relay
  <1>2. /\ m \in Msg /\ m.id = Len(sent) + 1 /\ m.kind = kind /\ m.size = MySizes[kind]
        /\ m.size \in Nat \ {0} /\ m.early = ~Got("ok")
    <2>1. SequenceId(stray) \in Nat
      <3>1. SequenceIds \in Nat \ {0}
        BY MyWireAssumption
      <3>2. Len(sent) \in Nat /\ (Len(sent) > 0 => sent[Len(sent)].seq \in Nat)
        <4>1. sent \in Seq(Msg)
          BY DEF IInv, SentInv
        <4>2. Len(sent) > 0 => sent[Len(sent)] \in Msg
          BY <4>1
        <4> QED BY <4>1, <4>2 DEF Msg
      <3>3. \A x \in Nat : (x + 1) % SequenceIds \in Nat
        BY <3>1
      <3> QED BY <3>1, <3>2, <3>3 DEF SequenceId
    <2>2. Len(sent) + 1 \in Nat /\ MySizes[kind] \in Nat \ {0}
      BY MyWireAssumption DEF IInv, SentInv
    <2> QED BY <1>m, <2>1, <2>2 DEF Msg
  <1>3. /\ sent \in Seq(Msg) /\ Len(sent) \in Nat /\ u \in Seq(Msg) /\ Len(u) = Len(sent) + 1
        /\ \A i \in 1..Len(sent) : u[i] = sent[i]
        /\ u[Len(sent) + 1] = m
    BY <1>1, <1>2, AppendFacts DEF IInv, SentInv
  <1>4. ASSUME NEW i \in 1..Len(u) PROVE (i \in 1..Len(sent) /\ u[i] = sent[i]) \/ (i = Len(sent) + 1 /\ u[i] = m)
    BY <1>3
  <1>5. SentInv'
    <2>1. Len(u) <= MaxSent
      BY <1>1, <1>3, WireAssumption
    <2>2. \A i \in 1..Len(u) : u[i].id = i /\ u[i].size = MySizes[u[i].kind]
      BY <1>2, <1>4 DEF IInv, SentInv
    <2>3. ASSUME NEW i \in 1..Len(u), u[i].kind \in Handshakes
          PROVE  i = 1 \/ (i = 2 /\ u[1].kind = "ssl")
      <3>1. CASE i \in 1..Len(sent) /\ u[i] = sent[i]
        <4>1. i = 1 \/ (i = 2 /\ sent[1].kind = "ssl")
          BY <2>3, <3>1 DEF IInv, SentInv
        <4>2. 1 \in 1..Len(sent)
          BY <1>3, <3>1
        <4> QED BY <1>3, <4>1, <4>2
      <3>2. CASE i = Len(sent) + 1 /\ u[i] = m
        <4>1. sent = <<>> \/ (Len(sent) = 1 /\ sent[1].kind = "ssl")
          BY <1>1, <1>2, <2>3, <3>2, MaySendFacts
        <4>2. Len(sent) = 1 => u[1] = sent[1]
          BY <1>3
        <4> QED BY <1>3, <3>2, <4>1, <4>2
      <3> QED BY <1>4, <3>1, <3>2
    <2> QED BY <1>u, <1>3, <2>1, <2>2, <2>3 DEF SentInv
  <1>6. ASSUME NEW s, From(s) PROVE \A i \in 1..Len(s) : s[i].msg.id \in 1..Len(u) /\ s[i].msg = u[s[i].msg.id]
    BY <1>3, <1>6 DEF From
  <1>7. ServerInv'
    <2>1. From(toServer)'
      BY <1>u, <1>1, <1>6 DEF IInv, ServerInv, From
    <2> QED BY <1>1, <2>1 DEF IInv, ServerInv
  <1>8. RelayTyped'
    <2>1. inspected \in SUBSET (1..Len(u))
      BY <1>3 DEF IInv, RelayTyped
    <2> QED BY <1>u, <1>1, <2>1 DEF IInv, RelayTyped
  <1>9. AnswersInv' /\ Replies' = Replies /\ \A n : ServedId(n)' <=> ServedId(n)
    BY <1>1 DEF IInv, AnswersInv, Answers, ServedId, Replies, Said
  <1>10. \A p \in Replies : p.kind = "ok" => kind \in Commands
    BY <1>1, AfterOk
  <1>11. Dialogue'
    <2>1. ASSUME NEW p \in Replies, p.kind \in {"more", "ok"} PROVE ServedId(p.id)'
      BY <1>9, <2>1 DEF IInv, Dialogue
    <2>2. /\ \A p, q \in Replies : p.kind = "ok" /\ q.kind = "more" => q.id < p.id
          /\ granted \in BOOLEAN /\ \A p \in Replies : p.kind = "ok" => granted
      BY DEF IInv, Dialogue
    <2>3. ASSUME NEW p \in Replies, p.kind = "ok", NEW i \in 1..Len(u), u[i].kind \notin Commands
          PROVE  i <= p.id
      <3>1. i \in 1..Len(sent) /\ u[i] = sent[i]
        BY <1>2, <1>4, <1>10, <2>3
      <3> QED BY <2>3, <3>1 DEF IInv, Dialogue
    <2>4. ASSUME NEW i \in 1..Len(u), u[i].kind = "auth"
          PROVE  \E j \in 1..Len(toClient) : toClient[j].msg.kind = "more" /\ toClient[j].msg.id = i - 1
      <3>1. CASE i \in 1..Len(sent) /\ u[i] = sent[i]
        BY <2>4, <3>1 DEF IInv, Dialogue
      <3>2. CASE i = Len(sent) + 1 /\ u[i] = m
        <4>1. Asked
          BY <1>1, <1>2, <2>4, <3>2, MaySendFacts
        <4>2. i - 1 = Len(sent)
          BY <1>3, <3>2
        <4> QED BY <4>1, <4>2 DEF Asked
      <3> QED BY <1>4, <3>1, <3>2
    <2> QED BY <1>u, <1>1, <1>9, <2>1, <2>2, <2>3, <2>4 DEF Dialogue
  <1>12. PhaseInv'
    <2>1. ASSUME phase = "authentication", NEW i \in 1..Len(u), u[i].kind \in Commands PROVE u[i].early
      <3>1. CASE i \in 1..Len(sent) /\ u[i] = sent[i]
        BY <2>1, <3>1 DEF IInv, PhaseInv
      <3>2. CASE i = Len(sent) + 1 /\ u[i] = m
        <4>1. ~Got("ok")
          BY <2>1 DEF IInv, PhaseInv, Got
        <4> QED BY <1>2, <3>2, <4>1
      <3> QED BY <1>4, <3>1, <3>2
    <2>2. \A i \in 1..Len(sent') : phase = "authentication" /\ sent'[i].kind \in Commands => sent'[i].early
      BY <1>u, <2>1
    <2> QED BY <1>1, <2>2 DEF IInv, PhaseInv
  <1>13. CommandsAreInspected'
    <2>1. ASSUME NEW i \in 1..Len(u), u[i].kind \notin Commands PROVE i \notin inspected
      <3>1. CASE i \in 1..Len(sent) /\ u[i] = sent[i]
        BY <2>1, <3>1 DEF IInv, CommandsAreInspected
      <3>2. CASE i = Len(sent) + 1 /\ u[i] = m
        BY <1>3, <3>2 DEF IInv, RelayTyped
      <3> QED BY <1>4, <3>1, <3>2
    <2>2. \A i \in 1..Len(sent') : sent'[i].kind \notin Commands => i \notin inspected
      BY <1>u, <2>1
    <2> QED BY <1>1, <2>2 DEF IInv, CommandsAreInspected
  <1>14. ASSUME Active PROVE \E d \in 1..Len(u) + 1 : Flow(d)'
    <2>1. PICK d \in 1..Len(sent) + 1 : Flow(d)
      BY <1>14 DEF IInv
    <2>s. PICK s : s = buf \o c2p
      OBVIOUS
    <2>t. PICK t : t = s \o Whole(m)
      OBVIOUS
    <2>e. PICK e : e = d + Len(queue)
      OBVIOUS
    <2>2. /\ queue \in Seq(Seq(Cell)) /\ buf \in Seq(Cell) /\ c2p \in Seq(Cell) /\ Len(queue) \in Nat
          /\ \A j \in 1..Len(queue) : d + j - 1 <= Len(sent) /\ queue[j] = Whole(sent[d + j - 1])
          /\ Incoming(s, e) /\ s \in Seq(Cell)
      BY <2>1, <2>s, <2>e, ConcatType DEF Flow, QueueFlow
    <2>3. /\ Whole(m) \in Seq(Cell) /\ Len(Whole(m)) = m.size
          /\ \A i \in 1..m.size : Whole(m)[i] = [msg |-> m, at |-> i]
      BY <1>2, MsgFacts, WholeFacts DEF Cell
    <2>4. c2p' \in Seq(Cell) /\ buf' \o c2p' = t
      <3>w. PICK w : w = Whole(m)
        OBVIOUS
      <3>1. buf \in Seq(Cell) /\ c2p \in Seq(Cell) /\ w \in Seq(Cell)
        BY <2>2, <2>3, <3>w
      <3>2. (buf \o c2p) \o w = buf \o (c2p \o w)
        BY ONLY <3>1, ConcatAssoc
      <3>3. c2p \o w \in Seq(Cell)
        BY ONLY <3>1, ConcatType
      <3> QED BY <1>1, <2>s, <2>t, <3>w, <3>2, <3>3
    <2>5. Orderly(t, Msg, Msg)
      <3>1. Orderly(s, Msg, Msg) /\ m \in Msg /\ m.size \in Nat
        BY <1>2, <2>2 DEF Incoming
      <3>2. Sendable(s, m, m.size, Msg)
        BY <1>2, <1>3, <2>2 DEF Sendable, Incoming, From
      <3>3. Orderly(s \o Bytes(m, m.size), Msg, Msg)
        BY <3>1, <3>2, SendLined
      <3> QED BY <2>t, <3>3 DEF Whole
    <2>6. /\ t \in Seq(Cell) /\ Len(s) \in Nat /\ Len(t) = Len(s) + m.size
          /\ \A i \in 1..Len(s) : t[i] = s[i]
          /\ \A i \in Len(s) + 1..Len(s) + m.size : t[i] = Whole(m)[i - Len(s)]
      <3>w. PICK w : w = Whole(m)
        OBVIOUS
      <3>1. /\ t \in Seq(Cell) /\ Len(s) \in Nat /\ Len(t) = Len(s) + Len(w)
            /\ \A i \in 1..Len(s) : t[i] = s[i]
            /\ \A i \in Len(s) + 1..Len(s) + Len(w) : t[i] = w[i - Len(s)]
        BY <2>t, <2>2, <2>3, <3>w, ConcatFacts
      <3> QED BY <2>3, <3>w, <3>1
    <2>7. ASSUME NEW i \in Len(s) + 1..Len(t) PROVE t[i].msg = m
      <3>1. i - Len(s) \in 1..m.size /\ i \in Len(s) + 1..Len(s) + m.size
        BY <1>2, <2>6
      <3>2. t[i] = [msg |-> m, at |-> i - Len(s)]
        BY <2>3, <2>6, <3>1
      <3> QED BY <3>2
    <2>8. ASSUME NEW i \in 1..Len(t) PROVE t[i].msg.id \in 1..Len(u) /\ t[i].msg = u[t[i].msg.id]
      <3>1. CASE i \in 1..Len(s)
        <4>1. s[i].msg.id \in 1..Len(u) /\ s[i].msg = u[s[i].msg.id]
          BY <1>6, <2>2, <3>1 DEF Incoming
        <4> QED BY <2>6, <3>1, <4>1
      <3>2. CASE i \in Len(s) + 1..Len(t)
        BY <1>2, <1>3, <2>7, <3>2
      <3> QED BY <2>6, <3>1, <3>2
    <2>9. Gapless(t)
      <3> SUFFICES ASSUME NEW i \in 1..Len(t) - 1 PROVE t[i + 1].msg.id <= t[i].msg.id + 1
        BY DEF Gapless
      <3>1. CASE i + 1 \in 1..Len(s)
        <4>1. i \in 1..Len(s) - 1 /\ t[i] = s[i] /\ t[i + 1] = s[i + 1]
          BY <2>6, <3>1
        <4> QED BY <2>2, <4>1 DEF Incoming, Gapless
      <3>2. CASE i = Len(s)
        <4>1. t[i] = s[Len(s)] /\ s # <<>> /\ i + 1 \in Len(s) + 1..Len(t)
          BY <2>6, <3>2
        <4>2. s[Len(s)].msg.id = Len(sent)
          BY <2>2, <4>1 DEF Incoming
        <4> QED BY <1>2, <1>3, <2>7, <4>1, <4>2
      <3>3. CASE i \in Len(s) + 1..Len(t)
        <4>1. i + 1 \in Len(s) + 1..Len(t)
          BY <2>6, <3>3
        <4> QED BY <1>2, <1>3, <2>7, <3>3, <4>1
      <3> QED BY <2>6, <3>1, <3>2, <3>3
    <2>10. t # <<>> /\ t[1].msg.id = e /\ t[Len(t)].msg.id = Len(u)
      <3>1. Len(t) \in Len(s) + 1..Len(t) /\ Len(t) # 0
        BY <1>2, <2>6
      <3>2. t[Len(t)].msg.id = Len(u)
        BY <1>2, <1>3, <2>7, <3>1
      <3>3. CASE s = <<>>
        <4>1. 1 \in Len(s) + 1..Len(t) /\ e = Len(sent) + 1
          BY <2>2, <3>1, <3>3 DEF Incoming
        <4> QED BY <1>2, <2>7, <3>1, <3>2, <4>1
      <3>4. CASE s # <<>>
        <4>1. t[1] = s[1] /\ s[1].msg.id = e
          BY <2>2, <2>6, <3>4 DEF Incoming
        <4> QED BY <3>1, <3>2, <4>1
      <3> QED BY <3>3, <3>4
    <2>11. Incoming(buf \o c2p, d + Len(queue))'
      BY <1>u, <1>1, <2>e, <2>4, <2>5, <2>8, <2>9, <2>10 DEF Incoming, From
    <2>12. \A j \in 1..Len(queue) : d + j - 1 <= Len(u) /\ queue[j] = Whole(u[d + j - 1])
      <3> SUFFICES ASSUME NEW j \in 1..Len(queue) PROVE d + j - 1 <= Len(u) /\ queue[j] = Whole(u[d + j - 1])
        OBVIOUS
      <3>1. d + j - 1 \in 1..Len(sent) /\ queue[j] = Whole(sent[d + j - 1])
        <4>1. d + j - 1 <= Len(sent) /\ queue[j] = Whole(sent[d + j - 1])
          BY <2>2
        <4>2. d + j - 1 \in Nat \ {0}
          <5>1. PICK n : n = Len(queue) /\ n \in Nat
            BY <2>2
          <5>2. PICK k : k = Len(sent) /\ k \in Nat
            BY <1>3
          <5>3. d \in 1..k + 1 /\ j \in 1..n
            BY <5>1, <5>2
          <5> QED BY ONLY <5>1, <5>2, <5>3
        <4>3. Len(sent) \in Nat
          BY <1>3
        <4> QED BY <4>1, <4>2, <4>3
      <3> QED BY <1>3, <3>1
    <2>13. QueueFlow(d)'
      BY <1>u, <1>1, <2>1, <2>2, <2>4, <2>11, <2>12 DEF Flow, QueueFlow
    <2>14. \A i \in 1..d - 1 : u[i] = sent[i]
      BY <1>3
    <2>15. HeldFlow(d)'
      <3>0. parts \in Seq(Seq(Cell)) /\ Len(parts) \in Nat /\ Len(parts) < d /\ d \in Nat
        BY <2>1 DEF Flow, HeldFlow
      <3>1. ASSUME NEW j \in 1..Len(parts)
            PROVE  /\ parts[j] = Whole(u[d - Len(parts) + j - 1])
                   /\ u[d - Len(parts) + j - 1].kind \in Commands
        <4>1. d - Len(parts) + j - 1 \in 1..d - 1
          BY <3>0
        <4>2. /\ parts[j] = Whole(sent[d - Len(parts) + j - 1])
              /\ sent[d - Len(parts) + j - 1].kind \in Commands
          BY <2>1 DEF Flow, HeldFlow
        <4> QED BY <2>14, <4>1, <4>2
      <3>2. ASSUME phase = "command", NEW i \in d..Len(u) PROVE u[i].kind \in Commands
        <4>1. CASE i \in 1..Len(sent) /\ u[i] = sent[i]
          <5>1. i \in d..Len(sent)
            BY <4>1
          <5> QED BY <2>1, <3>2, <4>1, <5>1 DEF Flow, HeldFlow
        <4>2. CASE i = Len(sent) + 1 /\ u[i] = m
          <5>1. PICK k \in 1..Len(toClient) : toClient[k].msg.kind = "ok"
            BY <1>1, <3>2 DEF IInv, PhaseInv
          <5>2. toClient[k].msg \in Replies
            BY <5>1 DEF Replies, Said
          <5> QED BY <1>2, <1>10, <4>2, <5>1, <5>2
        <4>3. i \in 1..Len(u)
          BY <1>3, <3>0
        <4> QED BY <1>4, <4>1, <4>2, <4>3
      <3>3. /\ \A i \in 1..Len(toServer) : toServer[i].msg.id < d - Len(parts)
            /\ phase # "command" => parts = <<>>
            /\ clientTask = "decide" => phase = "command"
        BY <2>1 DEF Flow, HeldFlow
      <3>4. phase = "command" => \A i \in d..Len(sent') : sent'[i].kind \in Commands
        BY <1>u, <3>2
      <3>5. \A j \in 1..Len(parts) : LET x == sent'[d - Len(parts) + j - 1]
                                     IN  parts[j] = Whole(x) /\ x.kind \in Commands
        BY <1>u, <3>1
      <3> QED BY <1>1, <3>0, <3>3, <3>4, <3>5 DEF HeldFlow
    <2>16. ASSUME ShortAuthentication PROVE Packed(d)'
      <3>0. Packed(d) /\ Len(parts) \in Nat /\ Len(parts) < d /\ d \in Nat
        BY <2>1, <2>16 DEF Flow, HeldFlow
      <3>1. \A j \in d - Len(parts)..d - 1 : j \in 1..d - 1
        BY <3>0
      <3>2. \A j \in d - Len(parts)..d - 1 : Continued(u[j])
        BY <2>14, <3>0, <3>1 DEF Packed
      <3>3. ASSUME NEW j \in d - Len(parts)..d - 2 PROVE Follows(u[j], u[j + 1])
        <4>1. j \in 1..d - 1 /\ j + 1 \in 1..d - 1
          BY <3>0
        <4>2. Follows(sent[j], sent[j + 1])
          BY <3>0 DEF Packed
        <4> QED BY <2>14, <4>1, <4>2
      <3>4. d - Len(parts) > 1 => ~JoinsNext(u[d - Len(parts) - 1])
        <4>1. d - Len(parts) > 1 => d - Len(parts) - 1 \in 1..d - 1
          BY <3>0
        <4> QED BY <2>14, <3>0, <4>1 DEF Packed
      <3>5. clientTask = "decide" => ~Continued(u[d]) /\ (parts # <<>> => Follows(u[d - 1], u[d]))
        <4> SUFFICES ASSUME clientTask = "decide"
                     PROVE  ~Continued(u[d]) /\ (parts # <<>> => Follows(u[d - 1], u[d]))
          OBVIOUS
        <4>1. Len(queue) > 0
          BY <2>1 DEF Flow, QueueFlow
        <4>2. 1 \in 1..Len(queue) /\ d + 1 - 1 = d
          BY <2>2, <3>0, <4>1
        <4>3. d \in 1..Len(sent)
          BY <2>2, <4>2
        <4>4. parts # <<>> => d - 1 \in 1..Len(sent)
          <5>1. parts # <<>> => Len(parts) > 0
            BY <2>1 DEF Flow, HeldFlow
          <5> QED BY <3>0, <4>3, <5>1
        <4> QED BY <1>3, <3>0, <4>3, <4>4 DEF Packed
      <3> QED BY <1>u, <1>1, <3>2, <3>3, <3>4, <3>5 DEF Packed
    <2>17. Flow(d)'
      BY <2>13, <2>15, <2>16 DEF Flow, ShortAuthentication
    <2>18. d \in 1..Len(u) + 1
      BY <1>3
    <2> QED BY <2>17, <2>18
  <1>15. ASSUME ShortAuthentication PROVE PackInv'
    <2>1. ASSUME NEW i \in 2..Len(toServer) PROVE toServer[i].at = 1 => toServer[i].msg.id - 1 \in 1..Len(sent)
      <3>0. toServer \in Seq(Cell) /\ Len(toServer) \in Nat
        BY DEF IInv, ServerInv, Orderly, Cell
      <3>1. i - 1 \in 1..Len(toServer) - 1 /\ i - 1 \in 1..Len(toServer) /\ i \in 1..Len(toServer)
            /\ (i - 1) + 1 = i
        BY <3>0
      <3>2. toServer[i].msg.id \in 1..Len(sent) /\ toServer[i - 1].msg.id \in 1..Len(sent)
        BY <3>1 DEF IInv, ServerInv, From
      <3>3. \/ toServer[i].at = toServer[i - 1].at + 1
            \/ toServer[i - 1].msg.id < toServer[i].msg.id
        <4>1. Lined(toServer, Msg)
          BY DEF IInv, ServerInv, Orderly
        <4> QED BY <3>1, <4>1 DEF Lined
      <3>4. toServer[i - 1].at \in Nat \ {0}
        BY <3>0, <3>1, MsgFacts, CellFacts DEF Cell
      <3>5. PICK k, a, b : k = Len(sent) /\ a = toServer[i].msg.id /\ b = toServer[i - 1].msg.id
        OBVIOUS
      <3>6. k \in Nat /\ a \in 1..k /\ b \in 1..k
        BY <1>3, <3>2, <3>5
      <3>7. ASSUME toServer[i].at = 1 PROVE b < a
        BY <3>3, <3>4, <3>5, <3>7
      <3>8. b < a => a - 1 \in 1..k
        BY ONLY <3>6
      <3> QED BY <3>5, <3>7, <3>8
    <2>2. Joined(toServer)'
      <3>1. Joined(toServer)
        BY <1>15 DEF IInv, PackInv
      <3>2. \A i \in 2..Len(toServer) : toServer[i].at = 1 =>
              u[toServer[i].msg.id - 1] = sent[toServer[i].msg.id - 1]
        BY <1>3, <2>1
      <3> QED BY <1>u, <1>1, <3>1, <3>2 DEF Joined
    <2> QED BY <1>1, <1>15, <2>2 DEF IInv, PackInv
  <1>16. Active' => \E d \in 1..Len(sent') + 1 : Flow(d)'
    BY <1>u, <1>1, <1>14 DEF Active
  <1> QED BY <1>5, <1>7, <1>8, <1>9, <1>11, <1>12, <1>13, <1>15, <1>16 DEF IInv, ShortAuthentication

-----------------------------------------------------------------------------
(***************************************************************************)
(* The server.                                                             *)
(***************************************************************************)
\* A packet of the server behind all it has said before.
LEMMA AnswerAppended ==
  ASSUME AnswersInv, NEW r \in SMsg, \A i \in 1..Len(Answers) : Answers[i].msg.id < r.id,
         b2p' = b2p \o Whole(r), UNCHANGED bbuf
  PROVE  /\ b2p' \in Seq(SCell) /\ Orderly(Answers', SMsg, SMsg)
         /\ \A i \in 1..Len(Answers') :
              Answers'[i].msg = r \/ (i \in 1..Len(Answers) /\ Answers'[i] = Answers[i])
         /\ Said(Answers') \subseteq Said(Answers) \cup {r}
  <1>s. PICK s : s = Answers
    OBVIOUS
  <1>w. PICK w : w = Whole(r)
    OBVIOUS
  <1>t. PICK t : t = Answers'
    OBVIOUS
  <1>1. r.size \in Nat /\ r.id \in Nat
    BY DEF SMsg
  <1>2. bbuf \in Seq(SCell) /\ b2p \in Seq(SCell) /\ w \in Seq(SCell)
    <2>1. w = [j \in 1..r.size |-> [msg |-> r, at |-> j]] /\ \A j \in 1..r.size : [msg |-> r, at |-> j] \in SCell
      BY <1>w, <1>1 DEF Whole, Bytes, SCell, Cells
    <2>2. w \in Seq(SCell)
      BY ONLY <1>1, <2>1
    <2> QED BY <2>2 DEF AnswersInv
  <1>3. t = s \o w /\ b2p' \in Seq(SCell)
    <2>1. (bbuf \o b2p) \o w = bbuf \o (b2p \o w)
      BY ONLY <1>2, ConcatAssoc
    <2>2. b2p \o w \in Seq(SCell)
      BY ONLY <1>2, ConcatType
    <2> QED BY <1>s, <1>w, <1>t, <2>1, <2>2 DEF Answers
  <1>4. /\ Orderly(t, SMsg, SMsg)
        /\ \A i \in 1..Len(t) : t[i].msg = r \/ (i \in 1..Len(s) /\ t[i] = s[i])
    <2>1. Orderly(s, SMsg, SMsg) /\ Sendable(s, r, r.size, SMsg)
      BY <1>s DEF AnswersInv, Sendable
    <2>2. /\ Orderly(s \o Bytes(r, r.size), SMsg, SMsg)
          /\ \A i \in 1..Len(s \o Bytes(r, r.size)) :
               \/ (s \o Bytes(r, r.size))[i].msg = r
               \/ i \in 1..Len(s) /\ (s \o Bytes(r, r.size))[i] = s[i]
      BY ONLY <1>1, <2>1, r \in SMsg, SendLined
    <2>3. t = s \o Bytes(r, r.size)
      BY <1>w, <1>3 DEF Whole
    <2> QED BY <2>2, <2>3
  <1>5. Said(t) \subseteq Said(s) \cup {r}
    BY <1>4 DEF Said
  <1> QED BY <1>s, <1>t, <1>3, <1>4, <1>5

\* A step of the server that says nothing which ends or continues the
\* authentication.
LEMMA ServerStepKeeps ==
  ASSUME IInv, ServerInv', AnswersInv', Dialogue', serverGone' \in BOOLEAN,
         UNCHANGED <<sent, c2p, toServer, toClient, clientSock, serverSock, buf, queue, bbuf,
                     handler, clientTask, greeted, auth, phase, parts, inspected>>
  PROVE  IInv'
  <1>1. RelayTyped' /\ SentInv'
    BY DEF IInv, RelayTyped, SentInv
  <1>2. PhaseInv' /\ CommandsAreInspected'
    BY DEF IInv, PhaseInv, CommandsAreInspected
  <1>3. Active' => \E d \in 1..Len(sent') + 1 : Flow(d)'
    <2> SUFFICES ASSUME Active PROVE \E d \in 1..Len(sent) + 1 : Flow(d)'
      BY DEF Active
    <2>1. PICK d \in 1..Len(sent) + 1 : Flow(d)
      BY DEF IInv
    <2>2. Flow(d)'
      BY <2>1, FlowSame
    <2> QED BY <2>2
  <1>4. ShortAuthentication => PackInv'
    BY DEF IInv, PackInv, Joined
  <1> QED BY <1>1, <1>2, <1>3, <1>4 DEF IInv, ShortAuthentication

\* The next packet the server can read.
LEMMA UnservedFacts ==
  ASSUME IInv, Unserved # <<>>, NEW m, m = Unserved[1].msg
  PROVE  /\ m \in Msg /\ m.id \in 1..Len(sent) /\ m = sent[m.id]
         /\ served + m.size \in 0..Len(toServer) /\ EndsAt(toServer, served + m.size, Msg)
         /\ served + 1 \in 1..served + m.size /\ toServer[served + 1].msg = m
         /\ toServer[1].msg.kind = "response" /\ toServer[1].msg.id \in 1..m.id
         /\ toServer[1].msg = sent[toServer[1].msg.id]
         /\ \A n : ServedId(n) => n \in Nat /\ n < m.id
  <1>u. PICK u : u = Unserved
    OBVIOUS
  <1>v. PICK v : v = toServer
    OBVIOUS
  <1>1. Orderly(v, Msg, Msg) /\ From(v) /\ served \in 0..Len(v) /\ EndsAt(v, served, Msg)
    BY <1>v DEF IInv, ServerInv
  <1>2. v \in Seq(Cell) /\ Len(v) \in Nat /\ served \in Nat
    BY <1>1 DEF Orderly, Cell
  <1>3. /\ Orderly(u, Msg, Msg) /\ Len(u) = Len(v) - served
        /\ \A j \in 1..Len(u) : /\ j + served \in 1..Len(v) /\ u[j] = v[j + served]
                                /\ \A i \in 1..served : v[i].msg.id < u[j].msg.id
    <2>1. u = Drop(v, served)
      BY <1>u, <1>v DEF Unserved
    <2> QED BY <1>1, <2>1, CutStream
  <1>4. Len(u) > 0 /\ Len(u) \in Nat
    <2>1. u \in Seq(Cell) /\ u # <<>>
      BY <1>u, <1>3 DEF Orderly, Cell
    <2> QED BY <2>1
  <1>5. /\ u[1].msg \in Msg /\ u[1].msg.size \in 1..Len(u) /\ EndsAt(u, u[1].msg.size, Msg)
    BY <1>3, <1>4, FirstIsWhole
  <1>6. m = u[1].msg /\ m \in Msg /\ m.size \in 1..Len(u) /\ EndsAt(u, m.size, Msg) /\ m.size \in Nat
    BY <1>u, <1>5 DEF Msg
  <1>7. 1 \in 1..Len(u) /\ 1 + served = served + 1 /\ served + 1 \in 1..Len(v) /\ u[1] = v[served + 1]
    <2>1. 1 \in 1..Len(u) /\ 1 + served = served + 1
      BY <1>2, <1>4
    <2> QED BY <1>3, <2>1
  <1>8. m.id \in 1..Len(sent) /\ m = sent[m.id]
    BY <1>1, <1>6, <1>7 DEF From
  <1>9. served + m.size \in 0..Len(v) /\ served + 1 \in 1..served + m.size
    BY <1>2, <1>3, <1>6
  <1>10. EndsAt(v, served + m.size, Msg)
    <2>1. m.size + served = served + m.size /\ u[m.size] = v[m.size + served] /\ m.size > 0
      BY <1>2, <1>3, <1>6
    <2> QED BY <1>6, <2>1 DEF EndsAt
  <1>11. ASSUME NEW n, ServedId(n) PROVE n \in Nat /\ n < m.id
    <2>1. PICK k \in 1..served : v[k].msg.id = n
      BY <1>v, <1>11 DEF ServedId
    <2>2. v[k].msg.id < u[1].msg.id /\ k \in 1..Len(v)
      BY <1>2, <1>1, <1>3, <1>7
    <2>3. v[k].msg.id \in Nat
      BY <1>2, <2>2, MsgFacts, CellFacts DEF Cell
    <2> QED BY <1>6, <2>1, <2>2, <2>3
  <1>12. v[1].msg.kind = "response" /\ v[1].msg.id \in 1..m.id /\ v[1].msg = sent[v[1].msg.id]
    <2>1. 1 \in 1..Len(v) /\ 1 <= served + 1 /\ v # <<>>
      BY <1>2, <1>7
    <2>2. v[1].msg.id <= v[served + 1].msg.id
      BY <1>1, <1>7, <2>1 DEF Orderly, Lined
    <2>3. v[1].msg.id \in 1..Len(sent) /\ v[1].msg = sent[v[1].msg.id]
      BY <1>1, <2>1 DEF From
    <2>4. v[1].msg.kind = "response"
      BY <1>v, <2>1 DEF IInv, ServerInv
    <2> QED BY <1>6, <1>7, <1>8, <2>2, <2>3, <2>4
  <1> QED BY <1>v, <1>6, <1>7, <1>8, <1>9, <1>10, <1>11, <1>12

\* When the server deals with a packet of the authentication, the client has
\* sent no other behind it.
LEMMA LastOfAuthentication ==
  ASSUME IInv, Unserved # <<>>, NEW m, m = Unserved[1].msg,
         NEW i \in 1..Len(sent), sent[i].kind \notin Commands
  PROVE  i <= m.id
  <1> SUFFICES ASSUME i > m.id PROVE FALSE
    BY UnservedFacts
  <1>1. /\ m.id \in 1..Len(sent) /\ m = sent[m.id] /\ toServer[1].msg.kind = "response"
        /\ toServer[1].msg.id \in 1..m.id /\ toServer[1].msg = sent[toServer[1].msg.id]
        /\ \A n : ServedId(n) => n \in Nat /\ n < m.id
    BY UnservedFacts
  <1>2. sent[i] \in Msg
    BY SentFacts DEF IInv
  <1>3. CASE sent[i].kind \in Handshakes
    <2>1. i = 1 \/ (i = 2 /\ sent[1].kind = "ssl")
      BY <1>3 DEF IInv, SentInv
    <2>2. m.id = 1 /\ sent[1].kind = "ssl"
      BY <1>1, <2>1
    <2>3. toServer[1].msg.id = 1
      BY <1>1, <2>2
    <2> QED BY <1>1, <2>2, <2>3
  <1>4. CASE sent[i].kind = "auth"
    <2>1. PICK j \in 1..Len(toClient) : toClient[j].msg.kind = "more" /\ toClient[j].msg.id = i - 1
      BY <1>4 DEF IInv, Dialogue
    <2>2. toClient[j].msg \in Replies
      BY <2>1 DEF Replies, Said
    <2>3. ServedId(i - 1)
      BY <2>1, <2>2 DEF IInv, Dialogue
    <2>4. i - 1 < m.id
      BY <1>1, <2>3
    <2> QED BY <1>1, <2>4
  <1> QED BY <1>2, <1>3, <1>4 DEF Msg, MyKinds

\* The server answers the packet it has read.
LEMMA ServerAnswersKeeps ==
  ASSUME IInv, ServerAnswers
  PROVE  IInv'
  <1>m. PICK m : m = Unserved[1].msg
    OBVIOUS
  <1>1. /\ serverSock = "open" /\ ~serverGone /\ Unserved # <<>> /\ serverGone' \in BOOLEAN
        /\ served' = served + m.size
        /\ UNCHANGED <<sent, c2p, toServer, toClient, clientSock, serverSock, buf, queue, bbuf,
                       handler, clientTask, greeted, auth, phase, parts, inspected>>
    BY <1>m DEF ServerAnswers, ServerHas, Serve, client, sockets, frames, relay, IInv, RelayTyped
  <1>2. \/ b2p' = b2p /\ UNCHANGED <<serverGone, granted>>
        \/ \E r \in SMsg : /\ r.id = m.id /\ b2p' = b2p \o Whole(r)
                           /\ r.kind \in {"more", "ok"} => ~granted /\ granted' = (r.kind = "ok")
                           /\ r.kind \notin {"more", "ok"} => UNCHANGED granted
    <2>0. m \in Msg /\ MyHeader + 1 \in Nat /\ m.id \in Nat
      <3>1. m \in Msg
        BY <1>m, <1>1, UnservedFacts
      <3> QED BY <3>1, MyWireAssumption DEF Msg
    <2>1. \A kind \in {"more", "ok", "err", "result"} :
            Reply(m, kind) \in SMsg /\ Reply(m, kind).id = m.id /\ Reply(m, kind).kind = kind
      BY <2>0 DEF Reply, SMsg
    <2>2. CASE ~granted /\ \E kind \in {"more", "ok"} :
                             Serve(Whole(Reply(m, kind))) /\ granted' = (kind = "ok")
      <3>1. PICK kind \in {"more", "ok"} : b2p' = b2p \o Whole(Reply(m, kind)) /\ granted' = (kind = "ok")
        BY <2>2 DEF Serve
      <3>r. PICK r : r = Reply(m, kind)
        OBVIOUS
      <3>2. r \in SMsg /\ r.id = m.id /\ r.kind = kind
        BY <2>1, <3>r
      <3> QED BY <2>2, <3>r, <3>1, <3>2
    <2>3. CASE b2p' = b2p \o Whole(Reply(m, "err")) /\ UNCHANGED granted
      <3>1. Reply(m, "err") \in SMsg /\ Reply(m, "err").id = m.id /\ Reply(m, "err").kind = "err"
        BY <2>1
      <3> QED BY <2>3, <3>1
    <2>4. CASE /\ UNCHANGED granted
               /\ \E size \in MyResults :
                    Serve(IF Continued(m) \/ m.kind = "quit" THEN <<>>
                          ELSE Whole([Reply(m, "result") EXCEPT !.size = size]))
      <3>1. PICK size \in MyResults :
                 Serve(IF Continued(m) \/ m.kind = "quit" THEN <<>>
                       ELSE Whole([Reply(m, "result") EXCEPT !.size = size]))
        BY <2>4
      <3>r. PICK r : r = [Reply(m, "result") EXCEPT !.size = size]
        OBVIOUS
      <3>2. size \in Nat
        BY MyWireAssumption
      <3>3. r \in SMsg /\ r.id = m.id /\ r.kind = "result"
        <4>1. r = [id |-> m.id, size |-> size, kind |-> "result"]
          BY <3>r DEF Reply
        <4> QED BY <2>0, <3>2, <4>1 DEF SMsg
      <3>4. UNCHANGED serverGone /\ (b2p' = b2p \o <<>> \/ b2p' = b2p \o Whole(r))
        BY <3>1, <3>r DEF Serve
      <3>5. b2p \o <<>> = b2p
        BY DEF IInv, AnswersInv
      <3> QED BY <2>4, <3>3, <3>4, <3>5
    <2> QED BY <1>m, <2>2, <2>3, <2>4 DEF ServerAnswers
  <1>3. /\ m \in Msg /\ m.id \in 1..Len(sent) /\ m = sent[m.id]
        /\ served + m.size \in 0..Len(toServer) /\ EndsAt(toServer, served + m.size, Msg)
        /\ served + 1 \in 1..served + m.size /\ toServer[served + 1].msg = m
        /\ \A n : ServedId(n) => n \in Nat /\ n < m.id
    BY <1>m, <1>1, UnservedFacts
  <1>4. ServerInv'
    BY <1>1, <1>3 DEF IInv, ServerInv, From
  <1>5. ServedId(m.id)' /\ \A n : ServedId(n) => ServedId(n)'
    <2>1. 1..served \subseteq 1..served + m.size
      <3>1. served \in Nat /\ m.size \in Nat
        BY <1>3 DEF Msg, IInv, ServerInv
      <3> QED BY <3>1
    <2> QED BY <1>1, <1>3, <2>1 DEF ServedId
  <1>6. \A i \in 1..Len(Answers) : Answers[i].msg.id < m.id /\ (Answers[i].msg.id = 0 \/ ServedId(Answers[i].msg.id))
    <2>1. \A i \in 1..Len(Answers) : Answers[i].msg.id = 0 \/ ServedId(Answers[i].msg.id)
      BY <1>1 DEF IInv, AnswersInv
    <2> QED BY <1>3, <2>1
  <1>7. ASSUME b2p' = b2p, UNCHANGED granted PROVE AnswersInv' /\ Dialogue'
    <2>1. Answers' = Answers /\ Replies' = Replies
      BY <1>1, <1>7 DEF Answers, Replies, Said
    <2>2. AnswersInv'
      BY <1>1, <1>5, <1>6, <1>7, <2>1 DEF IInv, AnswersInv
    <2>3. Extends(toClient, toClient')
      BY <1>1 DEF IInv, AnswersInv, Extends
    <2>4. Dialogue'
      BY <1>1, <1>5, <1>7, <2>1, <2>3, DialogueKept DEF IInv
    <2> QED BY <2>2, <2>4
  <1>8. ASSUME NEW r \in SMsg, r.id = m.id, b2p' = b2p \o Whole(r),
               r.kind \in {"more", "ok"} => ~granted /\ granted' = (r.kind = "ok"),
               r.kind \notin {"more", "ok"} => UNCHANGED granted
        PROVE  AnswersInv' /\ Dialogue'
    <2>1. /\ b2p' \in Seq(SCell) /\ Orderly(Answers', SMsg, SMsg)
          /\ \A i \in 1..Len(Answers') :
               Answers'[i].msg = r \/ (i \in 1..Len(Answers) /\ Answers'[i] = Answers[i])
          /\ Said(Answers') \subseteq Said(Answers) \cup {r}
      BY <1>1, <1>6, <1>8, AnswerAppended DEF IInv
    <2>t. PICK t : t = Answers'
      OBVIOUS
    <2>2. \A i \in 1..Len(t) : t[i].msg.id = 0 \/ ServedId(t[i].msg.id)'
      BY <1>5, <1>6, <1>8, <2>1, <2>t
    <2>3. AnswersInv'
      <3>1. (~serverGone => \A i \in 1..Len(Answers) : Answers[i].msg.id = 0 \/ ServedId(Answers[i].msg.id))'
        BY <2>t, <2>2 DEF ServedId
      <3> QED BY <1>1, <2>1, <3>1 DEF IInv, AnswersInv
    <2>4. \A p \in Replies' : p \in Replies \/ p = r
      BY <1>1, <2>1 DEF Replies, Said
    <2>5. ASSUME NEW p \in Replies, p.kind \in {"more", "ok"} PROVE p.id \in Nat /\ p.id < m.id
      <3>1. ServedId(p.id)
        BY <2>5 DEF IInv, Dialogue
      <3> QED BY <1>3, <3>1
    <2>6. ASSUME NEW p \in Replies', p.kind \in {"more", "ok"}
          PROVE  ServedId(p.id)'
      <3>1. CASE p \in Replies
        BY <1>5, <2>6, <3>1 DEF IInv, Dialogue
      <3>2. CASE p = r
        BY <1>3, <1>5, <1>8, <2>6, <3>2
      <3> QED BY <2>4, <3>1, <3>2
    <2>7. ASSUME NEW p \in Replies', NEW q \in Replies', p.kind = "ok", q.kind = "more"
          PROVE  q.id < p.id
      <3>1. CASE p \in Replies /\ q \in Replies
        BY <2>7, <3>1 DEF IInv, Dialogue
      <3>2. CASE p = r /\ q = r
        BY <2>7, <3>2
      <3>3. CASE p = r /\ q \in Replies
        BY <1>3, <1>8, <2>5, <2>7, <3>3
      <3>4. CASE p \in Replies /\ q = r
        <4>1. granted /\ ~granted
          BY <1>8, <2>7, <3>4 DEF IInv, Dialogue
        <4> QED BY <4>1
      <3> QED BY <2>4, <3>1, <3>2, <3>3, <3>4
    <2>8. ASSUME NEW p \in Replies', p.kind = "ok", NEW i \in 1..Len(sent), sent[i].kind \notin Commands
          PROVE  i <= p.id
      <3>1. CASE p \in Replies
        BY <2>8, <3>1 DEF IInv, Dialogue
      <3>2. CASE p = r
        <4>1. i <= m.id
          BY <1>m, <1>1, <2>8, LastOfAuthentication
        <4> QED BY <1>8, <3>2, <4>1
      <3> QED BY <2>4, <3>1, <3>2
    <2>9. \A i \in 1..Len(sent) : sent[i].kind = "auth" =>
            \E j \in 1..Len(toClient) : toClient[j].msg.kind = "more" /\ toClient[j].msg.id = i - 1
      BY DEF IInv, Dialogue
    <2>g. granted' \in BOOLEAN /\ \A p \in Replies' : p.kind = "ok" => granted'
      <3>0. granted \in BOOLEAN /\ \A p \in Replies : p.kind = "ok" => granted
        BY DEF IInv, Dialogue
      <3>1. CASE r.kind \in {"more", "ok"}
        <4>1. granted' = (r.kind = "ok") /\ \A p \in Replies : p.kind # "ok"
          BY <1>8, <3>0, <3>1
        <4> QED BY <2>4, <4>1
      <3>2. CASE r.kind \notin {"more", "ok"}
        BY <1>8, <2>4, <3>0, <3>2
      <3> QED BY <3>1, <3>2
    <2>10. Dialogue'
      BY <1>1, <2>6, <2>7, <2>8, <2>9, <2>g DEF Dialogue
    <2> QED BY <2>3, <2>10
  <1>9. AnswersInv' /\ Dialogue'
    BY <1>2, <1>7, <1>8
  <1> QED BY <1>1, <1>4, <1>9, ServerStepKeeps

\* The server gives up.
LEMMA MyServerLeavesKeeps ==
  ASSUME IInv, MyServerLeaves
  PROVE  IInv'
  <1>r. PICK r : r = [id |-> MaxSent + 1, size |-> MyHeader + 1, kind |-> "err"]
    OBVIOUS
  <1>1. /\ ~serverGone /\ serverGone' = TRUE /\ (b2p' = b2p \/ b2p' = b2p \o Whole(r))
        /\ UNCHANGED <<served, sent, c2p, toServer, toClient, clientSock, serverSock, buf, queue,
                       bbuf, handler, clientTask, greeted, auth, phase, parts, inspected, granted>>
        /\ serverSock = "open"
    BY <1>r DEF MyServerLeaves, client, sockets, frames, relay
  <1>2. ServerInv' /\ \A n : ServedId(n) <=> ServedId(n)'
    BY <1>1 DEF IInv, ServerInv, From, ServedId
  <1>3. r \in SMsg /\ r.id = MaxSent + 1 /\ r.kind = "err"
    BY <1>r, MyWireAssumption, WireAssumption DEF SMsg
  <1>4. ASSUME NEW i \in 1..Len(Answers) PROVE Answers[i].msg.id < r.id
    <2>1. Answers[i].msg.id = 0 \/ ServedId(Answers[i].msg.id)
      BY <1>1 DEF IInv, AnswersInv
    <2>2. Answers[i].msg.id = 0 \/ Answers[i].msg.id \in 1..Len(sent)
      BY <2>1 DEF ServedId, IInv, ServerInv, From
    <2>3. Len(sent) <= MaxSent /\ Len(sent) \in Nat /\ MaxSent \in Nat
      BY WireAssumption DEF IInv, SentInv
    <2> QED BY <1>3, <2>2, <2>3
  <1>5. AnswersInv' /\ \A p \in Replies' : p \in Replies \/ p.kind \notin {"more", "ok"}
    <2>1. CASE b2p' = b2p
      BY <1>1, <2>1 DEF IInv, AnswersInv, Answers, Replies, Said
    <2>2. CASE b2p' = b2p \o Whole(r)
      <3>1. /\ b2p' \in Seq(SCell) /\ Orderly(Answers', SMsg, SMsg)
            /\ Said(Answers') \subseteq Said(Answers) \cup {r}
        BY <1>1, <1>3, <1>4, <2>2, AnswerAppended DEF IInv
      <3>2. AnswersInv'
        BY <1>1, <3>1 DEF IInv, AnswersInv
      <3>3. \A p \in Replies' : p \in Replies \/ p = r
        BY <1>1, <3>1 DEF Replies, Said
      <3> QED BY <1>3, <3>2, <3>3
    <2> QED BY <1>1, <2>1, <2>2
  <1>6. Dialogue'
    <2>1. Extends(toClient, toClient')
      BY <1>1 DEF IInv, AnswersInv, Extends
    <2> QED BY <1>1, <1>2, <1>5, <2>1, DialogueKept DEF IInv
  <1> QED BY <1>1, <1>2, <1>5, <1>6, ServerStepKeeps

\* The server is reached and sends its greeting.
LEMMA ConnectedKeeps ==
  ASSUME IInv, Connected
  PROVE  IInv'
  <1>r. PICK r : r = [id |-> 0, size |-> MyHeader + 1, kind |-> "greeting"]
    OBVIOUS
  <1>1. /\ serverSock' = "open" /\ b2p' = Whole(r) /\ clientTask' = "read" /\ handler' = "pumping"
        /\ UNCHANGED <<sent, c2p, served, serverGone, toServer, toClient, clientSock, buf, queue,
                       bbuf, greeted, auth, phase, parts, inspected, granted>>
        /\ clientTask = "none" /\ bbuf = <<>> /\ b2p = <<>>
    BY <1>r DEF Connected, Greeting, client, frames, relay, IInv, AnswersInv
  <1>2. r \in SMsg /\ r.id = 0 /\ r.kind = "greeting" /\ Whole(r) \in Seq(SCell)
    <2>1. r \in SMsg /\ r.size > 0 /\ r.id = 0 /\ r.kind = "greeting"
      BY <1>r, MyWireAssumption DEF SMsg
    <2> QED BY <2>1, MsgFacts, WholeFacts DEF SCell
  <1>3. b2p' = b2p \o Whole(r) /\ Answers = <<>>
    BY <1>1, <1>2 DEF Answers
  <1>s. PICK s : s = Answers'
    OBVIOUS
  <1>4. Orderly(s, SMsg, SMsg) /\ \A i \in 1..Len(s) : s[i].msg = r
    <2>1. \A i \in 1..Len(Answers) : Answers[i].msg.id < r.id
      BY <1>3
    <2>2. /\ Orderly(Answers', SMsg, SMsg)
          /\ \A i \in 1..Len(Answers') :
               Answers'[i].msg = r \/ (i \in 1..Len(Answers) /\ Answers'[i] = Answers[i])
      BY <1>1, <1>2, <1>3, <2>1, AnswerAppended DEF IInv
    <2>3. Len(Answers) = 0
      BY <1>3
    <2> QED BY <1>s, <2>2, <2>3
  <1>5. RelayTyped' /\ SentInv' /\ ServerInv' /\ \A n : ServedId(n) <=> ServedId(n)'
    BY <1>1 DEF IInv, RelayTyped, SentInv, ServerInv, From, ServedId
  <1>6. AnswersInv'
    <2>1. \A i \in 1..Len(Answers') : Answers'[i].msg.id = 0
      BY <1>s, <1>2, <1>4
    <2> QED BY <1>s, <1>1, <1>2, <1>4, <2>1 DEF IInv, AnswersInv
  <1>7. Dialogue'
    <2>1. \A p \in Replies' : p \in Replies \/ p = r
      BY <1>s, <1>1, <1>4 DEF Replies, Said
    <2>2. Extends(toClient, toClient')
      BY <1>1 DEF IInv, AnswersInv, Extends
    <2> QED BY <1>1, <1>2, <1>5, <2>1, <2>2, DialogueKept DEF IInv
  <1>8. PhaseInv' /\ CommandsAreInspected'
    BY <1>1 DEF IInv, PhaseInv, CommandsAreInspected
  <1>9. \E d \in 1..Len(sent') + 1 : Flow(d)'
    <2>1. PICK d \in 1..Len(sent) + 1 : Flow(d)
      BY <1>1 DEF IInv, Active
    <2>2. Flow(d)'
      BY <1>1, <2>1 DEF Flow, QueueFlow, Incoming, From, HeldFlow, Packed, ShortAuthentication
    <2> QED BY <1>1, <2>2
  <1>10. ShortAuthentication => PackInv'
    BY <1>1 DEF IInv, PackInv, Joined
  <1> QED BY <1>5, <1>6, <1>7, <1>8, <1>9, <1>10 DEF IInv, ShortAuthentication

-----------------------------------------------------------------------------
(***************************************************************************)
(* The client's pump.                                                      *)
(***************************************************************************)
\* What all its steps have in common: they write whole packets to the server
\* and packets of the proxy to the client.
PumpStep ==
  /\ clientTask \in {"read", "handle", "decide"}
  /\ clientTask' \in {"read", "handle", "decide", "ended"}
  /\ UNCHANGED <<sent, served, b2p, serverGone, bbuf, clientSock, serverSock, handler, greeted,
                 granted>>
  /\ Orderly(toServer', Msg, Msg) /\ From(toServer)' /\ Extends(toServer, toServer')
  /\ toServer # <<>> \/ toServer' = <<>> \/ toServer'[1].msg.kind = "response"
  /\ toClient' \in Seq(SCell) /\ Extends(toClient, toClient')
  /\ \A p \in Said(toClient') : p \in Said(toClient) \/ p.kind = "err"

\* Such a step keeps what concerns the server and its answers.
LEMMA PumpStepKeeps ==
  ASSUME IInv, PumpStep
  PROVE  SentInv' /\ ServerInv' /\ AnswersInv' /\ Dialogue'
  <1>u. PICK u : u = toServer'
    OBVIOUS
  <1>1. SentInv'
    BY DEF PumpStep, IInv, SentInv
  <1>2. ServerInv' /\ \A n : ServedId(n) <=> ServedId(n)'
    <2>1. From(u)
      BY <1>u DEF PumpStep, From
    <2> QED BY <1>u, <2>1, ServerGrows DEF PumpStep, IInv
  <1>3. Answers' = Answers
    BY DEF PumpStep, Answers
  <1>4. AnswersInv'
    <2>1. (~serverGone => \A i \in 1..Len(Answers) : Answers[i].msg.id = 0 \/ ServedId(Answers[i].msg.id))'
      <3>a. PICK a : a = Answers
        OBVIOUS
      <3>1. ~serverGone => \A i \in 1..Len(a) : a[i].msg.id = 0 \/ ServedId(a[i].msg.id)'
        BY <1>2, <3>a DEF IInv, AnswersInv
      <3> QED BY <1>3, <3>a, <3>1 DEF PumpStep, ServedId
    <2> QED BY <1>3, <2>1 DEF PumpStep, IInv, AnswersInv
  <1>5. Dialogue'
    <2>1. \A p \in Replies' : p \in Replies \/ p.kind \notin {"more", "ok"}
      BY <1>3 DEF PumpStep, Replies
    <2> QED BY <1>2, <2>1, DialogueKept DEF PumpStep, IInv
  <1> QED BY <1>1, <1>2, <1>4, <1>5

\* A step that writes nothing to either side.
LEMMA SilentStep ==
  ASSUME IInv, clientTask \in {"read", "handle", "decide"},
         clientTask' \in {"read", "handle", "decide", "ended"},
         UNCHANGED <<sent, served, b2p, serverGone, bbuf, clientSock, serverSock, handler, greeted,
                     granted, toServer, toClient>>
  PROVE  PumpStep
  <1>1. From(toServer)'
    BY DEF IInv, ServerInv, From
  <1>2. /\ Orderly(toServer', Msg, Msg) /\ toClient' \in Seq(SCell)
        /\ (toServer = <<>> \/ toServer[1].msg.kind = "response")
    BY DEF IInv, ServerInv, AnswersInv
  <1>3. Extends(toServer, toServer')
    BY DEF IInv, ServerInv, Orderly, Extends
  <1>4. Extends(toClient, toClient')
    BY DEF IInv, AnswersInv, Extends
  <1> QED BY <1>1, <1>2, <1>3, <1>4 DEF PumpStep

\* All frames of a chunk are taken, in the order in which they were sent.
LEMMA ReadChunkKeeps ==
  ASSUME IInv, ReadChunk
  PROVE  IInv'
  <1>1. PICK chunk \in Chunks(c2p) :
          LET f == Push(buf \o chunk, MyHeader, MaxMessage)
          IN  /\ c2p' = Drop(c2p, Len(chunk))
              /\ buf' = f.rest
              /\ queue' = IF f.ok THEN f.out ELSE <<>>
              /\ clientTask' = IF ~f.ok THEN "ended" ELSE IF f.out = <<>> THEN "read" ELSE "handle"
    BY DEF ReadChunk
  <1>b. PICK bytes : bytes = buf \o chunk
    OBVIOUS
  <1>r. PICK rest : rest = Drop(c2p, Len(chunk))
    OBVIOUS
  <1>f. PICK f : f = Push(bytes, MyHeader, MaxMessage)
    OBVIOUS
  <1>2. /\ clientTask = "read"
        /\ c2p' = rest /\ buf' = f.rest /\ queue' = (IF f.ok THEN f.out ELSE <<>>)
        /\ clientTask' = IF ~f.ok THEN "ended" ELSE IF f.out = <<>> THEN "read" ELSE "handle"
        /\ UNCHANGED <<sent, served, b2p, serverGone, bbuf, clientSock, serverSock, handler, greeted,
                       toServer, toClient, auth, phase, parts, inspected, granted>>
    BY <1>1, <1>b, <1>r, <1>f DEF ReadChunk, ClientPumpFrame, server, sockets
  <1>3. PumpStep
    BY <1>2, SilentStep
  <1>4. RelayTyped' /\ PhaseInv' /\ CommandsAreInspected' /\ (ShortAuthentication => PackInv')
    <2>1. RelayTyped'
      BY <1>2 DEF IInv, RelayTyped
    <2>2. PhaseInv' /\ CommandsAreInspected'
      BY <1>2 DEF IInv, PhaseInv, CommandsAreInspected
    <2>3. ShortAuthentication => PackInv'
      BY <1>2 DEF IInv, PackInv, Joined
    <2> QED BY <2>1, <2>2, <2>3
  <1>5. ASSUME f.ok PROVE \E d \in 1..Len(sent) + 1 : Flow(d)'
    <2>1. PICK d \in 1..Len(sent) + 1 : Flow(d)
      BY <1>2 DEF IInv, Active
    <2>s. PICK s : s = buf \o c2p
      OBVIOUS
    <2>2. /\ buf \in Seq(Cell) /\ c2p \in Seq(Cell) /\ s \in Seq(Cell) /\ Len(s) \in Nat
          /\ Incoming(s, d) /\ d \in Nat /\ Len(sent) \in Nat
      <3>1. buf \in Seq(Cell) /\ c2p \in Seq(Cell) /\ Incoming(s, d + Len(queue)) /\ Len(queue) = 0
        BY <1>2, <2>1, <2>s DEF Flow, QueueFlow
      <3>2. d + Len(queue) = d /\ Len(sent) \in Nat
        BY <3>1 DEF IInv, SentInv
      <3>3. s \in Seq(Cell)
        BY <2>s, <3>1, ConcatType
      <3> QED BY <3>1, <3>2, <3>3
    <2>3. bytes \in Seq(Cell) /\ Len(bytes) > 0 /\ rest \in Seq(Cell) /\ bytes \o rest = s
      <3>1. ReadOff(buf, c2p, chunk, bytes, rest)
        BY <1>1, <1>b, <1>r DEF ReadOff, Chunks
      <3>2. buf \in Seq(Cell) /\ c2p \in Seq(Cell)
        BY <2>2
      <3>3. bytes \in Seq(Cell) /\ Len(bytes) > 0 /\ rest \in Seq(Cell) /\ bytes \o rest = buf \o c2p
        <4>1. SplitsInto(Cell, buf, c2p, chunk, bytes, rest)
          BY ONLY <3>1, <3>2, ReadSplitsInto
        <4> QED BY ONLY <4>1 DEF SplitsInto
      <3> QED BY <2>s, <3>3
    <2>4. /\ Len(bytes) \in Nat /\ Len(bytes) <= Len(s) /\ Len(s) > 0 /\ s[1] = bytes[1]
          /\ \A i \in 1..Len(bytes) : s[i] = bytes[i]
      <3>1. /\ Len(bytes) \in Nat /\ Len(rest) \in Nat /\ Len(s) = Len(bytes) + Len(rest)
            /\ \A i \in 1..Len(bytes) : s[i] = bytes[i]
        BY <2>3, ConcatFacts
      <3> QED BY <2>3, <3>1
    <2>5. Gapless(bytes)
      <3> SUFFICES ASSUME NEW i \in 1..Len(bytes) - 1 PROVE bytes[i + 1].msg.id <= bytes[i].msg.id + 1
        BY DEF Gapless
      <3>1. i \in 1..Len(s) - 1 /\ s[i] = bytes[i] /\ s[i + 1] = bytes[i + 1]
        BY <2>2, <2>4
      <3> QED BY <2>2, <3>1 DEF Incoming, Gapless
    <2>6. Stream(bytes, MyHeader, MaxMessage, Msg, Msg)
      <3>1. Lined(s, Msg) /\ Starts(s)
        BY <2>2 DEF Incoming, Orderly
      <3>2. Lined(bytes, Msg) /\ Starts(bytes)
        BY <2>3, <3>1, PrefixLined DEF Cell
      <3> QED BY <2>3, <3>2, MsgFacts, MyWireAssumption, WireAssumption DEF Stream, Cell
    <2>7. PICK k \in 0..Len(bytes) : Cut(bytes, k, f, MyHeader, MaxMessage, Msg, Msg)
      BY <1>f, <2>6, PushCuts
    <2>o. PICK out : out = f.out
      OBVIOUS
    <2>t. PICK t : t = Drop(s, k)
      OBVIOUS
    <2>8. /\ out \in Seq(Seq(Cell)) /\ Len(out) \in Nat /\ f.rest \in Seq(Cell) /\ f.rest = Drop(bytes, k)
          /\ EndsAt(bytes, k, Msg) /\ Framed(bytes, k, out, MyHeader, MaxMessage, Msg)
          /\ Numbered(bytes, k, out)
      BY <2>o, <2>5, <2>7 DEF Cut, Framed, Cell
    <2>9. s[1].msg.id = d /\ s[Len(s)].msg.id = Len(sent)
      <3>1. s # <<>>
        BY <2>4
      <3> QED BY <2>2, <3>1 DEF Incoming
    <2>10. ASSUME NEW j \in 1..Len(out) PROVE d + j - 1 <= Len(sent) /\ out[j] = Whole(sent[d + j - 1])
      <3>1. PICK i \in 1..k : /\ out[j] = Whole(bytes[i].msg) /\ bytes[i].msg.size >= MyHeader
        BY <2>8 DEF Framed
      <3>2. i \in 1..Len(bytes) /\ i \in 1..Len(s) /\ s[i] = bytes[i]
        BY <2>4
      <3>n. PICK n : n = bytes[i].msg.id
        OBVIOUS
      <3>3. n \in 1..Len(sent) /\ bytes[i].msg = sent[n]
        BY <2>2, <3>n, <3>2 DEF Incoming, From
      <3>4. out[j] = Whole(sent[n]) /\ Whole(sent[n])[1].msg = sent[n] /\ sent[n].id = n
        BY <3>1, <3>3, SentFacts DEF IInv
      <3>5. out[j][1].msg.id = bytes[1].msg.id + j - 1
        BY <2>8 DEF Numbered
      <3>6. n = d + j - 1
        BY <2>4, <2>9, <3>4, <3>5
      <3> QED BY <3>3, <3>4, <3>6
    <2>11. /\ Orderly(t, Msg, Msg) /\ Len(t) = Len(s) - k /\ t \in Seq(Cell)
           /\ \A j \in 1..Len(t) : /\ j + k \in 1..Len(s) /\ t[j] = s[j + k]
                                   /\ \A i \in 1..k : s[i].msg.id < t[j].msg.id
      <3>1. k \in 0..Len(s) /\ (k > 0 => s[k] = bytes[k])
        BY <2>2, <2>4
      <3>2. EndsAt(s, k, Msg)
        BY <2>8, <3>1 DEF EndsAt
      <3>3. Orderly(s, Msg, Msg)
        BY <2>2 DEF Incoming
      <3>4. /\ Orderly(t, Msg, Msg) /\ Len(t) = Len(s) - k
            /\ \A j \in 1..Len(t) : /\ j + k \in 1..Len(s) /\ t[j] = s[j + k]
                                    /\ \A i \in 1..k : s[i].msg.id < t[j].msg.id
        <4>1. k \in 0..Len(s)
          BY <3>1
        <4>2. /\ Orderly(Drop(s, k), Msg, Msg) /\ Len(Drop(s, k)) = Len(s) - k
              /\ \A j \in 1..Len(Drop(s, k)) : /\ j + k \in 1..Len(s) /\ Drop(s, k)[j] = s[j + k]
                                               /\ \A i \in 1..k : s[i].msg.id < Drop(s, k)[j].msg.id
          BY <3>2, <3>3, <4>1, CutStream, Zenon
        <4> QED BY <2>t, <4>2, Zenon
      <3>5. t \in Seq(Cell)
        BY <3>4 DEF Orderly, Cell
      <3> QED BY <3>4, <3>5
    <2>12. k \in Nat /\ k <= Len(s) /\ d + Len(out) \in Nat
      BY <2>2, <2>4, <2>8
    <2>13. k > 0 => s[k].msg.id = d + Len(out) - 1
      <3> SUFFICES ASSUME k > 0 PROVE s[k].msg.id = d + Len(out) - 1
        OBVIOUS
      <3>1. bytes[k].msg.id = bytes[1].msg.id + Len(out) - 1 /\ s[k] = bytes[k]
        BY <2>4, <2>8 DEF Numbered
      <3> QED BY <2>4, <2>9, <3>1
    <2>14. k = 0 => Len(out) = 0
      BY <2>8 DEF Numbered
    <2>15. Incoming(t, d + Len(out))
      <3>1. From(t)
        BY <2>2, <2>11 DEF Incoming, From
      <3>2. Gapless(t)
        <4> SUFFICES ASSUME NEW i \in 1..Len(t) - 1 PROVE t[i + 1].msg.id <= t[i].msg.id + 1
          BY DEF Gapless
        <4>1. /\ i \in 1..Len(t) /\ i + 1 \in 1..Len(t) /\ i + k \in 1..Len(s) - 1
              /\ (i + 1) + k = (i + k) + 1
          BY <2>2, <2>11, <2>12
        <4>2. t[i] = s[i + k] /\ t[i + 1] = s[(i + 1) + k]
          BY <2>11, <4>1
        <4>3. t[i + 1] = s[(i + k) + 1]
          BY <4>1, <4>2
        <4> QED BY <2>2, <4>1, <4>2, <4>3 DEF Incoming, Gapless
      <3>3. ASSUME t = <<>> PROVE d + Len(out) = Len(sent) + 1
        <4>1. k = Len(s) /\ k > 0
          <5>1. Len(t) = 0
            BY <3>3
          <5> QED BY <2>2, <2>4, <2>11, <2>12, <5>1
        <4> QED BY <2>2, <2>8, <2>9, <2>13, <4>1
      <3>4. ASSUME t # <<>> PROVE t[1].msg.id = d + Len(out) /\ t[Len(t)].msg.id = Len(sent)
        <4>1. 1 \in 1..Len(t) /\ Len(t) \in 1..Len(t) /\ Len(t) + k = Len(s) /\ k < Len(s) /\ 1 + k = k + 1
          <5>1. Len(t) # 0
            BY <2>11, <3>4
          <5> QED BY <2>2, <2>11, <2>12, <5>1
        <4>2. t[1] = s[k + 1] /\ t[Len(t)] = s[Len(s)]
          BY <2>11, <4>1
        <4>3. CASE k = 0
          BY <2>2, <2>9, <2>14, <4>2, <4>3
        <4>4. CASE k # 0
          <5>1. k > 0 /\ k \in 1..k /\ k \in 1..Len(s) - 1
            BY <2>2, <2>12, <4>1, <4>4
          <5>2. s[k].msg.id < t[1].msg.id
            BY <2>11, <4>1, <5>1
          <5>3. s[k + 1].msg.id <= s[k].msg.id + 1
            BY <2>2, <5>1 DEF Incoming, Gapless
          <5>4. t[1].msg.id \in Nat
            BY <2>11, <4>1, MsgFacts, CellFacts DEF Cell
          <5>5. s[k].msg.id = d + Len(out) - 1
            BY <2>13, <5>1
          <5>6. t[1].msg.id <= d + Len(out) - 1 + 1 /\ d + Len(out) - 1 < t[1].msg.id
            BY <4>2, <5>2, <5>3, <5>5
          <5>7. t[1].msg.id = d + Len(out)
            BY ONLY <2>12, <5>4, <5>6
          <5> QED BY <2>9, <4>2, <5>7
        <4> QED BY <4>3, <4>4
      <3> QED BY <2>11, <3>1, <3>2, <3>3, <3>4 DEF Incoming
    <2>16. queue' = out /\ buf' \o c2p' = t /\ clientTask' = IF out = <<>> THEN "read" ELSE "handle"
      <3>1. Drop(bytes, k) \o rest = Drop(s, k)
        BY <2>3, DropConcat
      <3> QED BY <1>2, <1>5, <2>o, <2>t, <2>8, <3>1
    <2>17. QueueFlow(d)'
      <3>1. Incoming(buf \o c2p, d + Len(queue))'
        BY <1>2, <2>15, <2>16 DEF Incoming, From
      <3>2. buf' \in Seq(Cell) /\ c2p' \in Seq(Cell)
        BY <1>2, <2>3, <2>8
      <3>3. (clientTask' = "read" => Len(out) = 0) /\ (clientTask' = "handle" => Len(out) > 0)
            /\ clientTask' \in {"read", "handle"}
        BY <2>8, <2>16
      <3> QED BY <1>2, <2>8, <2>10, <2>16, <3>1, <3>2, <3>3 DEF QueueFlow
    <2>18. HeldFlow(d)' /\ (ShortAuthentication => Packed(d)')
      <3>1. clientTask' # "decide"
        BY <2>16
      <3> QED BY <1>2, <2>1, <3>1 DEF Flow, HeldFlow, Packed
    <2> QED BY <2>17, <2>18 DEF Flow, ShortAuthentication
  <1>6. Active' => \E d \in 1..Len(sent') + 1 : Flow(d)'
    <2>1. Active' => f.ok
      BY <1>2 DEF Active
    <2> QED BY <1>2, <1>5, <2>1
  <1> QED BY <1>3, <1>4, <1>6, PumpStepKeeps DEF IInv, ShortAuthentication

\* The pump is done with a packet and holds none.
LEMMA DoneFlow ==
  ASSUME SentInv, NEW d \in 1..Len(sent) + 1, Flow(d), clientTask \in {"handle", "decide"}, Advance,
         parts' = <<>>, Before(toServer', d + 1), phase' = "command" => phase = "command",
         ShortAuthentication => ~JoinsNext(sent[d])
  PROVE  \E e \in 1..Len(sent') + 1 : Flow(e)'
  <1>1. d \in 1..Len(sent) /\ QueueFlow(d + 1)' /\ Len(sent) \in Nat
    BY QueueStep DEF Flow, SentInv
  <1>2. d + 1 \in 1..Len(sent') + 1 /\ sent' = sent /\ clientTask' # "decide" /\ d \in Nat
    BY <1>1 DEF Advance
  <1>3. Len(parts') = 0 /\ parts' \in Seq(Seq(Cell))
    OBVIOUS
  <1>4. HeldFlow(d + 1)'
    <2>1. phase' = "command" => \A i \in d + 1..Len(sent) : sent[i].kind \in Commands
      <3>1. \A i \in d + 1..Len(sent) : i \in d..Len(sent)
        BY <1>1
      <3> QED BY <3>1 DEF Flow, HeldFlow
    <2>2. \A i \in 1..Len(toServer') : toServer'[i].msg.id < d + 1 - Len(parts')
      <3>1. d + 1 - Len(parts') = d + 1
        BY <1>2, <1>3
      <3> QED BY <3>1 DEF Before
    <2>3. Len(parts') < d + 1 /\ \A j \in 1..Len(parts') : FALSE
      BY <1>2, <1>3
    <2> QED BY <1>2, <1>3, <2>1, <2>2, <2>3 DEF HeldFlow
  <1>5. ASSUME ShortAuthentication PROVE Packed(d + 1)'
    <2>1. \A j \in d + 1 - Len(parts')..d + 1 - 1 : FALSE
      BY <1>2, <1>3
    <2>2. \A j \in d + 1 - Len(parts')..d + 1 - 2 : FALSE
      BY <1>2, <1>3
    <2>3. d + 1 - Len(parts') - 1 = d
      BY <1>2, <1>3
    <2> QED BY <1>2, <1>5, <2>1, <2>2, <2>3 DEF Packed
  <1>6. Flow(d + 1)'
    BY <1>1, <1>4, <1>5 DEF Flow, ShortAuthentication
  <1> QED BY <1>2, <1>6

\* What is written to the server is older than the packet at hand.
LEMMA HeldFacts ==
  ASSUME IInv, NEW d \in 1..Len(sent) + 1, Flow(d)
  PROVE  /\ parts \in Seq(Seq(Cell)) /\ Len(parts) \in Nat /\ Len(parts) < d /\ d \in Nat
         /\ d - Len(parts) \in 1..d /\ Before(toServer, d - Len(parts)) /\ Before(toServer, d + 1)
         /\ Orderly(toServer, Msg, Msg) /\ From(toServer)
  <1>1. /\ parts \in Seq(Seq(Cell)) /\ Len(parts) \in Nat /\ Len(parts) < d /\ d \in Nat
        /\ Before(toServer, d - Len(parts)) /\ Orderly(toServer, Msg, Msg) /\ From(toServer)
    BY DEF Flow, HeldFlow, Before, IInv, ServerInv
  <1>2. \A i \in 1..Len(toServer) : toServer[i].msg.id \in Nat
    BY <1>1 DEF From
  <1> QED BY <1>1, <1>2 DEF Before

\* During authentication nothing is held.
LEMMA AuthenticationFlow ==
  ASSUME IInv, clientTask = "handle", phase = "authentication"
  PROVE  \E d \in 1..Len(sent) :
           /\ Flow(d) /\ parts = <<>> /\ Packet = sent[d] /\ Head(queue) = Whole(sent[d])
           /\ Before(toServer, d) /\ Before(toServer, d + 1) /\ d \in Nat
           /\ sent[d] \in Msg /\ (sent[d].kind \in Commands => sent[d].early)
           /\ ShortAuthentication => ~JoinsNext(sent[d]) /\ (d > 1 => ~JoinsNext(sent[d - 1]))
  <1>1. PICK d \in 1..Len(sent) + 1 : Flow(d)
    BY DEF IInv, Active
  <1>2. d \in 1..Len(sent) /\ Head(queue) = Whole(sent[d]) /\ Packet = sent[d]
    BY <1>1, QueueStep DEF IInv, Flow
  <1>3. parts = <<>> /\ Len(parts) = 0
    BY <1>1 DEF Flow, HeldFlow
  <1>4. d \in Nat /\ d - Len(parts) = d /\ Before(toServer, d) /\ Before(toServer, d + 1)
    <2>1. d \in Nat /\ d - Len(parts) = d
      BY <1>3
    <2> QED BY <1>1, <2>1, HeldFacts
  <1>5. sent[d].kind \in Commands => sent[d].early
    BY <1>2 DEF IInv, PhaseInv
  <1>6. sent[d] \in Msg /\ sent[d].size = MySizes[sent[d].kind]
    BY <1>2 DEF IInv, SentInv
  <1>7. ASSUME ShortAuthentication PROVE ~JoinsNext(sent[d]) /\ (d > 1 => ~JoinsNext(sent[d - 1]))
    <2>1. ~JoinsNext(sent[d])
      BY <1>5, <1>6, <1>7 DEF ShortAuthentication, JoinsNext, Continued, Msg
    <2>2. d > 1 => ~JoinsNext(sent[d - 1])
      BY <1>1, <1>4, <1>7 DEF Flow, Packed
    <2> QED BY <2>1, <2>2
  <1> QED BY <1>1, <1>2, <1>3, <1>4, <1>5, <1>6, <1>7

\* A packet of the authentication is passed on.
LEMMA PassKeeps ==
  ASSUME IInv, clientTask = "handle", phase = "authentication", Advance,
         UNCHANGED <<served, b2p, serverGone, bbuf, clientSock, serverSock, handler, greeted,
                     toClient, phase, parts, inspected, granted>>,
         toServer' = toServer \o Head(queue),
         greeted, auth = "waiting" => Packet.kind = "response",
         auth' = "authenticating"
  PROVE  IInv'
  <1>1. PICK d \in 1..Len(sent) :
           /\ Flow(d) /\ parts = <<>> /\ Packet = sent[d] /\ Head(queue) = Whole(sent[d])
           /\ Before(toServer, d) /\ Before(toServer, d + 1) /\ d \in Nat
           /\ sent[d] \in Msg /\ (sent[d].kind \in Commands => sent[d].early)
           /\ ShortAuthentication => ~JoinsNext(sent[d]) /\ (d > 1 => ~JoinsNext(sent[d - 1]))
    BY AuthenticationFlow
  <1>u. PICK u : u = toServer'
    OBVIOUS
  <1>t. PICK t : t = toServer
    OBVIOUS
  <1>2. /\ Orderly(u, Msg, Msg) /\ From(u) /\ Before(u, d + 1) /\ Extends(t, u)
        /\ u # <<>> /\ u[Len(u)].msg = sent[d]
        /\ \A i \in 1..Len(u) : i \in 1..Len(t) \/ u[i].msg = sent[d]
        /\ Joined(t) /\ LinksTo(t, d) => Joined(u)
    <2>1. SentInv /\ Orderly(t, Msg, Msg) /\ From(t) /\ Before(t, d) /\ Longer(t, d, u)
      BY <1>1, <1>u, <1>t DEF IInv, ServerInv, Longer
    <2>2. d \in 1..Len(sent)
      OBVIOUS
    <2> QED BY ONLY <2>1, <2>2, AppendPacket
  <1>3. PumpStep
    <2>1. From(toServer)'
      BY <1>u, <1>2 DEF From, Advance
    <2>2. toServer # <<>> \/ u[1].msg.kind = "response"
      <3> SUFFICES ASSUME toServer = <<>> PROVE u[1].msg.kind = "response"
        OBVIOUS
      <3>1. auth = "waiting"
        BY DEF IInv, PhaseInv
      <3>2. sent[d].kind = "response"
        BY <1>1, <3>1
      <3>3. 1 \in 1..Len(u) /\ 1 \notin 1..Len(t)
        <4>1. u \in Seq(Cell) /\ Len(t) = 0
          BY <1>t, <1>2 DEF Orderly, Cell
        <4> QED BY <1>2, <4>1
      <3> QED BY <1>2, <3>2, <3>3
    <2>3. toClient \in Seq(SCell) /\ Extends(toClient, toClient)
      BY DEF IInv, AnswersInv, Extends
    <2>4. clientTask' \in {"read", "handle", "decide", "ended"}
      BY DEF Advance
    <2> QED BY <1>u, <1>t, <1>2, <2>1, <2>2, <2>3, <2>4 DEF PumpStep, Advance
  <1>4. RelayTyped'
    BY DEF IInv, RelayTyped, Advance
  <1>5. PhaseInv'
    BY <1>u, <1>2 DEF IInv, PhaseInv, Advance
  <1>6. CommandsAreInspected'
    <2>1. ASSUME NEW i \in 1..Len(u), u[i].msg.kind \in Commands
          PROVE  u[i].msg.early \/ u[i].msg.id \in inspected
      <3>1. CASE i \in 1..Len(t)
        <4>1. u[i] = t[i]
          BY <1>2, <3>1 DEF Extends
        <4> QED BY <1>t, <2>1, <3>1, <4>1 DEF IInv, CommandsAreInspected
      <3>2. CASE u[i].msg = sent[d]
        BY <1>1, <2>1, <3>2
      <3> QED BY <1>2, <3>1, <3>2
    <2> QED BY <1>u, <2>1 DEF IInv, CommandsAreInspected, Advance
  <1>7. ASSUME ShortAuthentication PROVE PackInv'
    <2>1. Joined(t) /\ (t # <<>> => ~JoinsNext(t[Len(t)].msg))
      BY <1>t, <1>7 DEF IInv, PackInv
    <2>2. LinksTo(t, d)
      <3> SUFFICES ASSUME t # <<>> PROVE d > 1
        BY <1>1, <1>7, <2>1 DEF LinksTo
      <3>1. t \in Seq(Cell) /\ From(t)
        BY <1>t DEF IInv, ServerInv, Orderly, Cell
      <3>2. 1 \in 1..Len(t)
        BY <3>1
      <3>3. t[1].msg.id \in 1..Len(sent) /\ t[1].msg.id < d
        BY <1>t, <1>1, <3>1, <3>2 DEF From, Before
      <3> QED BY <1>1, <3>3
    <2>3. Joined(u) /\ ~JoinsNext(u[Len(u)].msg)
      BY <1>1, <1>2, <1>7, <2>1, <2>2
    <2> QED BY <1>u, <2>3 DEF PackInv, Joined, Advance
  <1>8. \E e \in 1..Len(sent') + 1 : Flow(e)'
    <2>1. d \in 1..Len(sent) + 1 /\ SentInv /\ parts' = <<>> /\ Before(toServer', d + 1)
      BY <1>u, <1>1, <1>2 DEF IInv
    <2> QED BY <1>1, <2>1, DoneFlow
  <1> QED BY <1>3, <1>4, <1>5, <1>6, <1>7, <1>8, PumpStepKeeps DEF IInv, ShortAuthentication

\* The pump goes on after a packet.
LEMMA NextPacketAdvances ==
  ASSUME IInv, clientTask \in {"handle", "decide"}, NEW quit, NextPacket(quit),
         UNCHANGED <<sent, c2p, buf>>
  PROVE  Advance
  <1>1. Len(queue) > 1 => clientTask' = "handle"
    BY DEF NextPacket
  <1>2. ~(Len(queue) > 1) => clientTask' \in {"ended", "read"}
    BY DEF NextPacket
  <1> QED BY <1>1, <1>2 DEF NextPacket, Advance

\* The first packet of the client: passed on or refused.
LEMMA HandleResponseKeeps ==
  ASSUME IInv, HandleResponse
  PROVE  IInv'
  <1>1. /\ clientTask = "handle" /\ greeted /\ auth = "waiting"
        /\ UNCHANGED <<sent, c2p, buf, served, b2p, serverGone, bbuf, clientSock, serverSock, handler,
                       greeted, parts, inspected, granted>>
        /\ NextPacket(FALSE)
        /\ phase = "authentication" /\ toServer = <<>>
    BY DEF HandleResponse, ClientPumpFrame, server, sockets, IInv, PhaseInv
  <1>2. Advance
    BY <1>1, NextPacketAdvances
  <1>3. CASE Packet.kind = "response" /\ auth' = "authenticating"
             /\ toServer' = toServer \o Head(queue) /\ UNCHANGED <<toClient, phase>>
    BY <1>1, <1>2, <1>3, PassKeeps
  <1>4. CASE auth' = "tls_rejected" /\ phase' = "closed" /\ UNCHANGED toServer
             /\ WriteClient(Whole(Reply(Packet, "err")))
    <2>1. PICK d \in 1..Len(sent) :
             /\ Flow(d) /\ parts = <<>> /\ Packet = sent[d]
             /\ Before(toServer, d + 1) /\ sent[d] \in Msg
             /\ ShortAuthentication => ~JoinsNext(sent[d])
      BY <1>1, AuthenticationFlow
    <2>w. PICK w : w = Whole(Reply(Packet, "err"))
      OBVIOUS
    <2>2. w \in Seq(SCell) /\ \A p \in Said(w) : p.kind = "err"
      BY <2>w, <2>1, ErrFacts
    <2>3. /\ toClient' \in Seq(SCell) /\ Extends(toClient, toClient')
          /\ Said(toClient') \subseteq Said(toClient) \cup Said(w)
      BY <1>4, <2>w, <2>2, WriteClientFacts DEF IInv
    <2>4. PumpStep
      <3>1. From(toServer)' /\ Orderly(toServer', Msg, Msg)
        BY <1>1, <1>4 DEF IInv, ServerInv, From
      <3>2. Extends(toServer, toServer')
        BY <1>4 DEF IInv, ServerInv, Orderly, Extends
      <3>3. clientTask' \in {"read", "handle", "decide", "ended"}
        BY <1>2 DEF Advance
      <3> QED BY <1>1, <1>4, <2>2, <2>3, <3>1, <3>2, <3>3 DEF PumpStep
    <2>5. RelayTyped'
      BY <1>1, <1>2, <1>4 DEF IInv, RelayTyped, Advance
    <2>6. PhaseInv' /\ CommandsAreInspected'
      BY <1>1, <1>4 DEF IInv, PhaseInv, CommandsAreInspected
    <2>7. ShortAuthentication => PackInv'
      BY <1>1, <1>4 DEF IInv, PackInv, Joined
    <2>8. \E e \in 1..Len(sent') + 1 : Flow(e)'
      <3>1. d \in 1..Len(sent) + 1 /\ SentInv /\ parts' = <<>> /\ Before(toServer', d + 1)
        BY <1>1, <1>4, <2>1 DEF IInv
      <3> QED BY <1>1, <1>2, <1>4, <2>1, <3>1, DoneFlow
    <2> QED BY <2>4, <2>5, <2>6, <2>7, <2>8, PumpStepKeeps DEF IInv, ShortAuthentication
  <1> QED BY <1>3, <1>4 DEF HandleResponse

\* Its further packets during authentication.
LEMMA HandleAuthenticationKeeps ==
  ASSUME IInv, HandleAuthentication
  PROVE  IInv'
  <1>1. /\ clientTask = "handle" /\ greeted /\ auth # "waiting" /\ phase = "authentication"
        /\ UNCHANGED <<sent, c2p, buf, served, b2p, serverGone, bbuf, clientSock, serverSock, handler,
                       greeted, toClient, auth, phase, parts, inspected, granted>>
        /\ NextPacket(FALSE) /\ toServer' = toServer \o Head(queue)
    BY DEF HandleAuthentication, ClientPumpFrame, server, sockets
  <1>2. auth' = "authenticating"
    BY <1>1 DEF IInv, PhaseInv
  <1>3. Advance
    BY <1>1, NextPacketAdvances
  <1> QED BY <1>1, <1>2, <1>3, PassKeeps

\* A packet of a command is at hand, and it goes on from the ones held.
LEMMA CommandFlow ==
  ASSUME IInv, clientTask \in {"handle", "decide"}, phase = "command",
         clientTask = "handle" => ~OutOfSequence
  PROVE  \E d \in 1..Len(sent) :
           /\ Flow(d) /\ Packet = sent[d] /\ Head(queue) = Whole(sent[d])
           /\ sent[d] \in Msg /\ sent[d].kind \in Commands
           /\ ShortAuthentication /\ parts # <<>> => Follows(sent[d - 1], sent[d])
           /\ ShortAuthentication /\ clientTask = "decide" => ~Continued(sent[d])
  <1>1. PICK d \in 1..Len(sent) + 1 : Flow(d)
    BY DEF IInv, Active
  <1>2. d \in 1..Len(sent) /\ Head(queue) = Whole(sent[d]) /\ Packet = sent[d] /\ Len(sent) \in Nat
    BY <1>1, QueueStep DEF IInv, Flow, SentInv
  <1>3. sent[d] \in Msg /\ sent[d].id = d /\ sent[d].kind \in Commands
    <2>1. d \in d..Len(sent)
      BY <1>2
    <2>2. sent[d].kind \in Commands
      BY <1>1, <2>1 DEF Flow, HeldFlow
    <2> QED BY <1>2, <2>2, SentFacts DEF IInv
  <1>4. ASSUME ShortAuthentication, parts # <<>> PROVE Follows(sent[d - 1], sent[d])
    <2>1. CASE clientTask = "decide"
      BY <1>1, <1>4, <2>1 DEF Flow, Packed
    <2>2. CASE clientTask = "handle"
      <3>1. parts \in Seq(Seq(Cell)) /\ Len(parts) \in Nat /\ Len(parts) < d /\ d \in Nat
        BY <1>1, HeldFacts
      <3>2. Len(parts) \in 1..Len(parts) /\ d - Len(parts) + Len(parts) - 1 = d - 1 /\ d - 1 \in 1..Len(sent)
        <4>1. Len(parts) # 0
          BY <1>4, <3>1
        <4> QED BY <1>2, <3>1, <4>1
      <3>3. parts[Len(parts)] = Whole(sent[d - Len(parts) + Len(parts) - 1])
        BY <1>1, <3>2 DEF Flow, HeldFlow
      <3>4. Last(parts) = Whole(sent[d - 1])
        BY <3>2, <3>3 DEF Last
      <3>5. Whole(sent[d - 1])[1].msg = sent[d - 1] /\ sent[d - 1].id = d - 1
        BY <3>2, SentFacts DEF IInv
      <3>6. sent[d].seq = (sent[d - 1].seq + 1) % SequenceIds
        BY <1>2, <1>4, <2>2, <3>4, <3>5 DEF OutOfSequence
      <3> QED BY <1>3, <3>1, <3>5, <3>6 DEF Follows
    <2> QED BY <2>1, <2>2
  <1>5. ShortAuthentication /\ clientTask = "decide" => ~Continued(sent[d])
    BY <1>1 DEF Flow, Packed
  <1> QED BY <1>1, <1>2, <1>3, <1>4, <1>5

\* A packet that is continued is held.
LEMMA AssemblerHoldsKeeps ==
  ASSUME IInv, AssemblerHolds
  PROVE  IInv'
  <1>1. /\ clientTask = "handle" /\ phase = "command" /\ ~OutOfSequence /\ Continued(Packet)
        /\ parts' = Append(parts, Head(queue)) /\ NextPacket(FALSE)
        /\ UNCHANGED <<sent, c2p, buf, served, b2p, serverGone, bbuf, clientSock, serverSock, handler,
                       greeted, toServer, toClient, auth, phase, inspected, granted>>
    BY DEF AssemblerHolds, Fits, InCommand, Held, ClientPumpFrame, server, sockets
  <1>2. Advance
    BY <1>1, NextPacketAdvances
  <1>3. PICK d \in 1..Len(sent) :
           /\ Flow(d) /\ Packet = sent[d] /\ Head(queue) = Whole(sent[d])
           /\ sent[d] \in Msg /\ sent[d].kind \in Commands
           /\ ShortAuthentication /\ parts # <<>> => Follows(sent[d - 1], sent[d])
    BY <1>1, CommandFlow
  <1>4. PumpStep
    <2>1. clientTask' \in {"read", "handle", "decide", "ended"}
      BY <1>2 DEF Advance
    <2> QED BY <1>1, <2>1, SilentStep
  <1>5. RelayTyped' /\ PhaseInv' /\ CommandsAreInspected' /\ (ShortAuthentication => PackInv')
    <2>1. RelayTyped'
      BY <1>1, <1>2 DEF IInv, RelayTyped, Advance
    <2>2. PhaseInv' /\ CommandsAreInspected'
      BY <1>1 DEF IInv, PhaseInv, CommandsAreInspected
    <2>3. ShortAuthentication => PackInv'
      BY <1>1 DEF IInv, PackInv, Joined
    <2> QED BY <2>1, <2>2, <2>3
  <1>p. PICK p : p = parts
    OBVIOUS
  <1>q. PICK q : q = parts'
    OBVIOUS
  <1>n. PICK n : n = d - Len(p)
    OBVIOUS
  <1>6. /\ p \in Seq(Seq(Cell)) /\ Len(p) \in Nat /\ Len(p) < d /\ d \in Nat /\ Len(sent) \in Nat
        /\ n \in 1..d /\ d + 1 \in 1..Len(sent) + 1
    <2>1. d \in 1..Len(sent) + 1 /\ Len(sent) \in Nat
      BY DEF IInv, SentInv
    <2> QED BY <1>p, <1>n, <1>3, <2>1, HeldFacts
  <1>7. /\ q \in Seq(Seq(Cell)) /\ Len(q) = Len(p) + 1 /\ d + 1 - Len(q) = n
        /\ \A j \in 1..Len(p) : q[j] = p[j]
        /\ q[Len(p) + 1] = Whole(sent[d])
    <2>1. Whole(sent[d]) \in Seq(Cell)
      BY SentFacts DEF IInv
    <2>2. q = Append(p, Whole(sent[d]))
      BY <1>p, <1>q, <1>1, <1>3
    <2>3. /\ q \in Seq(Seq(Cell)) /\ Len(q) = Len(p) + 1
          /\ \A j \in 1..Len(p) : q[j] = p[j]
          /\ q[Len(p) + 1] = Whole(sent[d])
      BY <1>6, <2>1, <2>2, AppendFacts
    <2> QED BY <1>n, <1>6, <2>3
  <1>8. QueueFlow(d + 1)'
    <2>1. d \in 1..Len(sent) + 1 /\ SentInv /\ QueueFlow(d)
      BY <1>3, <1>6 DEF IInv, Flow
    <2> QED BY <1>1, <1>2, <2>1, QueueStep
  <1>9. HeldFlow(d + 1)'
    <2>1. ASSUME NEW j \in 1..Len(q)
          PROVE  q[j] = Whole(sent[n + j - 1]) /\ sent[n + j - 1].kind \in Commands
      <3>1. CASE j \in 1..Len(p)
        <4>1. p[j] = Whole(sent[n + j - 1]) /\ sent[n + j - 1].kind \in Commands
          BY <1>p, <1>n, <1>3, <3>1 DEF Flow, HeldFlow
        <4> QED BY <1>7, <3>1, <4>1
      <3>2. CASE j = Len(p) + 1
        <4>1. n + j - 1 = d
          BY <1>n, <1>6, <3>2
        <4> QED BY <1>3, <1>7, <3>2, <4>1
      <3> QED BY <1>6, <1>7, <3>1, <3>2
    <2>2. \A i \in 1..Len(toServer) : toServer[i].msg.id < n
      BY <1>p, <1>n, <1>3 DEF Flow, HeldFlow
    <2>3. \A i \in d + 1..Len(sent) : sent[i].kind \in Commands
      <3>1. \A i \in d + 1..Len(sent) : i \in d..Len(sent)
        BY <1>6
      <3> QED BY <1>1, <1>3, <3>1 DEF Flow, HeldFlow
    <2>4. Len(q) < d + 1 /\ clientTask' # "decide"
      BY <1>2, <1>6, <1>7 DEF Advance
    <2>5. sent' = sent /\ toServer' = toServer /\ phase' = "command" /\ d + 1 - Len(q) = n
      BY <1>1, <1>7
    <2>6. \A j \in 1..Len(q) : LET m == sent[d + 1 - Len(q) + j - 1]
                                IN  q[j] = Whole(m) /\ m.kind \in Commands
      BY <2>1, <2>5
    <2>7. parts' \in Seq(Seq(Cell)) /\ Len(parts') < d + 1
      BY <1>q, <1>7, <2>4
    <2>8. \A j \in 1..Len(parts') : LET m == sent'[d + 1 - Len(parts') + j - 1]
                                    IN  parts'[j] = Whole(m) /\ m.kind \in Commands
      BY <1>q, <2>5, <2>6
    <2>9. \A i \in 1..Len(toServer') : toServer'[i].msg.id < d + 1 - Len(parts')
      BY <1>q, <2>2, <2>5
    <2>10. \A i \in d + 1..Len(sent') : sent'[i].kind \in Commands
      BY <2>3, <2>5
    <2>11. phase' = "command" /\ clientTask' # "decide"
      BY <2>4, <2>5
    <2> QED BY ONLY <2>7, <2>8, <2>9, <2>10, <2>11 DEF HeldFlow
  <1>10. ASSUME ShortAuthentication PROVE Packed(d + 1)'
    <2>1. Packed(d)
      BY <1>3, <1>10 DEF Flow
    <2>2. \A j \in n..d - 1 : Continued(sent[j])
      BY <1>p, <1>n, <2>1 DEF Packed
    <2>3. \A j \in n..d - 2 : Follows(sent[j], sent[j + 1])
      BY <1>p, <1>n, <2>1 DEF Packed
    <2>4. n > 1 => ~JoinsNext(sent[n - 1])
      BY <1>p, <1>n, <2>1 DEF Packed
    <2>5. \A j \in n..d + 1 - 1 : Continued(sent[j])
      <3>1. \A j \in n..d + 1 - 1 : j \in n..d - 1 \/ j = d
        BY <1>6
      <3> QED BY <1>1, <1>3, <2>2, <3>1
    <2>6. \A j \in n..d + 1 - 2 : Follows(sent[j], sent[j + 1])
      <3>1. \A j \in n..d + 1 - 2 : j \in n..d - 2 \/ (j = d - 1 /\ j + 1 = d /\ n <= d - 1)
        BY <1>6
      <3>2. n <= d - 1 => parts # <<>>
        <4>1. n <= d - 1 => Len(p) # 0
          BY <1>n, <1>6
        <4> QED BY <1>p, <4>1
      <3> QED BY <1>3, <1>10, <2>3, <3>1, <3>2
    <2>7. clientTask' # "decide"
      BY <1>2 DEF Advance
    <2> QED BY <1>q, <1>1, <1>7, <2>4, <2>5, <2>6, <2>7 DEF Packed
  <1>11. \E e \in 1..Len(sent') + 1 : Flow(e)'
    <2>1. Flow(d + 1)'
      BY <1>8, <1>9, <1>10 DEF Flow, ShortAuthentication
    <2> QED BY <1>1, <1>6, <2>1
  <1> QED BY <1>4, <1>5, <1>11, PumpStepKeeps DEF IInv, ShortAuthentication

\* A command waits for its decision.
LEMMA DecideKeeps ==
  ASSUME IInv, Decide
  PROVE  IInv'
  <1>1. /\ clientTask = "handle" /\ phase = "command" /\ ~OutOfSequence /\ ~Continued(Packet)
        /\ clientTask' = "decide"
        /\ UNCHANGED <<sent, c2p, buf, queue, served, b2p, serverGone, bbuf, clientSock, serverSock,
                       handler, greeted, toServer, toClient, auth, phase, parts, inspected, granted>>
    BY DEF Decide, Fits, InCommand, frames, ClientPumpFrame, server, sockets
  <1>2. PICK d \in 1..Len(sent) :
           /\ Flow(d) /\ Packet = sent[d]
           /\ ShortAuthentication /\ parts # <<>> => Follows(sent[d - 1], sent[d])
    BY <1>1, CommandFlow
  <1>3. PumpStep
    BY <1>1, SilentStep
  <1>4. RelayTyped' /\ PhaseInv' /\ CommandsAreInspected' /\ (ShortAuthentication => PackInv')
    <2>1. RelayTyped'
      BY <1>1 DEF IInv, RelayTyped
    <2>2. PhaseInv' /\ CommandsAreInspected'
      BY <1>1 DEF IInv, PhaseInv, CommandsAreInspected
    <2>3. ShortAuthentication => PackInv'
      BY <1>1 DEF IInv, PackInv, Joined
    <2> QED BY <2>1, <2>2, <2>3
  <1>5. Flow(d)'
    <2>1. QueueFlow(d)' /\ HeldFlow(d)'
      BY <1>1, <1>2 DEF Flow, QueueFlow, Incoming, From, HeldFlow
    <2>2. ShortAuthentication => Packed(d)'
      BY <1>1, <1>2 DEF Flow, Packed
    <2> QED BY <2>1, <2>2 DEF Flow, ShortAuthentication
  <1>6. \E e \in 1..Len(sent') + 1 : Flow(e)'
    <2>1. d \in 1..Len(sent') + 1
      BY <1>1 DEF IInv, SentInv
    <2> QED BY <1>5, <2>1
  <1> QED BY <1>3, <1>4, <1>6, PumpStepKeeps DEF IInv, ShortAuthentication

\* u is what the server was given and the packets from the n-th to the k-th.
Through(u, n, k) ==
  /\ Orderly(u, Msg, Msg) /\ From(u) /\ Before(u, k + 1) /\ Extends(toServer, u)
  /\ u # <<>> /\ u[Len(u)].msg = sent[k]
  /\ \A i \in 1..Len(u) : i \in 1..Len(toServer) \/ u[i].msg.id \in n..k
  /\ ShortAuthentication => Joined(u)

\* The first packet of a command behind those of others.
LEMMA ThroughStarts ==
  ASSUME IInv, NEW n \in 1..Len(sent), Before(toServer, n), NEW u, Longer(toServer, n, u),
         ShortAuthentication /\ n > 1 => ~JoinsNext(sent[n - 1])
  PROVE  Through(u, n, n)
  <1>t. PICK t : t = toServer
    OBVIOUS
  <1>1. /\ SentInv /\ Orderly(t, Msg, Msg) /\ From(t) /\ Before(t, n) /\ Longer(t, n, u)
        /\ n \in 1..Len(sent) /\ Len(sent) \in Nat
    BY <1>t DEF IInv, ServerInv, SentInv
  <1>2. /\ Orderly(u, Msg, Msg) /\ From(u) /\ Before(u, n + 1) /\ Extends(t, u)
        /\ u # <<>> /\ u[Len(u)].msg = sent[n]
        /\ \A i \in 1..Len(u) : i \in 1..Len(t) \/ u[i].msg = sent[n]
        /\ Joined(t) /\ LinksTo(t, n) => Joined(u)
    BY ONLY <1>1, AppendPacket
  <1>3. sent[n].id = n /\ n \in n..n
    BY <1>1, SentFacts
  <1>4. ASSUME ShortAuthentication PROVE Joined(u)
    <2>1. Joined(t) /\ (t # <<>> => ~JoinsNext(t[Len(t)].msg))
      BY <1>t, <1>4 DEF IInv, PackInv
    <2>2. t # <<>> => n > 1
      <3> SUFFICES ASSUME t # <<>> PROVE n > 1
        OBVIOUS
      <3>1. t \in Seq(Cell)
        BY <1>1 DEF Orderly, Cell
      <3>2. 1 \in 1..Len(t)
        BY <3>1
      <3>3. t[1].msg.id \in 1..Len(sent) /\ t[1].msg.id < n
        BY <1>1, <3>2 DEF From, Before
      <3> QED BY <1>1, <3>3
    <2>3. LinksTo(t, n)
      BY <1>4, <2>1, <2>2 DEF LinksTo
    <2> QED BY <1>2, <2>1, <2>3
  <1> QED BY <1>t, <1>2, <1>3, <1>4 DEF Through

\* The next packet of the same command.
LEMMA ThroughGoesOn ==
  ASSUME IInv, NEW n \in 1..Len(sent), NEW k \in n + 1..Len(sent), NEW t, Through(t, n, k - 1),
         NEW u, Longer(t, k, u), ShortAuthentication => Follows(sent[k - 1], sent[k])
  PROVE  Through(u, n, k)
  <1>0. Len(sent) \in Nat /\ n \in Nat /\ k \in Nat /\ k - 1 + 1 = k /\ k \in 1..Len(sent) /\ n < k
    BY DEF IInv, SentInv
  <1>1. /\ SentInv /\ Orderly(t, Msg, Msg) /\ From(t) /\ Before(t, k) /\ Longer(t, k, u)
        /\ k \in 1..Len(sent)
    BY <1>0 DEF IInv, Through
  <1>2. /\ Orderly(u, Msg, Msg) /\ From(u) /\ Before(u, k + 1) /\ Extends(t, u)
        /\ u # <<>> /\ u[Len(u)].msg = sent[k]
        /\ \A i \in 1..Len(u) : i \in 1..Len(t) \/ u[i].msg = sent[k]
        /\ Joined(t) /\ LinksTo(t, k) => Joined(u)
    BY ONLY <1>1, AppendPacket
  <1>3. /\ Extends(toServer, t) /\ t[Len(t)].msg = sent[k - 1]
        /\ \A i \in 1..Len(t) : i \in 1..Len(toServer) \/ t[i].msg.id \in n..k - 1
        /\ ShortAuthentication => Joined(t)
    BY DEF Through
  <1>4. Extends(toServer, u)
    <2>1. Len(toServer) \in Nat /\ Len(t) \in Nat /\ Len(u) \in Nat
      BY <1>1, <1>2 DEF IInv, ServerInv, Orderly
    <2>2. Len(toServer) <= Len(t) /\ Len(t) <= Len(u)
      BY <1>2, <1>3 DEF Extends
    <2>3. \A i \in 1..Len(toServer) : i \in 1..Len(t) /\ u[i] = toServer[i]
      BY <1>2, <1>3, <2>1, <2>2 DEF Extends
    <2> QED BY <2>1, <2>2, <2>3 DEF Extends
  <1>5. ASSUME NEW i \in 1..Len(u) PROVE i \in 1..Len(toServer) \/ u[i].msg.id \in n..k
    <2>1. CASE i \in 1..Len(t)
      <3>1. u[i] = t[i] /\ (i \in 1..Len(toServer) \/ t[i].msg.id \in n..k - 1)
        BY <1>2, <1>3, <2>1 DEF Extends
      <3>2. \A x \in n..k - 1 : x \in n..k
        BY <1>0
      <3> QED BY <3>1, <3>2
    <2>2. CASE u[i].msg = sent[k]
      <3>1. sent[k].id = k /\ k \in n..k
        BY <1>0, <1>1, SentFacts
      <3> QED BY <2>2, <3>1
    <2> QED BY <1>2, <2>1, <2>2
  <1>6. ShortAuthentication => Joined(u)
    BY <1>2, <1>3 DEF LinksTo
  <1> QED BY <1>2, <1>4, <1>5, <1>6 DEF Through

\* What is held and the packet at hand are the packets of one command.
LEMMA HeldPackets ==
  ASSUME IInv, NEW d \in 1..Len(sent), Flow(d), Head(queue) = Whole(sent[d]),
         sent[d].kind \in Commands, NEW n, n = d - Len(parts)
  PROVE  /\ n \in 1..d /\ Len(Held) = d - n + 1 /\ Len(Held) \in Nat \ {0} /\ d \in Nat
         /\ \A j \in 1..Len(Held) : /\ n + j - 1 \in n..d /\ Held[j] = Whole(sent[n + j - 1])
                                    /\ sent[n + j - 1].kind \in Commands
         /\ Before(toServer, n)
  <1>h. PICK h : h = Held
    OBVIOUS
  <1>p. PICK p : p = parts
    OBVIOUS
  <1>1. /\ p \in Seq(Seq(Cell)) /\ Len(p) \in Nat /\ Len(p) < d /\ d \in Nat /\ n \in 1..d
        /\ n = d - Len(p) /\ Before(toServer, n)
    <2>1. d \in 1..Len(sent) + 1
      BY DEF IInv, SentInv
    <2> QED BY <1>p, <2>1, HeldFacts
  <1>2. /\ Len(h) = Len(p) + 1 /\ \A j \in 1..Len(p) : h[j] = p[j]
        /\ h[Len(p) + 1] = Whole(sent[d])
    <2>1. Whole(sent[d]) \in Seq(Cell)
      BY SentFacts DEF IInv
    <2>2. h = Append(p, Whole(sent[d]))
      BY <1>h, <1>p DEF Held
    <2> QED BY <1>1, <2>1, <2>2, AppendFacts
  <1>3. ASSUME NEW j \in 1..Len(h)
        PROVE  n + j - 1 \in n..d /\ h[j] = Whole(sent[n + j - 1]) /\ sent[n + j - 1].kind \in Commands
    <2>1. CASE j \in 1..Len(p)
      <3>1. p[j] = Whole(sent[n + j - 1]) /\ sent[n + j - 1].kind \in Commands
        BY <1>p, <2>1 DEF Flow, HeldFlow
      <3>2. n + j - 1 \in n..d
        BY <1>1, <2>1
      <3> QED BY <1>2, <2>1, <3>1, <3>2
    <2>2. CASE j = Len(p) + 1
      <3>1. n + j - 1 = d /\ d \in n..d
        <4>1. Len(p) \in Nat /\ d \in Nat /\ n = d - Len(p) /\ n \in 1..d
          BY <1>1
        <4> QED BY ONLY <2>2, <4>1
      <3> QED BY <1>2, <2>2, <3>1
    <2> QED BY <1>1, <1>2, <2>1, <2>2
  <1>4. Len(h) = d - n + 1 /\ Len(h) \in Nat \ {0}
    BY <1>1, <1>2
  <1> QED BY <1>h, <1>1, <1>3, <1>4

\* A command is forwarded: its packets go to the server one behind the other.
LEMMA RawPacketsWritten ==
  ASSUME IInv, NEW d \in 1..Len(sent), Flow(d), Head(queue) = Whole(sent[d]),
         sent[d].kind \in Commands, NEW n, n = d - Len(parts),
         ShortAuthentication /\ parts # <<>> => Follows(sent[d - 1], sent[d]),
         NEW u, u = toServer \o RawPackets
  PROVE  Through(u, n, d)
  <1>h. PICK h : h = Held
    OBVIOUS
  <1>t. PICK t : t = toServer
    OBVIOUS
  <1>1. /\ n \in 1..d /\ Len(h) = d - n + 1 /\ Len(h) \in Nat \ {0} /\ d \in Nat
        /\ \A j \in 1..Len(h) : n + j - 1 \in n..d /\ h[j] = Whole(sent[n + j - 1])
        /\ Before(t, n) /\ t \in Seq(Cell) /\ Len(sent) \in Nat
    <2>1. /\ n \in 1..d /\ Len(Held) = d - n + 1 /\ Len(Held) \in Nat \ {0} /\ d \in Nat
          /\ \A j \in 1..Len(Held) : n + j - 1 \in n..d /\ Held[j] = Whole(sent[n + j - 1])
          /\ Before(toServer, n)
      BY HeldPackets
    <2> QED BY <1>h, <1>t, <2>1 DEF IInv, ServerInv, Orderly, Cell, SentInv
  <1>2. PICK g : FlattenSeq(h) = g[Len(h)] /\ Flattens(h, g)
    BY <1>1, FlattenUnfolds
  <1>3. ASSUME NEW i \in 1..Len(h) PROVE g[i] = IF i = 1 THEN h[i] ELSE g[i - 1] \o h[i]
    BY <1>2, Zenon DEF Flattens
  <1>4. \A j \in 1..Len(h) : n + j - 1 \in 1..Len(sent) /\ h[j] \in Seq(Cell)
    <2> SUFFICES ASSUME NEW j \in 1..Len(h) PROVE n + j - 1 \in 1..Len(sent) /\ h[j] \in Seq(Cell)
      OBVIOUS
    <2>1. n + j - 1 \in 1..Len(sent) /\ h[j] = Whole(sent[n + j - 1])
      <3>1. n + j - 1 \in n..d /\ h[j] = Whole(sent[n + j - 1])
        BY <1>1
      <3> QED BY <1>1, <3>1
    <2> QED BY <2>1, SentFacts DEF IInv
  <1>5. ASSUME ShortAuthentication
        PROVE  /\ n > 1 => ~JoinsNext(sent[n - 1])
               /\ \A k \in n + 1..d : Follows(sent[k - 1], sent[k])
    <2>1. Packed(d)
      BY <1>5 DEF Flow
    <2>2. n > 1 => ~JoinsNext(sent[n - 1])
      BY <2>1 DEF Packed
    <2>3. \A j \in n..d - 2 : Follows(sent[j], sent[j + 1])
      BY <2>1 DEF Packed
    <2>4. ASSUME NEW k \in n + 1..d PROVE Follows(sent[k - 1], sent[k])
      <3>1. CASE k = d
        <4>1. Len(parts) # 0
          BY <1>1, <3>1
        <4>2. parts # <<>>
          BY <4>1
        <4> QED BY <1>5, <3>1, <4>2
      <3>2. CASE k # d
        <4>1. k - 1 \in n..d - 2 /\ (k - 1) + 1 = k
          BY <1>1, <3>2
        <4>2. Follows(sent[k - 1], sent[(k - 1) + 1])
          BY <2>3, <4>1
        <4> QED BY <4>1, <4>2
      <3> QED BY <3>1, <3>2
    <2> QED BY <2>2, <2>4
  <1> DEFINE Fine(j) == g[j] \in Seq(Cell) /\ Through(t \o g[j], n, n + j - 1)
             Done == {i \in Nat : i <= Len(h) - 1 => Fine(i + 1)}
  <1>6. 0 \in Done
    <2>v. PICK v : v = t \o g[1]
      OBVIOUS
    <2>1. 1 \in 1..Len(h) /\ n + 1 - 1 = n
      BY <1>1
    <2>2. g[1] = Whole(sent[n]) /\ g[1] \in Seq(Cell) /\ n \in 1..Len(sent)
      <3>1. h[1] = Whole(sent[n + 1 - 1]) /\ h[1] \in Seq(Cell) /\ n + 1 - 1 \in 1..Len(sent)
        BY <1>1, <1>4, <2>1
      <3> QED BY <1>3, <2>1, <3>1
    <2>3. Longer(toServer, n, v)
      BY <1>t, <2>v, <2>2 DEF Longer
    <2>4. Through(v, n, n)
      BY <1>t, <1>1, <1>5, <2>2, <2>3, ThroughStarts
    <2>5. Fine(1)
      BY <2>v, <2>1, <2>2, <2>4
    <2> QED BY <2>5
  <1>7. ASSUME NEW i \in 0..Len(h) - 1 - 1, i \in Done PROVE i + 1 \in Done
    <2>0. i \in Nat /\ i <= Len(h) - 1 /\ i + 1 \in 1..Len(h) /\ i + 2 \in 2..Len(h) /\ i + 2 \in 1..Len(h)
      BY <1>1
    <2>1. Fine(i + 1)
      BY <1>7, <2>0
    <2>a. PICK a : a = t \o g[i + 1]
      OBVIOUS
    <2>v. PICK v : v = t \o g[i + 2]
      OBVIOUS
    <2>k. PICK k : k = n + i + 1
      OBVIOUS
    <2>2. /\ n \in Nat /\ k \in n + 1..Len(sent) /\ k - 1 = n + (i + 1) - 1 /\ k = n + (i + 2) - 1 /\ k \in n + 1..d
      BY <1>1, <2>0, <2>k
    <2>3. g[i + 1] \in Seq(Cell) /\ Through(a, n, k - 1)
      BY <2>a, <2>1, <2>2
    <2>x. PICK x : x = i + 2
      OBVIOUS
    <2>b. PICK b : b = g[i + 1]
      OBVIOUS
    <2>c. PICK c : c = h[x]
      OBVIOUS
    <2>4. g[x] = b \o c /\ c = Whole(sent[k]) /\ c \in Seq(Cell) /\ b \in Seq(Cell)
      <3>1. x \in 1..Len(h) /\ x # 1 /\ x - 1 = i + 1 /\ n + x - 1 = k
        BY <2>x, <2>0, <2>2
      <3>2. g[x] = g[x - 1] \o h[x]
        BY <1>3, <3>1, Zenon
      <3>3. g[x] = b \o c
        BY <2>b, <2>c, <3>1, <3>2, Zenon
      <3>4. c = Whole(sent[k]) /\ c \in Seq(Cell)
        BY <1>1, <1>4, <2>c, <3>1
      <3> QED BY <2>b, <2>3, <3>3, <3>4
    <2>5. g[x] \in Seq(Cell) /\ v = a \o Whole(sent[k])
      <3>1. (t \o b) \o c = t \o (b \o c)
        <4>1. t \in Seq(Cell) /\ b \in Seq(Cell) /\ c \in Seq(Cell)
          BY <1>1, <2>4
        <4>2. \A r, s, w \in Seq(Cell) : (r \o s) \o w = r \o (s \o w)
          BY ConcatAssoc
        <4> QED BY <4>1, <4>2, Zenon
      <3>2. b \o c \in Seq(Cell)
        BY <2>4, ConcatType
      <3>3. v = t \o g[x] /\ a = t \o b
        BY <2>a, <2>v, <2>x, <2>b, Zenon
      <3>4. v = a \o c
        BY <2>4, <3>1, <3>3, Zenon
      <3> QED BY <2>4, <3>2, <3>4, Zenon
    <2>6. Through(v, n, k)
      <3>1. n \in 1..Len(sent) /\ Longer(a, k, v) /\ (ShortAuthentication => Follows(sent[k - 1], sent[k]))
        BY <1>1, <1>5, <2>2, <2>5 DEF Longer
      <3> QED BY <2>2, <2>3, <3>1, ThroughGoesOn
    <2>7. Fine(i + 2) /\ i + 1 + 1 = i + 2
      BY <2>v, <2>x, <2>0, <2>2, <2>5, <2>6
    <2> QED BY <2>0, <2>7
  <1> HIDE DEF Fine
  <1>8. \A i \in 0..Len(h) - 1 : i \in Done
    <2>1. Len(h) - 1 \in Nat /\ \A i \in 0..Len(h) - 1 - 1 : i \in Done => i + 1 \in Done
      BY <1>1, <1>7
    <2> HIDE DEF Done
    <2> QED BY <1>6, <2>1, Induction
  <1>9. Fine(Len(h))
    <2>1. Len(h) - 1 \in 0..Len(h) - 1 /\ Len(h) - 1 + 1 = Len(h) /\ Len(h) - 1 <= Len(h) - 1
      BY <1>1
    <2>2. Len(h) - 1 \in Done
      BY <1>8, <2>1
    <2>3. Fine(Len(h) - 1 + 1)
      BY <2>1, <2>2
    <2> QED BY <2>1, <2>3
  <1>10. n + Len(h) - 1 = d
    BY <1>1
  <1>11. u = t \o g[Len(h)]
    BY <1>h, <1>t, <1>2 DEF RawPackets
  <1>12. Through(t \o g[Len(h)], n, n + Len(h) - 1)
    BY <1>9 DEF Fine
  <1> QED BY <1>10, <1>11, <1>12

\* A command is forwarded or refused.
LEMMA DispatchKeeps ==
  ASSUME IInv, Dispatch
  PROVE  IInv'
  <1>i. PICK ids : ids = {Held[i][1].msg.id : i \in 1..Len(Held)}
    OBVIOUS
  <1>1. /\ clientTask \in {"handle", "decide"}
        /\ clientTask = "handle" => phase = "command" /\ ~OutOfSequence /\ ~Continued(Packet)
        /\ inspected' = inspected \cup ids /\ parts' = <<>>
        /\ NextPacket(Packet.kind = "quit")
        /\ UNCHANGED <<sent, c2p, buf, served, b2p, serverGone, bbuf, clientSock, serverSock, handler,
                       greeted, granted, auth, phase>>
    BY <1>i DEF Dispatch, Fits, InCommand, ClientPumpFrame, server, sockets
  <1>2. Advance
    BY <1>1, NextPacketAdvances
  <1>3. phase = "command"
    <2>1. PICK d \in 1..Len(sent) + 1 : Flow(d)
      BY <1>1 DEF IInv, Active
    <2> QED BY <1>1, <2>1 DEF Flow, HeldFlow
  <1>4. PICK d \in 1..Len(sent) :
           /\ Flow(d) /\ Packet = sent[d] /\ Head(queue) = Whole(sent[d])
           /\ sent[d] \in Msg /\ sent[d].kind \in Commands
           /\ ShortAuthentication /\ parts # <<>> => Follows(sent[d - 1], sent[d])
           /\ ShortAuthentication => ~Continued(sent[d])
    <2>1. PICK d \in 1..Len(sent) :
           /\ Flow(d) /\ Packet = sent[d] /\ Head(queue) = Whole(sent[d])
           /\ sent[d] \in Msg /\ sent[d].kind \in Commands
           /\ ShortAuthentication /\ parts # <<>> => Follows(sent[d - 1], sent[d])
           /\ ShortAuthentication /\ clientTask = "decide" => ~Continued(sent[d])
      BY <1>1, <1>3, CommandFlow
    <2>2. clientTask = "handle" => ~Continued(sent[d])
      BY <1>1, <2>1
    <2> QED BY <1>1, <2>1, <2>2
  <1>n. PICK n : n = d - Len(parts)
    OBVIOUS
  <1>5. /\ n \in 1..d /\ Len(Held) = d - n + 1 /\ d \in Nat /\ Len(sent) \in Nat
        /\ \A j \in 1..Len(Held) : /\ n + j - 1 \in n..d /\ Held[j] = Whole(sent[n + j - 1])
                                   /\ sent[n + j - 1].kind \in Commands
        /\ Before(toServer, n)
    <2>1. Len(sent) \in Nat
      BY DEF IInv, SentInv
    <2> QED BY <1>n, <1>4, <2>1, HeldPackets
  <1>6. /\ \A k \in n..d : k \in ids
        /\ \A k \in ids : k \in 1..Len(sent) /\ sent[k].kind \in Commands
    <2>1. ASSUME NEW j \in 1..Len(Held)
          PROVE  n + j - 1 \in 1..Len(sent) /\ Held[j][1].msg.id = n + j - 1 /\ sent[n + j - 1].kind \in Commands
      <3>1. n + j - 1 \in n..d /\ Held[j] = Whole(sent[n + j - 1]) /\ sent[n + j - 1].kind \in Commands
        BY <1>5
      <3>2. n + j - 1 \in 1..Len(sent)
        BY <1>5, <3>1
      <3>3. Whole(sent[n + j - 1])[1].msg = sent[n + j - 1] /\ sent[n + j - 1].id = n + j - 1
        BY <3>2, SentFacts DEF IInv
      <3> QED BY <3>1, <3>2, <3>3
    <2>2. ASSUME NEW k \in n..d PROVE k \in ids
      <3>1. k - n + 1 \in 1..Len(Held) /\ n + (k - n + 1) - 1 = k
        BY <1>5
      <3>2. Held[k - n + 1][1].msg.id = k
        BY <2>1, <3>1
      <3> QED BY <1>i, <3>1, <3>2
    <2>3. ASSUME NEW k \in ids PROVE k \in 1..Len(sent) /\ sent[k].kind \in Commands
      <3>1. PICK j \in 1..Len(Held) : k = Held[j][1].msg.id
        BY <1>i
      <3> QED BY <2>1, <3>1
    <2> QED BY <2>2, <2>3
  <1>u. PICK u : u = toServer'
    OBVIOUS
  <1>7. /\ Orderly(u, Msg, Msg) /\ From(u) /\ Before(u, d + 1) /\ Extends(toServer, u)
        /\ toServer # <<>>
        /\ \A i \in 1..Len(u) : i \in 1..Len(toServer) \/ u[i].msg.id \in n..d
        /\ ShortAuthentication => Joined(u) /\ (u # <<>> => ~JoinsNext(u[Len(u)].msg))
        /\ toClient' \in Seq(SCell) /\ Extends(toClient, toClient')
        /\ \A p \in Said(toClient') : p \in Said(toClient) \/ p.kind = "err"
    <2>1. toServer # <<>>
      BY <1>3 DEF IInv, PhaseInv
    <2>2. CASE toServer' = toServer \o RawPackets /\ UNCHANGED toClient
      <3>1. Through(u, n, d)
        BY <1>n, <1>u, <1>4, <2>2, RawPacketsWritten
      <3>2. ShortAuthentication => ~JoinsNext(u[Len(u)].msg)
        BY <1>4, <3>1 DEF Through, JoinsNext
      <3>3. toClient \in Seq(SCell) /\ Extends(toClient, toClient)
        BY DEF IInv, AnswersInv, Extends
      <3> QED BY <2>1, <2>2, <3>1, <3>2, <3>3 DEF Through
    <2>3. CASE WriteClient(Whole(Reply(Packet, "err"))) /\ UNCHANGED toServer
      <3>w. PICK w : w = Whole(Reply(Packet, "err"))
        OBVIOUS
      <3>1. w \in Seq(SCell) /\ \A p \in Said(w) : p.kind = "err"
        BY <3>w, <1>4, ErrFacts
      <3>2. /\ toClient' \in Seq(SCell) /\ Extends(toClient, toClient')
            /\ Said(toClient') \subseteq Said(toClient) \cup Said(w)
        BY <2>3, <3>w, <3>1, WriteClientFacts DEF IInv
      <3>3. u = toServer /\ Orderly(u, Msg, Msg) /\ From(u) /\ Extends(toServer, u)
        BY <1>u, <2>3 DEF IInv, ServerInv, Orderly, Extends
      <3>4. Before(u, d + 1)
        <4>1. d \in 1..Len(sent) + 1
          BY <1>5
        <4> QED BY <1>4, <3>3, <4>1, HeldFacts
      <3>5. ShortAuthentication => Joined(u) /\ (u # <<>> => ~JoinsNext(u[Len(u)].msg))
        BY <3>3 DEF IInv, PackInv
      <3> QED BY <2>1, <3>1, <3>2, <3>3, <3>4, <3>5
    <2> QED BY <2>2, <2>3 DEF Dispatch
  <1>8. PumpStep
    <2>1. clientTask' \in {"read", "handle", "decide", "ended"}
      BY <1>2 DEF Advance
    <2>2. From(toServer)'
      BY <1>u, <1>1, <1>7 DEF From
    <2> QED BY <1>u, <1>1, <1>7, <2>1, <2>2 DEF PumpStep
  <1>9. RelayTyped'
    <2>1. inspected' \in SUBSET (1..Len(sent'))
      BY <1>1, <1>6 DEF IInv, RelayTyped
    <2> QED BY <1>1, <1>2, <2>1 DEF IInv, RelayTyped, Advance
  <1>10. PhaseInv'
    <2>1. u # <<>>
      <3>1. Len(toServer) <= Len(u) /\ Len(toServer) \in Nat /\ Len(toServer) # 0
        BY <1>7 DEF Extends, IInv, ServerInv, Orderly
      <3> QED BY <3>1
    <2>2. clientSock = "open" => \E i \in 1..Len(toClient') : toClient'[i].msg.kind = "ok"
      <3> SUFFICES ASSUME clientSock = "open" PROVE \E i \in 1..Len(toClient') : toClient'[i].msg.kind = "ok"
        OBVIOUS
      <3>1. PICK i \in 1..Len(toClient) : toClient[i].msg.kind = "ok"
        BY <1>3 DEF IInv, PhaseInv
      <3>2. toClient'[i] = toClient[i] /\ i \in 1..Len(toClient')
        <4>1. Len(toClient) \in Nat /\ Len(toClient') \in Nat
          BY <1>7 DEF IInv, AnswersInv
        <4> QED BY <1>7, <4>1 DEF Extends
      <3> QED BY <3>1, <3>2
    <2> QED BY <1>u, <1>1, <1>3, <2>1, <2>2 DEF IInv, PhaseInv
  <1>11. CommandsAreInspected'
    <2>1. ASSUME NEW i \in 1..Len(u), u[i].msg.kind \in Commands
          PROVE  u[i].msg.early \/ u[i].msg.id \in inspected \cup ids
      <3>1. CASE i \in 1..Len(toServer)
        <4>1. u[i] = toServer[i]
          BY <1>7, <3>1 DEF Extends
        <4> QED BY <2>1, <3>1, <4>1 DEF IInv, CommandsAreInspected
      <3>2. CASE u[i].msg.id \in n..d
        BY <1>6, <3>2
      <3> QED BY <1>7, <3>1, <3>2
    <2>2. ASSUME NEW i \in 1..Len(sent), sent[i].kind \notin Commands PROVE i \notin inspected \cup ids
      BY <1>6, <2>2 DEF IInv, CommandsAreInspected
    <2> QED BY <1>u, <1>1, <2>1, <2>2 DEF CommandsAreInspected
  <1>12. ShortAuthentication => PackInv'
    BY <1>u, <1>1, <1>7 DEF PackInv, Joined
  <1>13. \E e \in 1..Len(sent') + 1 : Flow(e)'
    <2>1. d \in 1..Len(sent) + 1 /\ SentInv /\ Before(toServer', d + 1)
      BY <1>u, <1>5, <1>7 DEF IInv
    <2>2. ShortAuthentication => ~JoinsNext(sent[d])
      BY <1>4 DEF JoinsNext
    <2> QED BY <1>1, <1>2, <1>4, <2>1, <2>2, DoneFlow
  <1> QED BY <1>8, <1>9, <1>10, <1>11, <1>12, <1>13, PumpStepKeeps DEF IInv, ShortAuthentication

-----------------------------------------------------------------------------
(***************************************************************************)
(* The server's pump.                                                      *)
(***************************************************************************)
Phases == {"authentication", "command", "closed"}
Auths  == {"waiting", "authenticating", "tls_rejected", "authenticated", "failed"}

RouteStates == [ok : BOOLEAN, greeted : BOOLEAN, auth : Auths, phase : Phases, out : Seq(SCell)]

\* The packets of a chunk, routed one after the other.
Routed(base, packets) == FoldLeft(Route, base, packets)

Routes(base, packets, g) ==
  /\ g[0] = base
  /\ \A i \in 1..Len(packets) : g[i] = Route(g[i - 1], packets[i])

\* What a packet does to the state of the pump.
LEMMA RouteCases ==
  ASSUME auth \in Auths, NEW s \in RouteStates, NEW w \in Seq(SCell), NEW p, p = w[1].msg
  PROVE  \/ Route(s, w) = s
         \/ /\ ~s.greeted
            /\ Route(s, w) = [s EXCEPT !.greeted = TRUE, !.out = @ \o w]
         \/ Route(s, w) = [s EXCEPT !.ok = FALSE]
         \/ /\ s.greeted /\ s.phase = "authentication" /\ s.auth = "authenticating"
            /\ Route(s, w) = [s EXCEPT !.auth = AuthAfter(p), !.phase = PhaseAfter(p), !.out = @ \o w]
         \/ /\ s.greeted /\ s.phase = "command"
            /\ Route(s, w) = [s EXCEPT !.out = @ \o w]
  <1>1. s.phase \in Phases /\ s.greeted \in BOOLEAN /\ s.ok \in BOOLEAN
    BY DEF RouteStates
  <1>2. CASE ~s.ok
    BY <1>2, Zenon DEF Route
  <1>3. CASE s.ok /\ ~s.greeted
    BY <1>3, Zenon DEF Route
  <1>4. CASE s.ok /\ s.greeted /\ (s.phase = "closed" \/ (s.phase = "authentication" /\ s.auth # "authenticating"))
    BY <1>4, Zenon DEF Route
  <1>5. CASE s.ok /\ s.greeted /\ s.phase = "authentication" /\ s.auth = "authenticating"
    <2>1. Route(s, w) = [s EXCEPT !.auth = AuthAfter(p), !.phase = PhaseAfter(p), !.out = @ \o w]
      BY <1>5, Zenon DEF Route
    <2> QED BY <1>5, <2>1
  <1>6. CASE s.ok /\ s.greeted /\ s.phase = "command"
    <2>1. Route(s, w) = [s EXCEPT !.out = @ \o w]
      BY <1>6, Zenon DEF Route
    <2> QED BY <1>6, <2>1
  <1> QED BY <1>1, <1>2, <1>3, <1>4, <1>5, <1>6 DEF Phases

\* The state of the pump stays well-formed.
LEMMA RouteTyped ==
  ASSUME auth \in Auths, NEW s \in RouteStates, NEW w \in Seq(SCell)
  PROVE  Route(s, w) \in RouteStates
  <1>p. PICK p : p = w[1].msg
    OBVIOUS
  <1>1. s.out \in Seq(SCell) /\ s.out \o w \in Seq(SCell)
    <2>1. s.out \in Seq(SCell)
      BY DEF RouteStates
    <2> QED BY <2>1, ConcatType
  <1>2. AuthAfter(p) \in Auths /\ PhaseAfter(p) \in Phases
    BY DEF AuthAfter, PhaseAfter, Auths, Phases
  <1>o. PICK o : o = s.out \o w
    OBVIOUS
  <1>3. o \in Seq(SCell)
    BY <1>o, <1>1
  <1>4. CASE Route(s, w) = s
    BY <1>4
  <1>5. CASE Route(s, w) = [s EXCEPT !.greeted = TRUE, !.out = @ \o w]
    <2>1. Route(s, w) = [s EXCEPT !.greeted = TRUE, !.out = o]
      BY <1>5, <1>o
    <2> QED BY <1>3, <2>1 DEF RouteStates
  <1>6. CASE Route(s, w) = [s EXCEPT !.ok = FALSE]
    BY <1>6 DEF RouteStates
  <1>7. CASE Route(s, w) = [s EXCEPT !.auth = AuthAfter(p), !.phase = PhaseAfter(p), !.out = @ \o w]
    <2>1. Route(s, w) = [s EXCEPT !.auth = AuthAfter(p), !.phase = PhaseAfter(p), !.out = o]
      BY <1>7, <1>o
    <2> QED BY <1>2, <1>3, <2>1 DEF RouteStates
  <1>8. CASE Route(s, w) = [s EXCEPT !.out = @ \o w]
    <2>1. Route(s, w) = [s EXCEPT !.out = o]
      BY <1>8, <1>o
    <2> QED BY <1>3, <2>1 DEF RouteStates
  <1> QED BY <1>p, <1>4, <1>5, <1>6, <1>7, <1>8, RouteCases

\* The fold over the packets of a chunk takes one after the other.
LEMMA RoutesUnfold ==
  ASSUME auth \in Auths, NEW packets \in Seq(Seq(SCell)), NEW base \in RouteStates
  PROVE  \E g : Routed(base, packets) = g[Len(packets)] /\ Routes(base, packets, g)
  <1> DEFINE n == Len(packets)
             op == [x \in (1..n) \X RouteStates |-> Route(x[2], packets[x[1]])]
             Body(it) == [t \in SUBSET (DOMAIN packets) |->
                            IF t = {} THEN base ELSE Route(it[t \ {Max(t)}], packets[Max(t)])]
  <1>1. n \in Nat /\ DOMAIN packets = 1..n
    OBVIOUS
  <1>2. ASSUME NEW i \in 1..n, NEW s \in RouteStates PROVE Route(s, packets[i]) \in RouteStates
    <2>1. packets[i] \in Seq(SCell)
      OBVIOUS
    <2> QED BY <2>1, RouteTyped
  <1>3. op \in [(1..n) \X RouteStates -> RouteStates]
    <2>1. ASSUME NEW x \in (1..n) \X RouteStates PROVE Route(x[2], packets[x[1]]) \in RouteStates
      <3>1. x[1] \in 1..n /\ x[2] \in RouteStates
        BY Zenon
      <3> HIDE DEF n
      <3> QED BY <1>2, <3>1
    <2> HIDE DEF n
    <2> QED BY <2>1, Zenon
  <1>4. PICK it \in [SUBSET (1..n) -> RouteStates] : FoldsBy(it, n, base, op)
    <2> HIDE DEF n, op
    <2> QED BY <1>1, <1>3, FoldExists
  <1>5. ASSUME NEW t \in SUBSET (1..n)
        PROVE  it[t] = IF t = {} THEN base ELSE Route(it[t \ {Max(t)}], packets[Max(t)])
    <2>1. CASE t = {}
      BY <1>4, <2>1 DEF FoldsBy
    <2>2. CASE t # {}
      <3>1. Max(t) \in 1..n
        <4> HIDE DEF n
        <4> QED BY <1>1, <2>2, MaxIsIn
      <3>2. t \ {Max(t)} \in SUBSET (1..n)
        OBVIOUS
      <3>3. it[t \ {Max(t)}] \in RouteStates
        BY <3>2
      <3>4. op[<<Max(t), it[t \ {Max(t)}]>>] = Route(it[t \ {Max(t)}], packets[Max(t)])
        <4>a. PICK a : a = Max(t)
          OBVIOUS
        <4>b. PICK b : b = it[t \ {Max(t)}]
          OBVIOUS
        <4>1. op[<<a, b>>] = Route(b, packets[a])
          <5>1. <<a, b>> \in (1..n) \X RouteStates
            BY <3>1, <3>3, <4>a, <4>b
          <5> QED BY <5>1
        <4> QED BY <4>a, <4>b, <4>1
      <3> QED BY <1>4, <2>2, <3>4 DEF FoldsBy
    <2> QED BY <2>1, <2>2
  <1>6. it = Body(it)
    <2>1. it = [t \in SUBSET (1..n) |-> it[t]]
      OBVIOUS
    <2> HIDE DEF n
    <2> QED BY <1>1, <1>5, <2>1
  <1> DEFINE fold == CHOOSE f : f = Body(f)
  <1>7. fold = Body(fold)
    <2> HIDE DEF Body
    <2> QED BY <1>6, Zenon DEF fold
  <1>8. Routed(base, packets) = fold[1..n]
    <2>1. Routed(base, packets) = fold[DOMAIN packets]
      BY Zenon DEF Routed, FoldLeft, MapThenFoldSet
    <2> HIDE DEF fold
    <2> QED BY <1>1, <2>1
  <1> HIDE DEF fold
  <1> DEFINE g == [i \in 0..n |-> fold[1..i]]
  <1>9. g[0] = base
    <2>1. 1..0 = {} /\ {} \in SUBSET (DOMAIN packets)
      OBVIOUS
    <2>2. fold[{}] = base
      BY <1>7, <2>1
    <2> QED BY <2>1, <2>2
  <1>10. ASSUME NEW i \in 1..n PROVE g[i] = Route(g[i - 1], packets[i])
    <2>1. 1..i \in SUBSET (DOMAIN packets) /\ 1..i # {} /\ i \in 0..n /\ i - 1 \in 0..n
      <3>1. i \in 0..n /\ i - 1 \in 0..n /\ i \in 1..i /\ \A x \in 1..i : x \in 1..n
        <4> HIDE DEF n
        <4> QED BY <1>1
      <3> QED BY <1>1, <3>1
    <2>2. Max(1..i) = i /\ (1..i) \ {i} = 1..i - 1
      BY UptoMax
    <2>3. fold[1..i] = Route(fold[1..i - 1], packets[i])
      BY <1>7, <2>1, <2>2
    <2> QED BY <2>1, <2>3
  <1>11. Routes(base, packets, g)
    BY <1>9, <1>10 DEF Routes
  <1>12. Routed(base, packets) = g[Len(packets)]
    BY <1>1, <1>8 DEF g
  <1> QED BY <1>11, <1>12

\* What holds of the pump's state between two packets of a chunk.
Sound(s) ==
  /\ s \in RouteStates
  /\ \A i \in 1..Len(s.out) : s.out[i].msg \in Said(Answers)
  /\ ~s.greeted => s.auth = "waiting"
  /\ auth = "waiting" => s.phase = "authentication"
  /\ (s.auth = "waiting") = (auth = "waiting")
  /\ s.auth \in {"authenticating", "authenticated"} => auth \in {"authenticating", "authenticated"}
  /\ s.phase = "command" => s.auth = "authenticated"
  /\ s.phase = "command" => phase = "command" \/ \E i \in 1..Len(s.out) : s.out[i].msg.kind = "ok"
  /\ s.phase = "authentication" =>
       /\ s.auth \in {"waiting", "authenticating"} /\ phase = "authentication"
       /\ \A i \in 1..Len(s.out) : s.out[i].msg.kind # "ok"
  /\ phase # "authentication" => s.phase = phase

\* Before the client has answered the greeting there is no OK.
LEMMA NoEarlyOk ==
  ASSUME IInv, auth = "waiting", NEW m \in Said(Answers)
  PROVE  m.kind # "ok"
  <1> SUFFICES ASSUME m.kind = "ok" PROVE FALSE
    OBVIOUS
  <1>1. m \in Replies
    BY DEF Replies
  <1>2. ServedId(m.id)
    BY <1>1 DEF IInv, Dialogue
  <1>3. toServer = <<>> /\ served \in 0..Len(toServer)
    BY DEF IInv, PhaseInv, ServerInv
  <1> QED BY <1>2, <1>3 DEF ServedId

\* What is relayed with one more packet.
LEMMA OutGrows ==
  ASSUME NEW o \in Seq(SCell), NEW w \in Seq(SCell), Len(w) > 0, NEW m,
         \A i \in 1..Len(w) : w[i].msg = m, NEW u, u = o \o w
  PROVE  /\ u \in Seq(SCell)
         /\ \A i \in 1..Len(u) : u[i].msg = m \/ (i \in 1..Len(o) /\ u[i] = o[i])
         /\ \A i \in 1..Len(o) : i \in 1..Len(u) /\ u[i] = o[i]
         /\ \E i \in 1..Len(u) : u[i].msg = m
  <1>1. /\ u \in Seq(SCell) /\ Len(o) \in Nat /\ Len(w) \in Nat /\ Len(u) = Len(o) + Len(w)
        /\ \A i \in 1..Len(o) : u[i] = o[i]
        /\ \A i \in Len(o) + 1..Len(o) + Len(w) : u[i] = w[i - Len(o)]
    BY ConcatFacts
  <1>2. ASSUME NEW i \in Len(o) + 1..Len(u) PROVE u[i].msg = m
    <2>1. i - Len(o) \in 1..Len(w) /\ i \in Len(o) + 1..Len(o) + Len(w)
      BY <1>1
    <2> QED BY <1>1, <2>1
  <1>3. \A i \in 1..Len(u) : i \in 1..Len(o) \/ i \in Len(o) + 1..Len(u)
    BY <1>1
  <1>4. Len(u) \in Len(o) + 1..Len(u) /\ Len(u) \in 1..Len(u)
    BY <1>1
  <1>5. \A i \in 1..Len(o) : i \in 1..Len(u)
    BY <1>1
  <1> QED BY <1>1, <1>2, <1>3, <1>4, <1>5

\* Routing a packet keeps the state of the pump sound.
LEMMA RouteSound ==
  ASSUME IInv, NEW s, Sound(s), NEW w \in Seq(SCell), Len(w) > 0, NEW m \in Said(Answers),
         \A i \in 1..Len(w) : w[i].msg = m
  PROVE  Sound(Route(s, w))
  <1>p. w[1].msg = m
    OBVIOUS
  <1>0. auth \in Auths /\ s \in RouteStates /\ s.out \in Seq(SCell)
    BY DEF IInv, RelayTyped, Auths, Sound, RouteStates
  <1>u. PICK u : u = s.out \o w
    OBVIOUS
  <1>r. PICK r : r = Route(s, w)
    OBVIOUS
  <1> SUFFICES Sound(r)
    BY <1>r
  <1>1. /\ u \in Seq(SCell)
        /\ \A i \in 1..Len(u) : u[i].msg = m \/ (i \in 1..Len(s.out) /\ u[i] = s.out[i])
        /\ \A i \in 1..Len(s.out) : i \in 1..Len(u) /\ u[i] = s.out[i]
        /\ \E i \in 1..Len(u) : u[i].msg = m
    <2>o. PICK o : o = s.out
      OBVIOUS
    <2>1. /\ o \in Seq(SCell) /\ w \in Seq(SCell) /\ Len(w) > 0 /\ u = o \o w
          /\ \A i \in 1..Len(w) : w[i].msg = m
      BY <1>u, <1>0, <2>o
    <2>2. /\ u \in Seq(SCell)
          /\ \A i \in 1..Len(u) : u[i].msg = m \/ (i \in 1..Len(o) /\ u[i] = o[i])
          /\ \A i \in 1..Len(o) : i \in 1..Len(u) /\ u[i] = o[i]
          /\ \E i \in 1..Len(u) : u[i].msg = m
      BY ONLY <2>1, OutGrows
    <2> QED BY <2>o, <2>2
  <1>2. r \in RouteStates
    BY <1>r, <1>0, RouteTyped
  <1>3. \A i \in 1..Len(u) : u[i].msg \in Said(Answers)
    BY <1>1 DEF Sound
  <1>4. (\E i \in 1..Len(s.out) : s.out[i].msg.kind = "ok") => \E i \in 1..Len(u) : u[i].msg.kind = "ok"
    BY <1>1
  <1>5. (\A i \in 1..Len(s.out) : s.out[i].msg.kind # "ok") /\ m.kind # "ok" =>
          \A i \in 1..Len(u) : u[i].msg.kind # "ok"
    BY <1>1
  <1>6. m.kind = "ok" => \E i \in 1..Len(u) : u[i].msg.kind = "ok"
    BY <1>1
  <1>7. CASE r = s
    BY <1>7
  <1>8. CASE ~s.greeted /\ r = [s EXCEPT !.greeted = TRUE, !.out = @ \o w]
    <2>1. r.greeted = TRUE /\ r.out = u /\ r.auth = s.auth /\ r.phase = s.phase
      BY <1>8, <1>0, <1>u DEF RouteStates
    <2>2. auth = "waiting"
      BY <1>8 DEF Sound
    <2>3. m.kind # "ok"
      BY <2>2, NoEarlyOk
    <2> QED BY <1>2, <1>3, <1>4, <1>5, <2>1, <2>3 DEF Sound
  <1>9. CASE r = [s EXCEPT !.ok = FALSE]
    <2>1. r.greeted = s.greeted /\ r.out = s.out /\ r.auth = s.auth /\ r.phase = s.phase
      BY <1>9, <1>0 DEF RouteStates
    <2> QED BY <1>2, <2>1 DEF Sound
  <1>10. CASE /\ s.greeted /\ s.phase = "authentication" /\ s.auth = "authenticating"
              /\ r = [s EXCEPT !.auth = AuthAfter(m), !.phase = PhaseAfter(m), !.out = @ \o w]
    <2>1. r.greeted = s.greeted /\ r.out = u /\ r.auth = AuthAfter(m) /\ r.phase = PhaseAfter(m)
      BY <1>10, <1>0, <1>u DEF RouteStates
    <2>2. auth = "authenticating" /\ phase = "authentication"
      <3>1. auth \in {"authenticating", "authenticated"} /\ phase = "authentication"
        BY <1>10 DEF Sound
      <3> QED BY <3>1 DEF IInv, PhaseInv
    <2>3. CASE m.kind = "ok"
      <3>1. r.auth = "authenticated" /\ r.phase = "command"
        BY <2>1, <2>3 DEF AuthAfter, PhaseAfter
      <3> QED BY <1>2, <1>3, <1>6, <1>10, <2>1, <2>2, <2>3, <3>1 DEF Sound
    <2>4. CASE m.kind = "err"
      <3>1. r.auth = "failed" /\ r.phase = "closed"
        BY <2>1, <2>4 DEF AuthAfter, PhaseAfter
      <3> QED BY <1>2, <1>3, <1>10, <2>1, <2>2, <3>1 DEF Sound
    <2>5. CASE m.kind \notin {"ok", "err"}
      <3>1. r.auth = "authenticating" /\ r.phase = "authentication"
        BY <2>1, <2>2, <2>5 DEF AuthAfter, PhaseAfter
      <3> QED BY <1>2, <1>3, <1>5, <1>10, <2>1, <2>2, <2>5, <3>1 DEF Sound
    <2> QED BY <2>3, <2>4, <2>5
  <1>11. CASE s.greeted /\ s.phase = "command" /\ r = [s EXCEPT !.out = @ \o w]
    <2>1. r.greeted = s.greeted /\ r.out = u /\ r.auth = s.auth /\ r.phase = s.phase
      BY <1>11, <1>0, <1>u DEF RouteStates
    <2> QED BY <1>2, <1>3, <1>4, <1>11, <2>1 DEF Sound
  <1>12. \/ r = s
         \/ ~s.greeted /\ r = [s EXCEPT !.greeted = TRUE, !.out = @ \o w]
         \/ r = [s EXCEPT !.ok = FALSE]
         \/ /\ s.greeted /\ s.phase = "authentication" /\ s.auth = "authenticating"
            /\ r = [s EXCEPT !.auth = AuthAfter(m), !.phase = PhaseAfter(m), !.out = @ \o w]
         \/ s.greeted /\ s.phase = "command" /\ r = [s EXCEPT !.out = @ \o w]
    BY ONLY <1>0, <1>p, <1>r, w \in Seq(SCell), RouteCases
  <1> QED BY <1>7, <1>8, <1>9, <1>10, <1>11, <1>12

\* Whole packets of the server's.
FromAnswers(packets) ==
  \A j \in 1..Len(packets) :
    \E m \in Said(Answers) : Len(packets[j]) > 0 /\ \A i \in 1..Len(packets[j]) : packets[j][i].msg = m

\* All packets of a chunk.
LEMMA RoutedSound ==
  ASSUME IInv, NEW packets \in Seq(Seq(SCell)), FromAnswers(packets), NEW base, Sound(base)
  PROVE  Sound(Routed(base, packets))
  <1>0. auth \in Auths /\ base \in RouteStates /\ Len(packets) \in Nat
    BY DEF IInv, RelayTyped, Auths, Sound
  <1>1. PICK g : Routed(base, packets) = g[Len(packets)] /\ Routes(base, packets, g)
    BY <1>0, RoutesUnfold
  <1> DEFINE Fine == {i \in Nat : Sound(g[i])}
  <1>2. 0 \in Fine
    BY <1>1 DEF Routes
  <1>3. ASSUME NEW i \in 0..Len(packets) - 1, i \in Fine PROVE i + 1 \in Fine
    <2>0. i + 1 \in 1..Len(packets) /\ (i + 1) - 1 = i /\ i + 1 \in Nat
      BY <1>0
    <2>w. PICK w : w = packets[i + 1]
      OBVIOUS
    <2>1. w \in Seq(SCell)
      BY <2>w, <2>0
    <2>2. PICK m \in Said(Answers) : Len(w) > 0 /\ \A x \in 1..Len(w) : w[x].msg = m
      BY <2>w, <2>0 DEF FromAnswers
    <2>s. PICK s : s = g[i]
      OBVIOUS
    <2>3. Sound(s)
      BY <1>3, <2>s
    <2>4. Sound(Route(s, w))
      BY <2>1, <2>2, <2>3, RouteSound
    <2>5. g[i + 1] = Route(s, w)
      BY <1>1, <2>0, <2>w, <2>s DEF Routes
    <2> QED BY <2>0, <2>4, <2>5
  <1>4. \A i \in 0..Len(packets) : i \in Fine
    <2>1. \A i \in 0..Len(packets) - 1 : i \in Fine => i + 1 \in Fine
      BY <1>3
    <2> HIDE DEF Fine
    <2> QED BY <1>0, <1>2, <2>1, Induction
  <1>5. Len(packets) \in 0..Len(packets)
    BY <1>0
  <1> QED BY <1>1, <1>4, <1>5

\* The packets of a chunk of the server's, and what is left behind them.
LEMMA BackendCut ==
  ASSUME IInv, NEW chunk \in Chunks(b2p), NEW rest, rest = Drop(b2p, Len(chunk)),
         NEW f, f = Push(bbuf \o chunk, MyHeader, MaxMessage)
  PROVE  /\ f.ok \in BOOLEAN /\ f.out \in Seq(Seq(SCell)) /\ FromAnswers(f.out)
         /\ rest \in Seq(SCell) /\ f.rest \in Seq(SCell)
         /\ Orderly(f.rest \o rest, SMsg, SMsg)
         /\ Said(f.rest \o rest) \subseteq Said(Answers)
         /\ b2p # <<>>
  <1>s. PICK s : s = Answers
    OBVIOUS
  <1>b. PICK bytes : bytes = bbuf \o chunk
    OBVIOUS
  <1>1. bbuf \in Seq(SCell) /\ b2p \in Seq(SCell) /\ Orderly(s, SMsg, SMsg) /\ s = bbuf \o b2p
    BY <1>s DEF IInv, AnswersInv, Answers
  <1>2. s \in Seq(SCell) /\ Len(s) \in Nat /\ Lined(s, SMsg) /\ Starts(s)
    BY <1>1 DEF Orderly, SCell
  <1>3. bytes \in Seq(SCell) /\ Len(bytes) > 0 /\ rest \in Seq(SCell) /\ bytes \o rest = s
    <2>1. ReadOff(bbuf, b2p, chunk, bytes, rest)
      BY <1>b DEF ReadOff, Chunks
    <2>2. bbuf \in Seq(SCell) /\ b2p \in Seq(SCell)
      BY <1>1
    <2>3. bytes \in Seq(SCell) /\ Len(bytes) > 0 /\ rest \in Seq(SCell) /\ bytes \o rest = bbuf \o b2p
      <3>1. SplitsInto(SCell, bbuf, b2p, chunk, bytes, rest)
        BY ONLY <2>1, <2>2, ReadSplitsInto
      <3> QED BY ONLY <3>1 DEF SplitsInto
    <2> QED BY <1>1, <2>3
  <1>4. b2p # <<>>
    <2>1. PICK n \in 1..Len(b2p) : chunk = SubSeq(b2p, 1, n)
      BY DEF Chunks
    <2> QED BY <1>1, <2>1
  <1>5. /\ Len(bytes) \in Nat /\ Len(bytes) <= Len(s) /\ \A i \in 1..Len(bytes) : s[i] = bytes[i]
    <2>1. /\ Len(bytes) \in Nat /\ Len(rest) \in Nat /\ Len(bytes \o rest) = Len(bytes) + Len(rest)
          /\ \A i \in 1..Len(bytes) : (bytes \o rest)[i] = bytes[i]
      BY <1>3, ConcatFacts
    <2> QED BY <1>3, <2>1
  <1>6. Stream(bytes, MyHeader, MaxMessage, SMsg, SMsg)
    <2>1. Lined(bytes, SMsg) /\ Starts(bytes)
      BY <1>2, <1>3, PrefixLined DEF SCell
    <2> QED BY <1>3, <2>1, MsgFacts, MyWireAssumption, WireAssumption DEF Stream, SCell
  <1>7. PICK k \in 0..Len(bytes) : Cut(bytes, k, f, MyHeader, MaxMessage, SMsg, SMsg)
    BY <1>b, <1>6, PushCuts
  <1>o. PICK out : out = f.out
    OBVIOUS
  <1>t. PICK t : t = Drop(s, k)
    OBVIOUS
  <1>8. /\ f.ok \in BOOLEAN
        /\ out \in Seq(Seq(SCell)) /\ f.rest \in Seq(SCell) /\ f.rest = Drop(bytes, k)
        /\ EndsAt(bytes, k, SMsg) /\ Framed(bytes, k, out, MyHeader, MaxMessage, SMsg)
    BY <1>o, <1>7 DEF Cut, SCell
  <1>9. FromAnswers(out)
    <2> SUFFICES ASSUME NEW j \in 1..Len(out)
                 PROVE  \E m \in Said(Answers) : Len(out[j]) > 0 /\ \A i \in 1..Len(out[j]) : out[j][i].msg = m
      BY DEF FromAnswers
    <2>1. PICK i \in 1..k : out[j] = Whole(bytes[i].msg) /\ bytes[i].msg.size >= MyHeader
      BY <1>8 DEF Framed
    <2>m. PICK m : m = bytes[i].msg
      OBVIOUS
    <2>w. PICK w : w = out[j]
      OBVIOUS
    <2>2. i \in 1..Len(bytes) /\ i \in 1..Len(s) /\ s[i] = bytes[i]
      BY <1>2, <1>5
    <2>3. m \in Said(Answers)
      BY <1>s, <2>m, <2>2 DEF Said
    <2>4. m \in SMsg /\ m.size > 0 /\ w = Whole(m)
      <3>1. m \in SMsg /\ m.size \in Nat
        BY <1>3, <2>m, <2>2, MsgFacts, CellFacts DEF SCell
      <3> QED BY <2>m, <2>w, <2>1, <3>1, MyWireAssumption
    <2>5. Len(w) > 0 /\ \A x \in 1..Len(w) : w[x] = [msg |-> m, at |-> x]
      BY <2>4, MsgFacts, WholeFacts
    <2>6. ASSUME NEW x \in 1..Len(w) PROVE w[x].msg = m
      <3>1. w[x] = [msg |-> m, at |-> x]
        BY <2>5
      <3> QED BY <3>1
    <2> QED BY <2>w, <2>3, <2>5, <2>6
  <1>10. /\ Orderly(t, SMsg, SMsg)
         /\ \A j \in 1..Len(t) : j + k \in 1..Len(s) /\ t[j] = s[j + k]
    <2>1. k \in 0..Len(s) /\ (k > 0 => s[k] = bytes[k])
      BY <1>2, <1>5
    <2>2. EndsAt(s, k, SMsg)
      BY <1>8, <2>1 DEF EndsAt
    <2>3. k \in 0..Len(s) /\ Orderly(s, SMsg, SMsg)
      BY <1>1, <2>1
    <2>4. /\ Orderly(Drop(s, k), SMsg, SMsg) /\ Len(Drop(s, k)) = Len(s) - k
          /\ \A j \in 1..Len(Drop(s, k)) : /\ j + k \in 1..Len(s) /\ Drop(s, k)[j] = s[j + k]
                                           /\ \A i \in 1..k : s[i].msg.id < Drop(s, k)[j].msg.id
      BY <2>2, <2>3, CutStream, Zenon
    <2> QED BY <1>t, <2>4, Zenon
  <1>11. f.rest \o rest = t
    <2>1. Drop(bytes, k) \o rest = Drop(bytes \o rest, k)
      BY <1>3, DropConcat
    <2> QED BY <1>t, <1>3, <1>8, <2>1
  <1>12. Said(t) \subseteq Said(s)
    BY <1>10 DEF Said
  <1> QED BY <1>s, <1>o, <1>3, <1>4, <1>8, <1>9, <1>10, <1>11, <1>12

\* The server's answers are relayed, and the end of the authentication is
\* noticed.
LEMMA BackendReadsKeeps ==
  ASSUME IInv, BackendReads
  PROVE  IInv'
  <1>1. PICK chunk \in Chunks(b2p) :
          LET f == Push(bbuf \o chunk, MyHeader, MaxMessage)
              s == Routed([ok |-> f.ok, greeted |-> greeted, auth |-> auth,
                           phase |-> phase, out |-> <<>>], f.out)
          IN  /\ b2p' = Drop(b2p, Len(chunk))
              /\ bbuf' = f.rest
              /\ greeted' = s.greeted /\ auth' = s.auth /\ phase' = s.phase
              /\ WriteClient(s.out)
    BY Zenon DEF BackendReads, Routed
  <1>f. PICK f : f = Push(bbuf \o chunk, MyHeader, MaxMessage)
    OBVIOUS
  <1>b. PICK base : base = [ok |-> f.ok, greeted |-> greeted, auth |-> auth,
                            phase |-> phase, out |-> <<>>]
    OBVIOUS
  <1>s. PICK s : s = Routed(base, f.out)
    OBVIOUS
  <1>r. PICK rest : rest = Drop(b2p, Len(chunk))
    OBVIOUS
  <1>2. /\ b2p' = rest /\ bbuf' = f.rest /\ greeted' = s.greeted /\ auth' = s.auth /\ phase' = s.phase
        /\ WriteClient(s.out)
    BY <1>1, <1>f, <1>b, <1>s, <1>r, Zenon
  <1>3. UNCHANGED <<sent, c2p, served, serverGone, toServer, clientSock, serverSock, buf, queue,
                    handler, clientTask, parts, inspected, granted>>
    BY DEF BackendReads, client, sockets, frames
  <1>4. /\ f.ok \in BOOLEAN /\ f.out \in Seq(Seq(SCell)) /\ FromAnswers(f.out)
        /\ rest \in Seq(SCell) /\ f.rest \in Seq(SCell)
        /\ Orderly(f.rest \o rest, SMsg, SMsg)
        /\ Said(f.rest \o rest) \subseteq Said(Answers)
        /\ b2p # <<>>
    BY <1>f, <1>r, BackendCut
  <1>5. Sound(base)
    <2>1. /\ base.ok = f.ok /\ base.greeted = greeted /\ base.auth = auth /\ base.phase = phase
          /\ base.out = <<>>
      BY <1>b
    <2>2. base \in RouteStates
      BY <1>b, <1>4 DEF IInv, RelayTyped, RouteStates, Auths, Phases
    <2> QED BY <2>1, <2>2 DEF IInv, PhaseInv, Sound
  <1>6. Sound(s)
    BY <1>s, <1>4, <1>5, RoutedSound
  <1>o. PICK o : o = s.out
    OBVIOUS
  <1>7. s \in RouteStates /\ o \in Seq(SCell) /\ WriteClient(o)
        /\ s.greeted \in BOOLEAN /\ s.auth \in Auths /\ s.phase \in Phases
    BY <1>o, <1>2, <1>6 DEF Sound, RouteStates
  <1>8. /\ toClient' \in Seq(SCell) /\ Extends(toClient, toClient')
        /\ Said(toClient') \subseteq Said(toClient) \cup Said(o)
        /\ clientSock = "open" => \A i \in 1..Len(o) : o[i].msg \in Said(toClient')
    BY <1>7, WriteClientFacts DEF IInv
  <1>9. Said(o) \subseteq Said(Answers)
    BY <1>o, <1>6 DEF Sound, Said
  <1>a. PICK a : a = Answers'
    OBVIOUS
  <1>10. a = f.rest \o rest
    BY <1>a, <1>2 DEF Answers
  <1>11. RelayTyped' /\ SentInv' /\ ServerInv' /\ \A n : ServedId(n) <=> ServedId(n)'
    <2>1. RelayTyped'
      BY <1>2, <1>3, <1>7 DEF IInv, RelayTyped, Auths, Phases
    <2> QED BY <1>3, <2>1 DEF IInv, SentInv, ServerInv, From, ServedId
  <1>12. AnswersInv'
    <2>1. ASSUME ~serverGone, NEW i \in 1..Len(a) PROVE a[i].msg.id = 0 \/ ServedId(a[i].msg.id)
      <3>1. a[i].msg \in Said(Answers)
        BY <1>4, <1>10 DEF Said
      <3>2. PICK j \in 1..Len(Answers) : a[i].msg = Answers[j].msg
        BY <3>1 DEF Said
      <3> QED BY <2>1, <3>2 DEF IInv, AnswersInv
    <2>2. ~serverGone => \A i \in 1..Len(a) : a[i].msg.id = 0 \/ ServedId(a[i].msg.id)'
      BY <1>11, <2>1
    <2>3. (~serverGone => \A i \in 1..Len(Answers) : Answers[i].msg.id = 0 \/ ServedId(Answers[i].msg.id))'
      BY <1>a, <1>3, <2>2 DEF ServedId
    <2>4. serverSock # "none"
      BY <1>4 DEF IInv, AnswersInv
    <2>5. Orderly(Answers, SMsg, SMsg)'
      BY <1>a, <1>4, <1>10
    <2> QED BY <1>2, <1>3, <1>4, <1>8, <2>3, <2>4, <2>5 DEF IInv, AnswersInv
  <1>13. Dialogue'
    <2>1. \A p \in Replies' : p \in Replies
      <3>1. Said(a) \subseteq Said(Answers)
        BY <1>4, <1>10
      <3> QED BY <1>a, <1>8, <1>9, <3>1 DEF Replies
    <2> QED BY <1>3, <1>8, <1>11, <2>1, DialogueKept DEF IInv
  <1>c. PICK c : c = toClient'
    OBVIOUS
  <1>14. phase' = "authentication" =>
           /\ \A i \in 1..Len(c) : c[i].msg.kind # "ok"
           /\ \A i \in 1..Len(sent) : sent[i].kind \in Commands => sent[i].early
    <2> SUFFICES ASSUME phase' = "authentication"
                 PROVE  /\ \A i \in 1..Len(c) : c[i].msg.kind # "ok"
                        /\ \A i \in 1..Len(sent) : sent[i].kind \in Commands => sent[i].early
      OBVIOUS
    <2>1. phase = "authentication" /\ \A i \in 1..Len(o) : o[i].msg.kind # "ok"
      BY <1>o, <1>2, <1>6 DEF Sound
    <2>2. \A p \in Said(toClient) \cup Said(o) : p.kind # "ok"
      BY <2>1 DEF Said, IInv, PhaseInv
    <2>3. \A i \in 1..Len(c) : c[i].msg \in Said(toClient) \cup Said(o)
      BY <1>c, <1>8 DEF Said
    <2> QED BY <2>1, <2>2, <2>3 DEF IInv, PhaseInv
  <1>15. phase' = "command" /\ clientSock = "open" => \E i \in 1..Len(c) : c[i].msg.kind = "ok"
    <2> SUFFICES ASSUME phase' = "command", clientSock = "open" PROVE \E i \in 1..Len(c) : c[i].msg.kind = "ok"
      OBVIOUS
    <2>1. CASE phase = "command"
      <3>1. PICK i \in 1..Len(toClient) : toClient[i].msg.kind = "ok"
        BY <2>1 DEF IInv, PhaseInv
      <3>2. Len(toClient) \in Nat /\ Len(c) \in Nat
        BY <1>c, <1>8 DEF IInv, AnswersInv
      <3>3. i \in 1..Len(c) /\ c[i] = toClient[i]
        BY <1>c, <1>8, <3>2 DEF Extends
      <3> QED BY <3>1, <3>3
    <2>2. CASE phase # "command"
      <3>1. PICK i \in 1..Len(o) : o[i].msg.kind = "ok"
        BY <1>o, <1>2, <1>6, <2>2 DEF Sound
      <3>2. o[i].msg \in Said(c)
        BY <1>c, <1>8
      <3>3. PICK j \in 1..Len(c) : o[i].msg = c[j].msg
        BY <3>2 DEF Said
      <3> QED BY <3>1, <3>3
    <2> QED BY <2>1, <2>2
  <1>16. PhaseInv'
    <2>1. auth' = "waiting" => toServer' = <<>> /\ phase' = "authentication"
      BY <1>2, <1>3, <1>6 DEF Sound, IInv, PhaseInv
    <2>2. auth' \in {"authenticating", "authenticated"} => toServer' # <<>>
      BY <1>2, <1>3, <1>6 DEF Sound, IInv, PhaseInv
    <2>3. /\ ~greeted' => auth' = "waiting"
          /\ phase' = "command" => auth' = "authenticated"
          /\ phase' = "authentication" => auth' \in {"waiting", "authenticating"}
      BY <1>2, <1>6 DEF Sound
    <2> QED BY <1>c, <1>3, <1>14, <1>15, <2>1, <2>2, <2>3 DEF PhaseInv
  <1>17. CommandsAreInspected' /\ (ShortAuthentication => PackInv')
    BY <1>3 DEF IInv, CommandsAreInspected, PackInv, Joined
  <1>18. ASSUME Active' PROVE \E d \in 1..Len(sent') + 1 : Flow(d)'
    <2>1. PICK d \in 1..Len(sent) + 1 : Flow(d)
      BY <1>3, <1>18 DEF IInv, Active
    <2>2. CASE phase' = phase
      BY <1>3, <2>1, <2>2, FlowSame
    <2>3. CASE phase' # phase
      <3>1. phase = "authentication"
        BY <1>2, <1>6, <2>3 DEF Sound
      <3>2. parts = <<>> /\ clientTask # "decide"
        BY <2>1, <3>1 DEF Flow, HeldFlow
      <3>3. phase' = "command" => \A i \in d..Len(sent) : sent[i].kind \in Commands
        <4> SUFFICES ASSUME phase' = "command", NEW i \in d..Len(sent), sent[i].kind \notin Commands PROVE FALSE
          OBVIOUS
        <4>1. PICK j \in 1..Len(o) : o[j].msg.kind = "ok"
          BY <1>o, <1>2, <1>6, <3>1 DEF Sound
        <4>p. PICK p : p = o[j].msg
          OBVIOUS
        <4>2. p \in Replies /\ p.kind = "ok"
          BY <1>9, <4>1, <4>p DEF Said, Replies
        <4>3. i \in 1..Len(sent) /\ Len(sent) \in Nat /\ d \in Nat
          BY DEF IInv, SentInv
        <4>4. i <= p.id /\ ServedId(p.id)
          BY <4>2, <4>3 DEF IInv, Dialogue
        <4>5. PICK k \in 1..served : toServer[k].msg.id = p.id
          BY <4>4 DEF ServedId
        <4>6. k \in 1..Len(toServer)
          BY DEF IInv, ServerInv, Orderly
        <4>7. Before(toServer, d - Len(parts)) /\ Len(parts) = 0
          BY <2>1, <3>2, HeldFacts
        <4>8. p.id < d - Len(parts) /\ p.id \in 1..Len(sent)
          BY <4>5, <4>6, <4>7 DEF Before, IInv, ServerInv, From
        <4> QED BY <4>3, <4>4, <4>7, <4>8
      <3>4. HeldFlow(d)'
        BY <1>3, <2>1, <3>2, <3>3 DEF Flow, HeldFlow
      <3>5. QueueFlow(d)' /\ (ShortAuthentication => Packed(d)')
        BY <1>3, <2>1 DEF Flow, QueueFlow, Incoming, From, Packed
      <3> QED BY <1>3, <3>4, <3>5 DEF Flow, ShortAuthentication
    <2> QED BY <1>3, <2>2, <2>3
  <1> QED BY <1>11, <1>12, <1>13, <1>16, <1>17, <1>18 DEF IInv, ShortAuthentication

-----------------------------------------------------------------------------
(***************************************************************************)
(* All steps, and the theorems.                                            *)
(***************************************************************************)
\* The handler's steps and the ends of tasks leave the bytes alone.
LEMMA LifeCycleSteps ==
  ASSUME IInv,
         \/ ConnectFails \/ PumpCompleted \/ Settled \/ Gathered \/ SocketClosed
         \/ ReadEnds \/ HandleUnexpected \/ AssemblerRaises \/ ClientPumpFails
         \/ BackendEnds \/ TimesOut \/ MyClientLeaves \/ Shutdown \/ UNCHANGED vars
  PROVE  LifeCycle
  <1>1. CASE ConnectFails \/ Settled \/ Gathered \/ SocketClosed
    BY <1>1 DEF ConnectFails, Settled, Gathered, SocketClosed, CloseSockets, LifeCycle,
                client, server, sockets, frames, relay
  <1>2. CASE PumpCompleted
    <2>1. clientTask' \in {clientTask, "cancelled"}
      BY <1>2 DEF PumpCompleted, CancelPumps, Cancel
    <2> QED BY <1>2, <2>1 DEF PumpCompleted, LifeCycle, client, server, sockets, frames, relay
  <1>3. CASE ReadEnds \/ ClientPumpFails
    <2>1. handler # "connecting"
      BY <1>3 DEF ReadEnds, ClientPumpFails, IInv, AnswersInv
    <2> QED BY <1>3, <2>1 DEF ReadEnds, ClientPumpFails, ClientPumpFrame, LifeCycle, server, sockets,
                              frames
  <1>4. CASE HandleUnexpected \/ AssemblerRaises
    <2>1. handler # "connecting"
      BY <1>4 DEF HandleUnexpected, AssemblerRaises, InCommand, IInv, AnswersInv
    <2> QED BY <1>4, <2>1 DEF HandleUnexpected, AssemblerRaises, Raise, ClientPumpFrame, LifeCycle,
                              server, sockets
  <1>5. CASE BackendEnds \/ MyClientLeaves \/ UNCHANGED vars
    BY <1>5 DEF BackendEnds, MyClientLeaves, ClientLeaves, vars, wire, LifeCycle,
                client, server, sockets, frames, relay
  <1>6. CASE TimesOut
    <2>1. clientTask' = clientTask \/ (clientTask = "read" /\ clientTask' = "ended")
      BY <1>6 DEF TimesOut
    <2>2. clientTask = "read" => handler # "connecting"
      BY DEF IInv, AnswersInv
    <2> QED BY <1>6, <2>1, <2>2 DEF TimesOut, LifeCycle, client, server, sockets, frames, relay
  <1>7. CASE Shutdown
    <2>1. /\ clientTask' \in {clientTask, "cancelled"} /\ handler' # "connecting"
          /\ clientSock' \in {clientSock, "closed"} /\ serverSock' \in {serverSock, "closed"}
      BY <1>7 DEF Shutdown, CancelPumps, Cancel, CloseSockets, sockets
    <2> QED BY <1>7, <2>1 DEF Shutdown, LifeCycle, client, server, frames, relay
  <1> QED BY <1>1, <1>2, <1>3, <1>4, <1>5, <1>6, <1>7

\* The invariant holds at the beginning.
LEMMA InitIInv ==
  ASSUME Init
  PROVE  IInv
  <1>1. /\ sent = <<>> /\ c2p = <<>> /\ toServer = <<>> /\ served = 0 /\ b2p = <<>> /\ toClient = <<>>
        /\ serverGone = FALSE /\ clientSock = "open" /\ serverSock = "none" /\ handler = "connecting"
        /\ buf = <<>> /\ bbuf = <<>> /\ queue = <<>> /\ clientTask = "none"
        /\ greeted = FALSE /\ auth = "waiting" /\ phase = "authentication"
        /\ parts = <<>> /\ inspected = {} /\ granted = FALSE
    BY DEF Init, InitWire, InitRelay
  <1>2. Len(sent) = 0 /\ Len(toServer) = 0 /\ Len(toClient) = 0 /\ Len(queue) = 0 /\ Len(parts) = 0
    BY <1>1
  <1>3. Orderly(<<>>, Msg, Msg) /\ Orderly(<<>>, SMsg, SMsg)
    <2>1. <<>> \in Seq(Cells(Msg)) /\ <<>> \in Seq(Cells(SMsg)) /\ Len(<<>>) = 0
      OBVIOUS
    <2> QED BY <2>1, MsgFacts DEF Orderly, Lined, Starts, Closed
  <1>4. buf \o c2p = <<>> /\ Answers = <<>> /\ Len(Answers) = 0
    BY <1>1 DEF Answers
  <1>5. RelayTyped /\ SentInv
    <2>1. RelayTyped
      BY <1>1 DEF RelayTyped
    <2>2. <<>> \in Seq(Msg) /\ 0 <= MaxSent
      BY WireAssumption
    <2> QED BY <1>1, <1>2, <2>1, <2>2 DEF SentInv
  <1>6. ServerInv
    BY <1>1, <1>2, <1>3 DEF ServerInv, From, EndsAt
  <1>7. AnswersInv
    BY <1>1, <1>3, <1>4 DEF AnswersInv
  <1>8. Replies = {}
    BY <1>2, <1>4 DEF Replies, Said
  <1>9. Dialogue /\ PhaseInv /\ CommandsAreInspected
    <2>1. Dialogue
      <3>1. granted \in BOOLEAN
        BY <1>1
      <3>2. 1..Len(sent) = {}
        BY <1>2
      <3> QED BY <1>8, <3>1, <3>2, Zenon DEF Dialogue
    <2>2. PhaseInv
      BY <1>1, <1>2 DEF PhaseInv
    <2>3. CommandsAreInspected
      BY <1>1, <1>2 DEF CommandsAreInspected
    <2> QED BY <2>1, <2>2, <2>3
  <1>10. PackInv
    BY <1>1, <1>2 DEF PackInv, Joined
  <1>11. QueueFlow(1)
    <2>1. Incoming(<<>>, 1 + Len(queue))
      BY <1>1, <1>2, <1>3 DEF Incoming, From, Gapless
    <2> QED BY <1>1, <1>2, <1>4, <2>1 DEF QueueFlow
  <1>12. HeldFlow(1) /\ Packed(1)
    BY <1>1, <1>2 DEF HeldFlow, Packed
  <1>13. \E d \in 1..Len(sent) + 1 : Flow(d)
    <2>1. 1 \in 1..Len(sent) + 1
      BY <1>2
    <2> QED BY <1>11, <1>12, <2>1 DEF Flow
  <1> QED BY <1>5, <1>6, <1>7, <1>9, <1>10, <1>13 DEF IInv

\* Every step keeps it.
LEMMA NextIInv ==
  ASSUME IInv, [Next]_vars
  PROVE  IInv'
  <1>1. CASE \/ ConnectFails \/ PumpCompleted \/ Settled \/ Gathered \/ SocketClosed
             \/ ReadEnds \/ HandleUnexpected \/ AssemblerRaises \/ ClientPumpFails
             \/ BackendEnds \/ TimesOut \/ MyClientLeaves \/ Shutdown \/ UNCHANGED vars
    BY <1>1, LifeCycleSteps, LifeCycleKeeps
  <1>2. CASE Connected
    BY <1>2, ConnectedKeeps
  <1>3. CASE ReadChunk
    BY <1>3, ReadChunkKeeps
  <1>4. CASE HandleResponse
    BY <1>4, HandleResponseKeeps
  <1>5. CASE HandleAuthentication
    BY <1>5, HandleAuthenticationKeeps
  <1>6. CASE AssemblerHolds
    BY <1>6, AssemblerHoldsKeeps
  <1>7. CASE Decide
    BY <1>7, DecideKeeps
  <1>8. CASE Dispatch
    BY <1>8, DispatchKeeps
  <1>9. CASE BackendReads
    BY <1>9, BackendReadsKeeps
  <1>10. CASE ServerAnswers
    BY <1>10, ServerAnswersKeeps
  <1>11. CASE MyServerLeaves
    BY <1>11, MyServerLeavesKeeps
  <1>12. CASE \E k \in MyKinds, stray \in BOOLEAN : ClientSends(k, stray)
    BY <1>12, ClientSendsKeeps
  <1> QED BY <1>1, <1>2, <1>3, <1>4, <1>5, <1>6, <1>7, <1>8, <1>9, <1>10, <1>11, <1>12
          DEF Next, Handler, ClientPump, BackendPump, Environment

\* What reaches the server, when no packet of the authentication is continued.
LEMMA IntactFromInvariant ==
  ASSUME IInv, ShortAuthentication
  PROVE  ServerStreamIntact
  <1>t. PICK t : t = toServer
    OBVIOUS
  <1>1. /\ Orderly(t, Msg, Msg) /\ From(t) /\ Joined(t) /\ t \in Seq(Cell) /\ Len(t) \in Nat
        /\ t # <<>> => ~JoinsNext(t[Len(t)].msg)
    BY <1>t DEF IInv, ServerInv, PackInv, Orderly, Cell
  <1>2. \A i \in 1..Len(t) : /\ t[i] \in Cell /\ t[i].msg \in Msg /\ t[i].at \in Nat \ {0}
                             /\ t[i].msg.id \in Nat
    BY <1>1, MsgFacts, CellFacts DEF Cell
  <1>3. ASSUME NEW i \in 2..Len(t)
        PROVE  /\ i \in 1..Len(t) /\ i - 1 \in 1..Len(t)
               /\ \/ t[i].msg = t[i - 1].msg /\ t[i].at = t[i - 1].at + 1
                  \/ /\ t[i].at = 1 /\ t[i - 1].msg.id < t[i].msg.id
                     /\ t[i - 1].at = t[i - 1].msg.size
    <2>1. i - 1 \in 1..Len(t) - 1 /\ (i - 1) + 1 = i /\ i \in 1..Len(t) /\ i - 1 \in 1..Len(t)
      BY <1>1
    <2>2. \/ t[(i - 1) + 1].msg = t[i - 1].msg /\ t[(i - 1) + 1].at = t[i - 1].at + 1
          \/ /\ t[(i - 1) + 1].at = 1 /\ t[i - 1].msg.id < t[(i - 1) + 1].msg.id
             /\ t[i - 1].msg \in Msg => t[i - 1].at = t[i - 1].msg.size
      BY <1>1, <2>1 DEF Orderly, Lined
    <2> QED BY <1>2, <2>1, <2>2
  <1>4. ASSUME NEW i \in 1..Len(t) PROVE FitsAt(t, i)
    <2>1. CASE i = 1
      <3>1. t[1].at = 1
        BY <1>1, <2>1 DEF Orderly, Starts
      <3> QED BY <2>1, <3>1 DEF FitsAt
    <2>2. CASE i # 1
      <3>1. i \in 2..Len(t) /\ i > 1
        BY <1>1, <2>2
      <3>2. CASE t[i].at = 1 /\ t[i - 1].at = t[i - 1].msg.size
        BY <3>1, <3>2 DEF FitsAt
      <3>3. CASE t[i].msg = t[i - 1].msg /\ t[i].at = t[i - 1].at + 1
        <4>1. i - 1 \in 1..Len(t)
          BY <1>3, <3>1
        <4>2. t[i].at > 1 /\ t[i].at - 1 = t[i - 1].at
          BY <1>2, <3>3, <4>1
        <4>3. t[i - 1] \in [msg : Msg, at : Nat \ {0}] /\ t[i] \in [msg : Msg, at : Nat \ {0}]
          BY <1>2, <4>1 DEF Cell, Cells
        <4>4. t[i - 1] = [t[i] EXCEPT !.at = @ - 1]
          BY ONLY <3>3, <4>2, <4>3
        <4> QED BY <3>1, <4>2, <4>4 DEF FitsAt
      <3> QED BY <1>3, <3>1, <3>2, <3>3
    <2> QED BY <2>1, <2>2
  <1>5. ASSUME NEW i \in 1..Len(t), i > 1, t[i].at = 1
        PROVE  IF JoinsNext(t[i - 1].msg) \/ JoinsNext(sent[t[i].msg.id - 1])
                 THEN t[i].msg.id = t[i - 1].msg.id + 1 /\ t[i].msg.seq = (t[i - 1].msg.seq + 1) % SequenceIds
                 ELSE t[i].msg.id > t[i - 1].msg.id
    <2>1. i \in 2..Len(t)
      BY <1>1, <1>5
    <2>2. i - 1 \in 1..Len(t) /\ t[i - 1].at \in Nat \ {0} /\ t[i - 1].msg.id \in Nat /\ t[i].msg.id \in Nat
      BY <1>2, <1>3, <2>1
    <2>3. t[i - 1].msg.id < t[i].msg.id
      <3>1. t[i].at # t[i - 1].at + 1
        BY <1>5, <2>2
      <3> QED BY <1>3, <2>1, <3>1
    <2>4. JoinsNext(t[i - 1].msg) \/ JoinsNext(sent[t[i].msg.id - 1]) => Follows(t[i - 1].msg, t[i].msg)
      BY <1>1, <1>5, <2>1 DEF Joined
    <2> QED BY <2>2, <2>3, <2>4 DEF Follows
  <1>6. t # <<>> => Last(t).at = Last(t).msg.size /\ ~JoinsNext(Last(t).msg)
    <2> SUFFICES ASSUME t # <<>> PROVE Last(t).at = Last(t).msg.size /\ ~JoinsNext(Last(t).msg)
      OBVIOUS
    <2>1. Len(t) > 0 /\ Len(t) \in 1..Len(t)
      BY <1>1
    <2>2. t[Len(t)].at = t[Len(t)].msg.size
      BY <1>1, <1>2, <2>1 DEF Orderly, Closed
    <2> QED BY <1>1, <2>2 DEF Last
  <1> QED BY <1>t, <1>4, <1>5, <1>6 DEF ServerStreamIntact

\* For every packet size and limit, and however the bytes of both sides are
\* cut: no packet of a command reaches the server unless it was dispatched,
\* and no reply of the authentication is taken for a command, although one
\* pump sees the OK in between and the other relies on it.
THEOREM NoCommandPassesUninspected == FairSpec => []CommandsAreInspected
  <1>1. Init => IInv
    BY InitIInv
  <1>2. IInv /\ [Next]_vars => IInv'
    BY NextIInv
  <1>3. IInv => CommandsAreInspected
    BY DEF IInv
  <1> QED BY <1>1, <1>2, <1>3, PTL DEF FairSpec

\* When no packet of the authentication fills the 16 MB of a packet that is
\* continued: the server gets whole commands, each packet once, in order and
\* with consecutive sequence ids inside a command, whatever the assembler
\* rejected and the proxy refused in between.
THEOREM ServerGetsWholeCommands ==
  ASSUME ShortAuthentication
  PROVE  FairSpec => []ServerStreamIntact
  <1>1. Init => IInv
    BY InitIInv
  <1>2. IInv /\ [Next]_vars => IInv'
    BY NextIInv
  <1>3. IInv => ServerStreamIntact
    BY IntactFromInvariant
  <1> QED BY <1>1, <1>2, <1>3, PTL DEF FairSpec

=============================================================================
