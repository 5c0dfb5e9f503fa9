--------------------------- MODULE PgSessionProofs ---------------------------
(***************************************************************************)
(* Proofs about PgSession, for every set of names and SQL texts, every     *)
(* classification, policy, fail-safe mode, client behaviour and bound.     *)
(*                                                                         *)
(* That nothing reaches the server before it was judged is not inductive:  *)
(* the judgement of a message is written under the message's number, so it *)
(* could overwrite that of an earlier one.  The invariant adds that the    *)
(* numbers in the queues are disjoint: what waits at the client's socket   *)
(* is younger than what the task works on, and that is younger than what   *)
(* was forwarded.                                                          *)
(*                                                                         *)
(* The second part follows the traffic (one ReadyForQuery per request, the *)
(* recovery until Sync, which answers can overtake others), the third is   *)
(* about a client that waits: truth of the status, and that what runs is   *)
(* what was judged.                                                        *)
(* The fourth is about the limits of the two registries.                   *)
(***************************************************************************)
EXTENDS PgSession, Facts

\* The client's socket holds the last messages sent, in order.
QueueNumbered ==
  /\ Len(c2p) <= Len(sent)
  /\ \A i \in 1..Len(c2p) : c2p[i].id = Taken + i

\* The task works on the message it took last.
CurrentIsLast == pc # "read" => cur[1].id = Taken

\* The numbers of the messages that have left the task go up to Left.
ForwardedIsOlder ==
  /\ \A i \in 1..Len(p2b) : p2b[i].id <= Left
  /\ \A e \in executed : e.id <= Left

\* What the task knows of the message it is about to finish.
CurrentIsJudged ==
  /\ pc \in {"estimate", "confirm"} => judged[cur[1].id] \in SQL
  /\ pc = "audit" =>
       /\ verdict[cur[1].id] \in (LetThrough \cup Refused) \ {"SAFE"}
       /\ verdict[cur[1].id] = "ALLOWED_PROTOCOL_GAP" => Mode = "permissive"

\* Of what has not left the task no decision is on record.
Undecided == \A id \in Ids : id > Left => audited[id] = "NONE" /\ verdict[id] # "SAFE"

IInv == /\ TypeOK /\ QueueNumbered /\ CurrentIsLast /\ ForwardedIsOlder
        /\ CurrentIsJudged /\ OnlyClearedReachServer /\ Undecided

-----------------------------------------------------------------------------
(***************************************************************************)
(* Policy.                                                                 *)
(***************************************************************************)
\* Every request gets one of the three actions.
LEMMA PolicyType ==
  ASSUME NEW c \in Classification, NEW rows \in Int, NEW err \in BOOLEAN,
         NEW cfg \in PolicyConfig
  PROVE  EvaluatePolicy(c, rows, err, cfg).action \in PolicyAction
  BY DEF EvaluatePolicy, Classification, PolicyConfig, PolicyAction, Decide,
         EvaluateRows, EstimateMissing

-----------------------------------------------------------------------------
\* A fresh session satisfies the invariant.
LEMMA InitInv == Init => IInv
  <1> SUFFICES ASSUME Init PROVE IInv
    OBVIOUS
  <1>1. TypeOK
    <2>1. QueuesTyped
      BY BoundAssumption DEF Init, QueuesTyped
    <2>2. StateTyped
      BY DEF Init, StateTyped, Empty, TxStatus
    <2>3. TaskTyped
      BY DEF Init, TaskTyped, Verdicts
    <2>4. BackendTyped
      BY DEF Init, BackendTyped, Empty, TxStatus
    <2> QED BY <2>1, <2>2, <2>3, <2>4 DEF TypeOK
  <1>2. QueueNumbered /\ CurrentIsLast /\ ForwardedIsOlder /\ CurrentIsJudged
    BY DEF Init, QueueNumbered, CurrentIsLast, ForwardedIsOlder, CurrentIsJudged, Taken
  <1>3. OnlyClearedReachServer /\ Undecided
    BY DEF Init, OnlyClearedReachServer, Undecided
  <1> QED BY <1>1, <1>2, <1>3 DEF IInv

-----------------------------------------------------------------------------
(***************************************************************************)
(* Steps of the parts an action is made of.                                *)
(***************************************************************************)
\* Taking the next message from the client's socket.
LEMMA TakeStep ==
  ASSUME TypeOK, QueueNumbered, c2p # <<>>, Take, UNCHANGED sent
  PROVE  /\ Head(c2p) \in Msg
         /\ Head(c2p).id \in Ids
         /\ Head(c2p).id = Taken + 1
         /\ Taken \in Int
         /\ Taken' = Taken + 1
         /\ c2p' \in Seq(Msg)
         /\ QueueNumbered'
  <1>1. c2p \in Seq(Msg) /\ sent \in Seq(Msg) /\ Len(sent) \in Nat /\ Len(c2p) \in Nat
    BY DEF TypeOK, QueuesTyped
  <1>2. /\ c2p' \in Seq(Msg) /\ Len(c2p) # 0 /\ Len(c2p') = Len(c2p) - 1
        /\ \A i \in 1..Len(c2p) - 1 : c2p'[i] = c2p[i + 1]
        /\ Head(c2p) \in Msg /\ Head(c2p) = c2p[1]
    BY <1>1, TailFacts DEF Take
  <1>3. Head(c2p).id \in Ids
    BY <1>2 DEF Msg
  <1>4. Taken \in Int /\ Taken' = Taken + 1
    BY <1>1, <1>2 DEF Taken
  <1>5. Head(c2p).id = Taken + 1
    BY <1>1, <1>2 DEF QueueNumbered
  <1>6. QueueNumbered'
    <2>1. Len(c2p') <= Len(sent')
      BY <1>1, <1>2 DEF QueueNumbered
    <2>2. ASSUME NEW i \in 1..Len(c2p') PROVE c2p'[i].id = Taken' + i
      <3>1. i \in 1..Len(c2p) - 1 /\ i + 1 \in 1..Len(c2p)
        BY <1>1, <1>2
      <3>2. c2p'[i].id = Taken + (i + 1)
        BY <1>2, <3>1 DEF QueueNumbered
      <3> QED BY <3>1, <3>2, <1>4
    <2> QED BY <2>1, <2>2 DEF QueueNumbered
  <1> QED BY <1>2, <1>3, <1>4, <1>5, <1>6

\* A clearance survives a step that does not touch the message's entries.
LEMMA ClearedKept ==
  ASSUME NEW id \in Cleared, verdict'[id] = verdict[id],
         judged'[id] = judged[id], audited'[id] = audited[id]
  PROVE  id \in Cleared'
  BY DEF Cleared

\* A step that judges only younger messages keeps the clearance of those
\* that have left the task, and decides none of those that stay.
OlderKept ==
  /\ Left \in Int /\ Left' \in Int /\ Left <= Left'
  /\ \A id \in Ids : id <= Left => /\ verdict'[id] = verdict[id]
                                   /\ judged'[id] = judged[id]
                                   /\ audited'[id] = audited[id]
  /\ \A id \in Ids : id > Left' => /\ audited'[id] = audited[id]
                                   /\ verdict'[id] \in {verdict[id]} \cup (Verdicts \ {"SAFE"})

\* No decision is recorded early.
LEMMA UndecidedKept ==
  ASSUME Undecided, OlderKept
  PROVE  Undecided'
  <1>1. ASSUME NEW id \in Ids, id > Left' PROVE audited'[id] = "NONE" /\ verdict'[id] # "SAFE"
    <2>1. id > Left
      BY <1>1, BoundAssumption DEF OlderKept, Ids
    <2> QED BY <1>1, <2>1 DEF Undecided, OlderKept
  <1> QED BY <1>1 DEF Undecided

\* What a step is for the gate.  The client sends a message; nothing leaves
\* the task; or one message does, forwarded or not; or the server takes one.
Stays == OlderKept /\ Left' = Left /\ UNCHANGED <<p2b, executed>>

Offers == Stays /\ \E m \in Msg : m.id = Len(sent) + 1 /\ sent' = Append(sent, m)

Holds == Stays /\ UNCHANGED sent

Leaves ==
  /\ OlderKept /\ Left + 1 \in Ids /\ Left' = Left + 1 /\ UNCHANGED <<sent, executed>>
  /\ \/ \E m \in Msg : m.id = Left + 1 /\ p2b' = Append(p2b, m) /\ DecisionOf(Left)' # "refuse"
     \/ UNCHANGED p2b /\ DecisionOf(Left)' # "pass"

\* The server runs the SQL of the message, or the function it names.
ServesHead ==
  \E q : /\ Runs(Head(p2b)) \/ (Head(p2b).type = "Function" /\ q = None)
         /\ executed' = executed \cup {[id |-> Head(p2b).id, sql |-> q]}

Arrives ==
  /\ p2b # <<>> /\ p2b' = Tail(p2b) /\ UNCHANGED <<sent, c2p, task>>
  /\ \/ UNCHANGED executed
     \/ ServesHead

GateStep == Offers \/ Holds \/ Leaves \/ Arrives

\* What has not left the task is open.
LEMMA UndecidedIsOpen ==
  ASSUME Undecided, NEW id \in Ids, id > Left
  PROVE  DecisionOf(id) = "open"
  <1>1. audited[id] = "NONE" /\ verdict[id] # "SAFE"
    BY DEF Undecided
  <1>2. id \notin Cleared /\ audited[id] \notin Refused
    BY <1>1 DEF Cleared, LetThrough, Refused
  <1> QED BY <1>2 DEF DecisionOf

\* Nothing is forwarded: what was forwarded stays older and cleared.
LEMMA HoldStep ==
  ASSUME TypeOK, ForwardedIsOlder, OnlyClearedReachServer, Undecided,
         UNCHANGED <<p2b, executed>>, OlderKept
  PROVE  ForwardedIsOlder' /\ OnlyClearedReachServer' /\ Undecided'
  <1>1. p2b \in Seq(Msg) /\ Len(p2b) \in Nat /\ executed \subseteq [id : Ids, sql : SQL \cup {None}]
    BY DEF TypeOK, QueuesTyped, BackendTyped
  <1>2. ASSUME NEW i \in 1..Len(p2b)
        PROVE  p2b[i].id <= Left' /\ (Runs(p2b[i]) => p2b[i].id \in Cleared')
    <2> p2b[i] \in Msg
      BY <1>1
    <2>1. p2b[i].id \in Ids /\ p2b[i].id \in Int /\ p2b[i].id <= Left
      BY BoundAssumption DEF ForwardedIsOlder, Msg, Ids
    <2>2. Runs(p2b[i]) => p2b[i].id \in Cleared
      BY DEF OnlyClearedReachServer
    <2> QED BY <2>1, <2>2, ClearedKept DEF OlderKept
  <1>3. ASSUME NEW e \in executed
        PROVE  e.id <= Left' /\ (e.sql # None => e.id \in Cleared')
    <2>1. e.id \in Ids /\ e.id \in Int /\ e.id <= Left /\ (e.sql # None => e.id \in Cleared)
      BY <1>1, BoundAssumption DEF ForwardedIsOlder, OnlyClearedReachServer, Ids
    <2> QED BY <2>1, ClearedKept DEF OlderKept
  <1> QED BY <1>2, <1>3, UndecidedKept DEF ForwardedIsOlder, OnlyClearedReachServer, Runs

\* A message is appended to the queue to the server.
LEMMA ForwardStep ==
  ASSUME TypeOK, ForwardedIsOlder, OnlyClearedReachServer, Undecided, OlderKept,
         NEW m \in Msg, p2b' = Append(p2b, m), UNCHANGED executed,
         m.id <= Left', Runs(m) => m.id \in Cleared'
  PROVE  p2b' \in Seq(Msg) /\ ForwardedIsOlder' /\ OnlyClearedReachServer' /\ Undecided'
  <1>1. p2b \in Seq(Msg) /\ Len(p2b) \in Nat /\ executed \subseteq [id : Ids, sql : SQL \cup {None}]
    BY DEF TypeOK, QueuesTyped, BackendTyped
  <1>2. /\ p2b' \in Seq(Msg) /\ Len(p2b') = Len(p2b) + 1
        /\ \A i \in 1..Len(p2b) : p2b'[i] = p2b[i]
        /\ p2b'[Len(p2b) + 1] = m
    BY <1>1, AppendFacts
  <1>3. ASSUME NEW i \in 1..Len(p2b')
        PROVE  p2b'[i].id <= Left' /\ (Runs(p2b'[i]) => p2b'[i].id \in Cleared')
    <2>1. CASE i = Len(p2b) + 1
      BY <1>2, <2>1
    <2>2. CASE i \in 1..Len(p2b)
      <3>1. p2b'[i] = p2b[i]
        BY <1>2, <2>2
      <3> p2b[i] \in Msg
        BY <1>1, <2>2
      <3>2. p2b[i].id \in Ids /\ p2b[i].id \in Int /\ p2b[i].id <= Left
        BY <2>2, BoundAssumption DEF ForwardedIsOlder, Msg, Ids
      <3>3. Runs(p2b[i]) => p2b[i].id \in Cleared
        BY <2>2 DEF OnlyClearedReachServer
      <3> QED BY <3>1, <3>2, <3>3, ClearedKept DEF OlderKept
    <2> QED BY <1>1, <1>2, <2>1, <2>2
  <1>4. ASSUME NEW e \in executed
        PROVE  e.id <= Left' /\ (e.sql # None => e.id \in Cleared')
    <2>1. e.id \in Ids /\ e.id \in Int /\ e.id <= Left /\ (e.sql # None => e.id \in Cleared)
      BY <1>1, BoundAssumption DEF ForwardedIsOlder, OnlyClearedReachServer, Ids
    <2> QED BY <2>1, ClearedKept DEF OlderKept
  <1> QED BY <1>2, <1>3, <1>4, UndecidedKept DEF ForwardedIsOlder, OnlyClearedReachServer, Runs

\* The parts of the type invariant a step does not touch.
LEMMA TypesKept ==
  ASSUME TypeOK
  PROVE  /\ UNCHANGED proxy => StateTyped'
         /\ UNCHANGED task => TaskTyped'
         /\ UNCHANGED backend => BackendTyped'
  <1>1. UNCHANGED proxy => StateTyped'
    BY DEF TypeOK, StateTyped, proxy
  <1>2. UNCHANGED task => TaskTyped'
    BY DEF TypeOK, TaskTyped, task
  <1>3. UNCHANGED backend => BackendTyped'
    BY DEF TypeOK, BackendTyped, backend
  <1> QED BY <1>1, <1>2, <1>3

\* A message that needs no judgement is taken, and dropped or forwarded.
LEMMA PassStep ==
  ASSUME IInv, c2p # <<>>, Take, pc = "read", UNCHANGED task,
         UNCHANGED <<sent, delivered, b2p, executed>>, StateTyped', BackendTyped',
         \/ UNCHANGED p2b
         \/ p2b' = Append(p2b, Head(c2p)) /\ ~Runs(Head(c2p))
  PROVE  IInv' /\ GateStep
  <1> USE DEF IInv
  <1>1. /\ Head(c2p) \in Msg /\ Head(c2p).id = Taken + 1
        /\ Taken \in Int /\ Taken' = Taken + 1 /\ c2p' \in Seq(Msg) /\ QueueNumbered'
    BY TakeStep
  <1>2. UNCHANGED <<pc, cur, verdict, judged, audited>>
    BY DEF task
  <1>3. OlderKept /\ Left' = Taken + 1
    BY <1>1, <1>2 DEF OlderKept, Left
  <1>4. p2b' \in Seq(Msg) /\ ForwardedIsOlder' /\ OnlyClearedReachServer' /\ Undecided'
    <2>1. CASE UNCHANGED p2b
      BY <2>1, <1>3, HoldStep DEF TypeOK, QueuesTyped
    <2>2. CASE p2b' = Append(p2b, Head(c2p)) /\ ~Runs(Head(c2p))
      <3> DEFINE m == Head(c2p)
      <3>1. m \in Msg /\ p2b' = Append(p2b, m) /\ m.id <= Left' /\ ~Runs(m)
        BY <2>2, <1>1, <1>3
      <3> HIDE DEF m
      <3> QED BY <3>1, <1>3, ForwardStep
    <2> QED BY <2>1, <2>2
  <1>5. QueuesTyped'
    BY <1>1, <1>4 DEF TypeOK, QueuesTyped
  <1>6. TaskTyped'
    BY TypesKept
  <1>7. CurrentIsLast' /\ CurrentIsJudged'
    BY <1>2 DEF CurrentIsLast, CurrentIsJudged
  <1>8. Leaves
    <2>1. Left = Taken /\ Left + 1 \in Ids /\ Left' = Left + 1
      BY <1>1, <1>3, TakeStep DEF Left
    <2>2. DecisionOf(Left)' = DecisionOf(Left + 1)
      BY <1>2, <2>1 DEF DecisionOf, Cleared
    <2>3. DecisionOf(Left + 1) = "open"
      BY <1>1, <2>1, UndecidedIsOpen
    <2> QED BY <1>1, <1>3, <2>1, <2>2, <2>3 DEF Leaves
  <1> QED BY <1>1, <1>4, <1>5, <1>6, <1>7, <1>8 DEF TypeOK, GateStep

\* The verdicts a task may carry to the audit write.
Final(v) == /\ v \in (LetThrough \cup Refused) \ {"SAFE"}
            /\ v = "ALLOWED_PROTOCOL_GAP" => Mode = "permissive"

\* The judgement of a message that has just been taken, or is being worked
\* on: its record changes and no older one.
JudgesCurrent(m, v, q) ==
  /\ v \in Verdicts \ {"SAFE"} /\ q \in SQL \cup {None}
  /\ Judge(m, v, q)
  /\ cur' = <<m>>
  /\ pc' \in {"estimate", "confirm", "audit"}
  /\ pc' \in {"estimate", "confirm"} => q \in SQL
  /\ pc' = "audit" => Final(v)

\* A judgement of the current message keeps the task well formed and touches
\* the entries of no other message.
LEMMA JudgementTyped ==
  ASSUME TypeOK, NEW m \in Msg, NEW v, NEW q, JudgesCurrent(m, v, q), UNCHANGED audited
  PROVE  /\ TaskTyped' /\ CurrentIsJudged' /\ cur'[1] = m
         /\ \A id \in Ids : id # m.id => verdict'[id] = verdict[id] /\ judged'[id] = judged[id]
         /\ verdict'[m.id] \in Verdicts \ {"SAFE"}
  <1>1. m.id \in Ids
    BY DEF Msg
  <1>2. /\ verdict' \in [Ids -> Verdicts] /\ judged' \in [Ids -> SQL \cup {None}]
        /\ verdict'[m.id] = v /\ judged'[m.id] = q
        /\ \A id \in Ids : id # m.id => verdict'[id] = verdict[id] /\ judged'[id] = judged[id]
    BY <1>1 DEF TypeOK, TaskTyped, JudgesCurrent, Judge
  <1>3. cur' \in Seq(Msg) /\ Len(cur') = 1 /\ cur'[1] = m
    BY DEF JudgesCurrent
  <1>4. TaskTyped'
    BY <1>2, <1>3 DEF TypeOK, TaskTyped, JudgesCurrent
  <1>5. CurrentIsJudged'
    BY <1>2, <1>3 DEF CurrentIsJudged, JudgesCurrent, Final
  <1> QED BY <1>2, <1>3, <1>4, <1>5 DEF JudgesCurrent

\* A protocol gap and a policy decision are such judgements.
LEMMA GapJudges ==
  ASSUME NEW m, ProtocolGap(m)
  PROVE  \E v, q : JudgesCurrent(m, v, q)
  <1> DEFINE v == IF EvaluateProtocolGap(Mode) = "ALLOW" THEN "ALLOWED_PROTOCOL_GAP"
                                                         ELSE "BLOCKED_PROTOCOL_GAP"
  <1>1. v \in Verdicts \ {"SAFE"} /\ Final(v)
    BY DEF Verdicts, Final, LetThrough, Refused, EvaluateProtocolGap
  <1>2. Judge(m, v, None) /\ pc' = "audit" /\ cur' = <<m>>
    BY DEF ProtocolGap
  <1> HIDE DEF v
  <1>3. JudgesCurrent(m, v, None)
    BY <1>1, <1>2 DEF JudgesCurrent
  <1> QED BY <1>3

\* EvaluateAndDecide judges the message, whatever the estimate.
LEMMA PolicyJudges ==
  ASSUME NEW m, NEW sql \in SQL, NEW rows \in Int, NEW err \in BOOLEAN,
         EvaluateAndDecide(m, sql, rows, err)
  PROVE  \E v, q : JudgesCurrent(m, v, q)
  <1> DEFINE action == EvaluatePolicy(Class[sql], rows, err, Config).action
             v == CASE action = "ALLOW"   -> "ALLOWED"
                    [] action = "BLOCK"   -> "BLOCKED_BY_POLICY"
                    [] action = "CONFIRM" -> "PENDING"
  <1>1. action \in PolicyAction
    <2>1. Class[sql] \in Classification
      BY ClassAssumption
    <2> QED BY <2>1, PolicyType, ConfigAssumption
  <1>2. /\ Judge(m, v, sql)
        /\ pc' = IF action = "CONFIRM" THEN "confirm" ELSE "audit"
        /\ cur' = <<m>>
    BY DEF EvaluateAndDecide
  <1> HIDE DEF action
  <1>3. v \in Verdicts \ {"SAFE"} /\ (action # "CONFIRM" => Final(v))
    BY <1>1 DEF PolicyAction, Verdicts, Final, LetThrough, Refused
  <1> HIDE DEF v
  <1>4. JudgesCurrent(m, v, sql)
    BY <1>2, <1>3 DEF JudgesCurrent
  <1> QED BY <1>4

\* A message is taken and its handler suspends with a judgement.
LEMMA SuspendStep ==
  ASSUME IInv, c2p # <<>>, Take, pc = "read",
         \E v, q : JudgesCurrent(Head(c2p), v, q),
         UNCHANGED <<sent, delivered, p2b, b2p, audited, executed>>, StateTyped', BackendTyped'
  PROVE  IInv' /\ GateStep
  <1> USE DEF IInv
  <1> DEFINE m == Head(c2p)
  <1>1. /\ m \in Msg /\ m.id \in Ids /\ m.id = Taken + 1
        /\ Taken \in Int /\ Taken' = Taken + 1 /\ c2p' \in Seq(Msg) /\ QueueNumbered'
    BY TakeStep
  <1>2. PICK v, q : JudgesCurrent(m, v, q)
    OBVIOUS
  <1> HIDE DEF m
  <1>3. /\ TaskTyped' /\ CurrentIsJudged' /\ cur'[1] = m
        /\ \A id \in Ids : id # m.id => verdict'[id] = verdict[id] /\ judged'[id] = judged[id]
        /\ verdict'[m.id] \in Verdicts \ {"SAFE"}
    BY <1>1, <1>2, JudgementTyped
  <1>4. OlderKept /\ Left' = Left
    <2>1. Left = Taken /\ Left' = Taken
      BY <1>1, <1>2 DEF Left, JudgesCurrent
    <2>2. \A id \in Ids : id <= Left => id # m.id
      BY <1>1, <2>1, BoundAssumption DEF Ids
    <2> QED BY <1>1, <1>3, <2>1, <2>2 DEF OlderKept
  <1>5. ForwardedIsOlder' /\ OnlyClearedReachServer' /\ Undecided'
    BY <1>4, HoldStep
  <1>6. QueuesTyped'
    BY <1>1 DEF TypeOK, QueuesTyped
  <1>7. CurrentIsLast'
    BY <1>1, <1>3 DEF CurrentIsLast
  <1> QED BY <1>1, <1>3, <1>4, <1>5, <1>6, <1>7 DEF TypeOK, GateStep, Holds, Stays

\* A message is taken and inspected.
LEMMA InspectStep ==
  ASSUME IInv, c2p # <<>>, Take, pc = "read", NEW sql \in SQL, Inspect(Head(c2p), sql),
         UNCHANGED <<sent, delivered, b2p, executed>>, StateTyped', BackendTyped'
  PROVE  IInv' /\ GateStep
  <1> USE DEF IInv
  <1> DEFINE m == Head(c2p)
  <1>1. /\ m \in Msg /\ m.id \in Ids /\ m.id = Taken + 1
        /\ Taken \in Int /\ Taken' = Taken + 1 /\ c2p' \in Seq(Msg) /\ QueueNumbered'
    BY TakeStep
  <1>2. CASE /\ Class[sql].risk = "safe" /\ Judge(m, "SAFE", sql)
             /\ p2b' = Append(p2b, m) /\ UNCHANGED <<pc, cur, audited>>
    <2> HIDE DEF m
    <2>1. /\ verdict' \in [Ids -> Verdicts] /\ judged' \in [Ids -> SQL \cup {None}]
          /\ verdict'[m.id] = "SAFE" /\ judged'[m.id] = sql
          /\ \A id \in Ids : id # m.id => verdict'[id] = verdict[id] /\ judged'[id] = judged[id]
      BY <1>1, <1>2 DEF TypeOK, TaskTyped, Judge, Verdicts, LetThrough
    <2>2. m.id \in Cleared'
      BY <1>1, <1>2, <2>1 DEF Cleared, LetThrough
    <2>3. OlderKept /\ Left + 1 = m.id /\ Left' = m.id
      <3>1. Left = Taken /\ Left' = Taken + 1
        BY <1>1, <1>2 DEF Left
      <3>2. \A id \in Ids : id <= Left => id # m.id
        BY <1>1, <3>1, BoundAssumption DEF Ids
      <3> QED BY <1>1, <1>2, <2>1, <3>1, <3>2 DEF OlderKept
    <2>4. Leaves
      <3>1. DecisionOf(Left)' = "pass"
        BY <2>2, <2>3 DEF DecisionOf
      <3> QED BY <1>1, <1>2, <2>3, <3>1 DEF Leaves
    <2>5. p2b' \in Seq(Msg) /\ ForwardedIsOlder' /\ OnlyClearedReachServer' /\ Undecided'
      <3>1. m.id <= Left'
        BY <1>1, <2>3
      <3> QED BY <1>1, <1>2, <2>2, <2>3, <3>1, ForwardStep
    <2>6. QueuesTyped'
      BY <1>1, <2>5 DEF TypeOK, QueuesTyped
    <2>7. TaskTyped'
      BY <1>2, <2>1 DEF TypeOK, TaskTyped
    <2>8. CurrentIsLast' /\ CurrentIsJudged'
      BY <1>2 DEF CurrentIsLast, CurrentIsJudged
    <2> QED BY <1>1, <2>4, <2>5, <2>6, <2>7, <2>8 DEF TypeOK, GateStep
  <1>3. CASE /\ Judge(m, "PENDING", sql) /\ pc' = "estimate" /\ cur' = <<m>>
             /\ UNCHANGED <<p2b, audited>>
    <2>1. JudgesCurrent(m, "PENDING", sql)
      BY <1>3 DEF JudgesCurrent, Verdicts
    <2> QED BY <1>3, <2>1, SuspendStep
  <1>4. CASE EvaluateAndDecide(m, sql, NoRows, FALSE) /\ UNCHANGED <<p2b, audited>>
    <2>1. NoRows \in Int
      BY DEF NoRows
    <2>2. \E v, q : JudgesCurrent(m, v, q)
      BY <1>4, <2>1, PolicyJudges
    <2> QED BY <1>4, <2>2, SuspendStep
  <1> QED BY <1>2, <1>3, <1>4 DEF Inspect

-----------------------------------------------------------------------------
(***************************************************************************)
(* The invariant is preserved by each action.                              *)
(***************************************************************************)
\* The client sends a message.
LEMMA ClientSendInv ==
  ASSUME IInv, NEW r \in Requests, ClientSend(r)
  PROVE  IInv' /\ GateStep
  <1> USE DEF IInv
  <1> DEFINE m == Number(r, Len(sent) + 1)
  <1>1. /\ sent \in Seq(Msg) /\ c2p \in Seq(Msg)
        /\ Len(sent) \in Nat /\ Len(c2p) \in Nat /\ Len(sent) < MaxSent
        /\ sent' = Append(sent, m) /\ c2p' = Append(c2p, m)
    BY DEF TypeOK, QueuesTyped, ClientSend
  <1>2. m \in Msg /\ m.id = Len(sent) + 1
    BY <1>1, BoundAssumption, RequestsAssumption DEF Number, Msg, Request, Ids
  <1> HIDE DEF m
  <1>3. /\ sent' \in Seq(Msg) /\ Len(sent') = Len(sent) + 1
        /\ c2p' \in Seq(Msg) /\ Len(c2p') = Len(c2p) + 1
        /\ \A i \in 1..Len(c2p) : c2p'[i] = c2p[i]
        /\ c2p'[Len(c2p) + 1] = m
    BY <1>1, <1>2, AppendFacts
  <1>4. Taken' = Taken /\ Taken \in Int
    BY <1>1, <1>3 DEF Taken
  <1>5. QueueNumbered'
    <2>1. Len(c2p') <= Len(sent')
      BY <1>1, <1>3 DEF QueueNumbered
    <2>2. ASSUME NEW i \in 1..Len(c2p') PROVE c2p'[i].id = Taken' + i
      <3>1. CASE i = Len(c2p) + 1
        BY <1>1, <1>2, <1>3, <1>4, <3>1 DEF Taken
      <3>2. CASE i \in 1..Len(c2p)
        BY <1>3, <1>4, <3>2 DEF QueueNumbered
      <3> QED BY <1>1, <1>3, <3>1, <3>2
    <2> QED BY <2>1, <2>2 DEF QueueNumbered
  <1>6. UNCHANGED <<delivered, p2b, b2p, pc, cur, verdict, judged, audited, executed>>
    BY DEF ClientSend, task, backend
  <1>7. StateTyped' /\ TaskTyped' /\ BackendTyped'
    BY TypesKept DEF ClientSend
  <1>8. QueuesTyped'
    BY <1>1, <1>3, <1>6, BoundAssumption DEF TypeOK, QueuesTyped
  <1>9. OlderKept /\ Left' = Left
    BY <1>4, <1>6 DEF OlderKept, Left
  <1>10. ForwardedIsOlder' /\ OnlyClearedReachServer' /\ Undecided'
    BY <1>6, <1>9, HoldStep
  <1>11. CurrentIsLast' /\ CurrentIsJudged'
    BY <1>4, <1>6 DEF CurrentIsLast, CurrentIsJudged
  <1>12. Offers
    BY <1>1, <1>2, <1>6, <1>9 DEF Offers, Stays
  <1> QED BY <1>5, <1>7, <1>8, <1>10, <1>11, <1>12 DEF TypeOK, GateStep

\* Messages forwarded or dropped without a judgement.
LEMMA PassingInv ==
  ASSUME IInv, SkipUntilSync \/ SyncAfterError \/ TerminateAfterError \/ HandleOther \/ HandleClose
  PROVE  IInv' /\ GateStep
  <1> USE DEF IInv
  <1>1. CASE SkipUntilSync
    <2>1. StateTyped' /\ BackendTyped'
      BY <1>1, TypesKept DEF SkipUntilSync
    <2> QED BY <1>1, <2>1, PassStep DEF SkipUntilSync, Reading, client, backend
  <1>2. CASE SyncAfterError
    <2>1. StateTyped' /\ BackendTyped'
      BY <1>2, TypesKept DEF SyncAfterError, TypeOK, StateTyped
    <2> QED BY <1>2, <2>1, PassStep DEF SyncAfterError, Reading, client, backend, Runs
  <1>3. CASE HandleOther
    <2>1. StateTyped' /\ BackendTyped'
      BY <1>3, TypesKept DEF HandleOther
    <2> QED BY <1>3, <2>1, PassStep DEF HandleOther, Reading, Unread, client, backend, Runs
  <1>4. CASE HandleClose
    <2>1. Head(c2p) \in Msg
      BY <1>4, TailFacts DEF HandleClose, Reading, TypeOK, QueuesTyped
    <2>2. StateTyped'
      BY <1>4, <2>1 DEF HandleClose, TypeOK, StateTyped, CloseStatement,
                        CloseStatementPortals, DropPortalsOf, ClosePortal, Msg
    <2>3. BackendTyped'
      BY <1>4, TypesKept DEF HandleClose
    <2> QED BY <1>4, <2>2, <2>3, PassStep DEF HandleClose, Reading, client, backend, Runs
  <1>5. CASE TerminateAfterError
    <2>1. StateTyped' /\ BackendTyped'
      BY <1>5, TypesKept DEF TerminateAfterError
    <2> QED BY <1>5, <2>1, PassStep DEF TerminateAfterError, Reading, client, backend, Runs
  <1> QED BY <1>1, <1>2, <1>3, <1>4, <1>5

\* Parse and Bind: registered and forwarded, or a protocol gap.
LEMMA RegisterInv ==
  ASSUME IInv, HandleParse \/ HandleBind
  PROVE  IInv' /\ GateStep
  <1> USE DEF IInv
  <1> DEFINE m == Head(c2p)
  <1>1. /\ c2p # <<>> /\ pc = "read" /\ Take /\ m.type \in {"Parse", "Bind"}
        /\ UNCHANGED <<sent, delivered, b2p, txStatus, errorPending, backend>>
    BY DEF HandleParse, HandleBind, Reading, client
  <1>2. m \in Msg
    BY <1>1, TailFacts DEF TypeOK, QueuesTyped
  <1>3. BackendTyped' /\ UNCHANGED executed
    BY <1>1, TypesKept DEF backend
  <1>4. CASE /\ p2b' = Append(p2b, m) /\ UNCHANGED task
             /\ \/ /\ statements' = RegisterStatement(statements, m.name, m.sql)
                   /\ portals' = PortalsAfterParse(portals, m.name)
                \/ /\ portals' = RegisterPortal(portals, m.portal, m.name)
                   /\ UNCHANGED statements
    <2>1. StateTyped'
      BY <1>1, <1>2, <1>4 DEF TypeOK, StateTyped, RegisterStatement, RegisterPortal,
                              PortalsAfterParse, DropPortalsOf, Msg
    <2> QED BY <1>1, <1>3, <1>4, <2>1, PassStep DEF Runs
  <1>5. CASE ProtocolGap(m) /\ UNCHANGED <<statements, portals, p2b, audited>>
    <2>1. StateTyped'
      BY <1>1, <1>5, TypesKept DEF proxy
    <2>2. \E v, q : JudgesCurrent(m, v, q)
      BY <1>5, GapJudges
    <2> QED BY <1>1, <1>3, <1>5, <2>1, <2>2, SuspendStep
  <1> QED BY <1>4, <1>5 DEF HandleParse, HandleBind

\* Messages that are judged.
LEMMA JudgingInv ==
  ASSUME IInv, HandleMalformed \/ HandleSimpleQuery \/ HandleExecute
  PROVE  IInv' /\ GateStep
  <1> USE DEF IInv
  <1> DEFINE m == Head(c2p)
  <1>1. /\ c2p # <<>> /\ pc = "read" /\ Take
        /\ UNCHANGED <<sent, delivered, b2p, proxy, backend>>
    BY DEF HandleMalformed, HandleSimpleQuery, HandleExecute, Reading, client
  <1>2. m \in Msg
    BY <1>1, TailFacts DEF TypeOK, QueuesTyped
  <1>3. StateTyped' /\ BackendTyped' /\ UNCHANGED executed
    BY <1>1, TypesKept DEF backend
  <1>4. CASE ProtocolGap(m) /\ UNCHANGED <<p2b, audited>>
    <2>1. \E v, q : JudgesCurrent(m, v, q)
      BY <1>4, GapJudges
    <2> QED BY <1>1, <1>3, <1>4, <2>1, SuspendStep
  <1>5. ASSUME NEW sql \in SQL, Inspect(m, sql)
        PROVE  IInv' /\ GateStep
    BY <1>1, <1>3, <1>5, InspectStep
  <1>6. ASSUME NEW sql \in SQL, EvaluateAndDecide(m, sql, NoRows, TRUE),
               UNCHANGED <<p2b, audited>>
        PROVE  IInv' /\ GateStep
    <2>1. NoRows \in Int
      BY DEF NoRows
    <2>2. \E v, q : JudgesCurrent(m, v, q)
      BY <1>6, <2>1, PolicyJudges
    <2> QED BY <1>1, <1>3, <1>6, <2>2, SuspendStep
  <1>7. m.sql \in SQL /\ (PortalText(m.portal) = None \/ PortalText(m.portal) \in SQL)
    BY <1>2 DEF Msg, PortalText, TypeOK, StateTyped
  <1> QED BY <1>4, <1>5, <1>6, <1>7 DEF HandleMalformed, HandleSimpleQuery, HandleExecute

\* The message the task works on, as a value.
LEMMA CurrentTyped ==
  ASSUME TypeOK, pc # "read"
  PROVE  cur[1] \in Msg /\ cur[1].id \in Ids /\ cur = <<cur[1]>>
  <1>1. cur \in Seq(Msg) /\ Len(cur) = 1
    BY DEF TypeOK, TaskTyped
  <1>2. cur[1] \in Msg /\ cur = <<cur[1]>>
    BY <1>1
  <1>3. cur[1].id \in Ids
    BY <1>2 DEF Msg
  <1> QED BY <1>2, <1>3

\* The task resumes with a judgement of the message it works on.
LEMMA ResumeStep ==
  ASSUME IInv, pc # "read", \E v, q : JudgesCurrent(cur[1], v, q),
         UNCHANGED <<sent, delivered, c2p, p2b, b2p, audited, executed>>, StateTyped', BackendTyped'
  PROVE  IInv' /\ GateStep
  <1> USE DEF IInv
  <1> DEFINE m == cur[1]
  <1>1. m \in Msg /\ m.id \in Ids /\ m.id = Taken
    BY CurrentTyped DEF CurrentIsLast
  <1>2. Taken \in Int /\ Taken' = Taken
    BY DEF Taken, TypeOK, QueuesTyped
  <1>3. PICK v, q : JudgesCurrent(m, v, q)
    OBVIOUS
  <1> HIDE DEF m
  <1>4. /\ TaskTyped' /\ CurrentIsJudged' /\ cur'[1] = m
        /\ \A id \in Ids : id # m.id => verdict'[id] = verdict[id] /\ judged'[id] = judged[id]
        /\ verdict'[m.id] \in Verdicts \ {"SAFE"}
    BY <1>1, <1>3, JudgementTyped
  <1>5. OlderKept /\ Left' = Left
    <2>1. Left = Taken - 1 /\ Left' = Taken - 1
      BY <1>2, <1>3 DEF Left, JudgesCurrent
    <2>2. \A id \in Ids : id <= Left => id # m.id
      BY <1>1, <1>2, <2>1, BoundAssumption DEF Ids
    <2> QED BY <1>2, <1>4, <2>1, <2>2 DEF OlderKept
  <1>6. ForwardedIsOlder' /\ OnlyClearedReachServer' /\ Undecided'
    BY <1>5, HoldStep
  <1>7. QueuesTyped' /\ QueueNumbered'
    BY <1>2 DEF TypeOK, QueuesTyped, QueueNumbered
  <1>8. CurrentIsLast'
    BY <1>1, <1>2, <1>4 DEF CurrentIsLast
  <1> QED BY <1>4, <1>5, <1>6, <1>7, <1>8 DEF TypeOK, GateStep, Holds, Stays

\* The estimate arrives, or its failure, and the policy decides.
LEMMA EstimateInv == ASSUME IInv, EstimateDone PROVE IInv' /\ GateStep
  <1> USE DEF IInv
  <1>1. judged[cur[1].id] \in SQL
    BY DEF EstimateDone, CurrentIsJudged
  <1>2. \E v, q : JudgesCurrent(cur[1], v, q)
    <2>1. PICK rows \in RowCounts \cup {NoRows} :
            EvaluateAndDecide(cur[1], judged[cur[1].id], rows, rows = NoRows)
      BY DEF EstimateDone
    <2>2. rows \in Int /\ (rows = NoRows) \in BOOLEAN
      BY RowsAssumption DEF NoRows
    <2> QED BY <1>1, <2>1, <2>2, PolicyJudges
  <1>3. StateTyped' /\ BackendTyped'
    BY TypesKept DEF EstimateDone
  <1> QED BY <1>2, <1>3, ResumeStep DEF EstimateDone, client, backend

\* The operator answers the confirmation.
LEMMA ConfirmInv == ASSUME IInv, UserDecides PROVE IInv' /\ GateStep
  <1> USE DEF IInv
  <1>1. PICK v \in {"APPROVED_BY_USER", "BLOCKED_BY_USER"} :
          verdict' = [verdict EXCEPT ![cur[1].id] = v]
    BY DEF UserDecides
  <1>2. cur[1] \in Msg /\ cur[1].id \in Ids /\ cur = <<cur[1]>>
    BY CurrentTyped DEF UserDecides
  <1>3. v \in Verdicts \ {"SAFE"} /\ Final(v)
    BY <1>1 DEF Verdicts, Final, LetThrough, Refused
  <1>4. judged[cur[1].id] \in SQL /\ judged' = [judged EXCEPT ![cur[1].id] = judged[cur[1].id]]
    BY <1>2 DEF UserDecides, CurrentIsJudged, TypeOK, TaskTyped
  <1>5. JudgesCurrent(cur[1], v, judged[cur[1].id])
    BY <1>1, <1>2, <1>3, <1>4 DEF JudgesCurrent, Judge, UserDecides
  <1>6. StateTyped' /\ BackendTyped'
    BY TypesKept DEF UserDecides
  <1> QED BY <1>5, <1>6, ResumeStep DEF UserDecides, client, backend

\* The message is forwarded, its decision being on the audit path, or refused.
LEMMA AuditInv == ASSUME IInv, AuditWritten PROVE IInv' /\ GateStep
  <1> USE DEF IInv
  <1> DEFINE m == cur[1]
  <1>1. m \in Msg /\ m.id \in Ids /\ m.id = Taken /\ Final(verdict[m.id])
    BY CurrentTyped DEF AuditWritten, CurrentIsLast, CurrentIsJudged, Final
  <1>2. Taken \in Int /\ Taken' = Taken
    BY DEF Taken, TypeOK, QueuesTyped, AuditWritten, client
  <1>3. /\ audited' = [audited EXCEPT ![m.id] = verdict[m.id]]
        /\ pc = "audit" /\ pc' = "read" /\ cur' = <<>>
        /\ UNCHANGED <<sent, c2p, b2p, statements, portals, txStatus, verdict, judged, executed>>
    BY DEF AuditWritten, client, backend
  <1>4. \/ /\ Passes(verdict[m.id]) /\ p2b' = Append(p2b, m)
           /\ UNCHANGED <<delivered, errorPending>>
        \/ /\ ~Passes(verdict[m.id]) /\ delivered' = delivered \o Refusal(m)
           /\ errorPending' = StartsRecovery(m)
           /\ UNCHANGED p2b
    BY DEF AuditWritten
  <1> HIDE DEF m
  <1>5. TaskTyped'
    BY <1>1, <1>3 DEF TypeOK, TaskTyped
  <1>6. OlderKept /\ Left' = Taken /\ Left + 1 = Taken
    <2>1. Left = Taken - 1 /\ Left' = Taken
      BY <1>2, <1>3 DEF Left
    <2>2. \A id \in Ids : id <= Left \/ id > Left' => id # m.id
      BY <1>1, <1>2, <2>1, BoundAssumption DEF Ids
    <2>3. \A id \in Ids : id # m.id => audited'[id] = audited[id]
      BY <1>3 DEF TypeOK, TaskTyped
    <2> QED BY <1>2, <1>3, <2>1, <2>2, <2>3 DEF OlderKept
  <1>7. p2b' \in Seq(Msg) /\ ForwardedIsOlder' /\ OnlyClearedReachServer' /\ Undecided'
    <2>1. CASE Passes(verdict[m.id]) /\ p2b' = Append(p2b, m)
      <3>1. audited'[m.id] = verdict[m.id]
        BY <1>1, <1>3 DEF TypeOK, TaskTyped
      <3>2. m.id \in Cleared'
        BY <1>1, <1>3, <2>1, <3>1 DEF Cleared, Final, Passes
      <3>3. m.id <= Left'
        BY <1>1, <1>2, <1>6
      <3> QED BY <1>1, <1>3, <1>6, <2>1, <3>2, <3>3, ForwardStep
    <2>2. CASE UNCHANGED p2b
      BY <1>3, <1>6, <2>2, HoldStep DEF TypeOK, QueuesTyped
    <2> QED BY <1>4, <2>1, <2>2
  <1>8. delivered' \in Seq(Response)
    <2>1. Err(m) \in Response /\ Ready(m, txStatus) \in Response
      BY <1>1 DEF Err, Ready, Response, TypeOK, StateTyped, TxStatus
    <2>2. Refusal(m) \in Seq(Response)
      BY <2>1 DEF Refusal
    <2> QED BY <1>4, <2>2, ConcatType DEF TypeOK, QueuesTyped
  <1>9. QueuesTyped' /\ QueueNumbered'
    BY <1>2, <1>3, <1>7, <1>8 DEF TypeOK, QueuesTyped, QueueNumbered
  <1>10. StateTyped'
    <2>1. errorPending' \in BOOLEAN
      BY <1>4 DEF TypeOK, StateTyped, StartsRecovery
    <2> QED BY <1>3, <2>1 DEF TypeOK, StateTyped
  <1>11. BackendTyped'
    BY TypesKept DEF AuditWritten
  <1>12. CurrentIsLast' /\ CurrentIsJudged'
    BY <1>3 DEF CurrentIsLast, CurrentIsJudged
  <1>13. Leaves
    <2>1. audited'[m.id] = verdict[m.id] /\ Left' = m.id /\ Left + 1 = m.id
      BY <1>1, <1>3, <1>6 DEF TypeOK, TaskTyped
    <2>2. CASE Passes(verdict[m.id]) /\ p2b' = Append(p2b, m)
      <3>1. DecisionOf(Left)' = "pass"
        BY <1>1, <1>3, <2>1, <2>2 DEF DecisionOf, Cleared, Final, Passes
      <3> QED BY <1>1, <1>3, <1>6, <2>1, <2>2, <3>1 DEF Leaves
    <2>3. CASE ~Passes(verdict[m.id]) /\ UNCHANGED p2b
      <3>1. DecisionOf(Left)' = "refuse"
        BY <1>1, <1>3, <2>1, <2>3 DEF DecisionOf, Cleared, Final, Passes
      <3> QED BY <1>1, <1>3, <1>6, <2>1, <2>3, <3>1 DEF Leaves
    <2> QED BY <1>4, <2>2, <2>3
  <1> QED BY <1>5, <1>7, <1>9, <1>10, <1>11, <1>12, <1>13 DEF TypeOK, GateStep

\* The answers of the server are relayed.
LEMMA PipeInv == ASSUME IInv, PipeBackend PROVE IInv' /\ GateStep
  <1> USE DEF IInv
  <1>1. /\ Head(b2p) \in Response /\ b2p' \in Seq(Response)
        /\ delivered' = Append(delivered, Head(b2p))
        /\ UNCHANGED <<sent, c2p, p2b, statements, errorPending, task, backend>>
    BY TailFacts DEF PipeBackend, TypeOK, QueuesTyped, client
  <1>2. delivered' \in Seq(Response)
    BY <1>1, AppendFacts DEF TypeOK, QueuesTyped
  <1>3. QueuesTyped'
    BY <1>1, <1>2 DEF TypeOK, QueuesTyped
  <1>4. StateTyped'
    BY <1>1 DEF PipeBackend, TypeOK, StateTyped, StatusAfter, PortalsAtReady, Empty, Response
  <1>5. TaskTyped' /\ BackendTyped'
    BY <1>1, TypesKept
  <1>6. Taken \in Int /\ Taken' = Taken /\ QueueNumbered'
    BY <1>1 DEF Taken, TypeOK, QueuesTyped, QueueNumbered
  <1>7. UNCHANGED <<pc, cur, verdict, judged, audited, executed>>
    BY <1>1 DEF task, backend
  <1>8. OlderKept /\ Left' = Left
    BY <1>6, <1>7 DEF OlderKept, Left
  <1>9. ForwardedIsOlder' /\ OnlyClearedReachServer' /\ Undecided'
    BY <1>1, <1>7, <1>8, HoldStep
  <1>10. CurrentIsLast' /\ CurrentIsJudged'
    BY <1>6, <1>7 DEF CurrentIsLast, CurrentIsJudged
  <1> QED BY <1>1, <1>3, <1>4, <1>5, <1>6, <1>7, <1>8, <1>9, <1>10 DEF TypeOK, GateStep, Holds, Stays

\* The server takes a message: what it runs was in its queue, so cleared.
LEMMA ServerStep ==
  ASSUME IInv, p2b # <<>>, p2b' = Tail(p2b), UNCHANGED <<sent, c2p, delivered, proxy, task>>,
         b2p' \in Seq(Response), BackendTyped',
         UNCHANGED executed \/ ServesHead
  PROVE  IInv' /\ GateStep
  <1> USE DEF IInv
  <1>1. /\ p2b \in Seq(Msg) /\ p2b' \in Seq(Msg) /\ Len(p2b) \in Nat \ {0}
        /\ Len(p2b') = Len(p2b) - 1 /\ Head(p2b) = p2b[1]
        /\ \A i \in 1..Len(p2b) - 1 : p2b'[i] = p2b[i + 1]
    BY TailFacts DEF TypeOK, QueuesTyped
  <1>2. /\ Taken' = Taken /\ Left' = Left /\ Cleared' = Cleared
        /\ UNCHANGED <<pc, cur, verdict, judged, audited>>
    BY DEF Taken, Left, Cleared, task
  <1>3. QueuesTyped' /\ QueueNumbered'
    BY <1>1, <1>2 DEF TypeOK, QueuesTyped, QueueNumbered
  <1>4. StateTyped' /\ TaskTyped'
    BY TypesKept
  <1>5. CurrentIsLast' /\ CurrentIsJudged'
    BY <1>2 DEF CurrentIsLast, CurrentIsJudged
  <1>6. ASSUME NEW i \in 1..Len(p2b')
        PROVE  p2b'[i].id <= Left /\ (Runs(p2b'[i]) => p2b'[i].id \in Cleared)
    <2>1. i + 1 \in 1..Len(p2b) /\ p2b'[i] = p2b[i + 1]
      BY <1>1
    <2> QED BY <2>1 DEF ForwardedIsOlder, OnlyClearedReachServer
  <1>7. ASSUME NEW e \in executed'
        PROVE  e.id <= Left /\ (e.sql # None => e.id \in Cleared)
    <2>1. CASE e \in executed
      BY <2>1 DEF ForwardedIsOlder, OnlyClearedReachServer
    <2>2. CASE (Runs(Head(p2b)) \/ e.sql = None) /\ e.id = Head(p2b).id
      <3>1. 1 \in 1..Len(p2b)
        BY <1>1
      <3> QED BY <1>1, <2>2, <3>1 DEF ForwardedIsOlder, OnlyClearedReachServer
    <2> QED BY <2>1, <2>2 DEF ServesHead
  <1>8. ForwardedIsOlder' /\ OnlyClearedReachServer' /\ Undecided'
    BY <1>2, <1>6, <1>7 DEF ForwardedIsOlder, OnlyClearedReachServer, Runs, Undecided
  <1>9. Arrives
    BY DEF Arrives
  <1> QED BY <1>3, <1>4, <1>5, <1>8, <1>9 DEF TypeOK, GateStep

\* The answers of the server are well formed.
LEMMA AnswersTyped ==
  ASSUME TypeOK, NEW m \in Msg, NEW tx \in TxStatus
  PROVE  /\ Ok(m) \in Response /\ Err(m) \in Response /\ Ready(m, tx) \in Response
         /\ Append(b2p, Ok(m)) \in Seq(Response)
         /\ Append(b2p, Ready(m, tx)) \in Seq(Response)
         /\ b2p \o <<Err(m)>> \in Seq(Response)
         /\ b2p \o <<Err(m), Ready(m, tx)>> \in Seq(Response)
         /\ b2p \o <<Ok(m), Ready(m, tx)>> \in Seq(Response)
  <1>1. Ok(m) \in Response /\ Err(m) \in Response /\ Ready(m, tx) \in Response
    BY DEF Ok, Err, Ready, Response, Msg, TxStatus
  <1>2. b2p \in Seq(Response)
    BY DEF TypeOK, QueuesTyped
  <1>3. /\ <<Err(m)>> \in Seq(Response) /\ <<Err(m), Ready(m, tx)>> \in Seq(Response)
        /\ <<Ok(m), Ready(m, tx)>> \in Seq(Response)
    BY <1>1
  <1> QED BY <1>1, <1>2, <1>3, ConcatType, AppendFacts

\* Each step of the server keeps the invariant.
LEMMA ServerInv == ASSUME IInv, Backend PROVE IInv' /\ GateStep
  <1> USE DEF IInv
  <1> DEFINE m == Head(p2b)
  <1>1. /\ p2b # <<>> /\ p2b' = Tail(p2b)
        /\ UNCHANGED <<sent, c2p, delivered, proxy, task>>
    BY DEF Backend, BackendSkips, BackendRejects, BackendPrepares, BackendExecutes,
           BackendQueries, BackendSyncs, BackendCalls, BackendTerminates, Receive, client
  <1>2. /\ m \in Msg /\ m.id \in Ids /\ m.sql \in SQL /\ m.name \in Names
        /\ m.portal \in Names
    <2>1. m \in Msg
      BY <1>1, TailFacts DEF TypeOK, QueuesTyped
    <2> QED BY <2>1 DEF Msg
  <1>3. CASE BackendSkips
    <2>1. BackendTyped' /\ UNCHANGED <<b2p, executed>>
      BY <1>3, TypesKept DEF BackendSkips, backend
    <2> QED BY <1>1, <2>1, ServerStep DEF TypeOK, QueuesTyped
  <1>4. CASE BackendRejects
    <2> DEFINE tx == IF bTx = "I" THEN "I" ELSE "E"
    <2>1. tx \in TxStatus
      BY DEF TxStatus
    <2>2. /\ bTx' = tx /\ bSkip' = ~Alone(m) /\ bStmts' = DropUnnamed(m)
          /\ bPortals' = Empty /\ UNCHANGED executed
          /\ b2p' = b2p \o (IF Alone(m) THEN <<Err(m), Ready(m, tx)>> ELSE <<Err(m)>>)
      BY <1>4 DEF BackendRejects
    <2> HIDE DEF tx, m
    <2>3. b2p' \in Seq(Response)
      BY <1>2, <2>1, <2>2, AnswersTyped
    <2>4. bSkip' \in BOOLEAN
      BY <2>2
    <2>5. bStmts' \in [Names -> SQL \cup {None}]
      BY <2>2 DEF DropUnnamed, TypeOK, BackendTyped
    <2>6. BackendTyped'
      BY <2>1, <2>2, <2>4, <2>5 DEF TypeOK, BackendTyped, Empty
    <2> QED BY <1>1, <2>2, <2>3, <2>6, ServerStep
  <1>5. CASE BackendPrepares
    <2>1. ~Rejects(m) /\ b2p' = Append(b2p, Ok(m)) /\ UNCHANGED <<bTx, bSkip, executed>>
      BY <1>5 DEF BackendPrepares
    <2>2. b2p' \in Seq(Response)
      BY <1>2, <2>1, AnswersTyped DEF TxStatus
    <2>3. bStmts' \in [Names -> SQL \cup {None}]
      BY <1>2, <1>5 DEF BackendPrepares, TypeOK, BackendTyped
    <2>4. m.type = "Bind" => bStmts[m.name] \in SQL
      BY <1>2, <2>1 DEF Rejects, CannotRun, TypeOK, BackendTyped
    <2>5. bPortals' \in [Names -> [stmt : Names, sql : SQL] \cup {None}]
      BY <1>2, <1>5, <2>4 DEF BackendPrepares, ClosedWith, TypeOK, BackendTyped
    <2>6. BackendTyped'
      BY <2>1, <2>3, <2>5 DEF TypeOK, BackendTyped
    <2> QED BY <1>1, <2>1, <2>2, <2>6, ServerStep
  <1>6. CASE BackendExecutes
    <2> DEFINE sql == PortalSql(m.portal)
    <2>1. /\ ~Rejects(m) /\ m.type = "Execute" /\ b2p' = Append(b2p, Ok(m))
          /\ executed' = executed \cup {[id |-> m.id, sql |-> sql]}
          /\ bTx' = TxAfter(sql) /\ UNCHANGED <<bStmts, bSkip>>
          /\ bPortals' = IF TxEffect[sql] = "end" THEN Empty ELSE bPortals
      BY <1>6 DEF BackendExecutes
    <2>2. sql \in SQL
      BY <1>2, <2>1 DEF Rejects, CannotRun, PortalSql, TypeOK, BackendTyped
    <2> HIDE DEF sql
    <2>3. bTx' \in TxStatus
      BY <2>1, <2>2, TxAssumption DEF TxAfter, TxStatus, TypeOK, BackendTyped
    <2>4. BackendTyped'
      <3>1. executed' \subseteq [id : Ids, sql : SQL \cup {None}]
        BY <1>2, <2>1, <2>2 DEF TypeOK, BackendTyped
      <3>2. bPortals' \in [Names -> [stmt : Names, sql : SQL] \cup {None}]
        BY <2>1 DEF TypeOK, BackendTyped, Empty
      <3> QED BY <2>1, <2>3, <3>1, <3>2 DEF TypeOK, BackendTyped
    <2>5. b2p' \in Seq(Response)
      BY <1>2, <2>1, AnswersTyped DEF TxStatus
    <2>6. ServesHead
      BY <2>1 DEF ServesHead, Runs
    <2> QED BY <1>1, <2>4, <2>5, <2>6, ServerStep
  <1>7. CASE BackendQueries
    <2> DEFINE tx == TxAfter(m.sql)
    <2>1. /\ m.type = "Query" /\ b2p' = b2p \o <<Ok(m), Ready(m, tx)>>
          /\ executed' = executed \cup {[id |-> m.id, sql |-> m.sql]}
          /\ bTx' = tx /\ bStmts' = DropUnnamed(m) /\ UNCHANGED bSkip
          /\ bPortals' = IF tx = "I" THEN Empty ELSE [bPortals EXCEPT ![Unnamed] = None]
      BY <1>7 DEF BackendQueries
    <2>2. tx \in TxStatus
      BY <1>2, TxAssumption DEF TxAfter, TxStatus, TypeOK, BackendTyped
    <2> HIDE DEF tx
    <2>3. bStmts' \in [Names -> SQL \cup {None}]
      BY <2>1 DEF DropUnnamed, TypeOK, BackendTyped
    <2>4. BackendTyped'
      <3>1. executed' \subseteq [id : Ids, sql : SQL \cup {None}]
        BY <1>2, <2>1 DEF TypeOK, BackendTyped
      <3>2. bPortals' \in [Names -> [stmt : Names, sql : SQL] \cup {None}]
        BY <2>1, NamesAssumption DEF TypeOK, BackendTyped, Empty
      <3> QED BY <2>1, <2>2, <2>3, <3>1, <3>2 DEF TypeOK, BackendTyped
    <2>5. b2p' \in Seq(Response)
      BY <1>2, <2>1, <2>2, AnswersTyped
    <2>6. ServesHead
      BY <2>1 DEF ServesHead, Runs
    <2> QED BY <1>1, <2>4, <2>5, <2>6, ServerStep
  <1>8. CASE BackendSyncs
    <2>1. b2p' \in Seq(Response)
      BY <1>2, <1>8, AnswersTyped DEF BackendSyncs, TypeOK, BackendTyped
    <2>2. BackendTyped'
      BY <1>8 DEF BackendSyncs, TypeOK, BackendTyped, Empty
    <2> QED BY <1>1, <1>8, <2>1, <2>2, ServerStep DEF BackendSyncs
  <1>9. CASE BackendCalls
    <2>1. /\ m.type = "Function" /\ b2p' = b2p \o <<Ok(m), Ready(m, bTx)>>
          /\ executed' = executed \cup {[id |-> m.id, sql |-> None]}
          /\ bPortals' = IF bTx = "I" THEN Empty ELSE bPortals
          /\ UNCHANGED <<bStmts, bTx, bSkip>>
      BY <1>9 DEF BackendCalls
    <2>2. BackendTyped'
      <3>1. executed' \subseteq [id : Ids, sql : SQL \cup {None}]
        BY <1>2, <2>1 DEF TypeOK, BackendTyped
      <3>2. bPortals' \in [Names -> [stmt : Names, sql : SQL] \cup {None}]
        BY <2>1 DEF TypeOK, BackendTyped, Empty
      <3> QED BY <2>1, <3>1, <3>2 DEF TypeOK, BackendTyped
    <2>3. b2p' \in Seq(Response)
      BY <1>2, <2>1, AnswersTyped DEF TypeOK, BackendTyped
    <2>4. ServesHead
      BY <2>1 DEF ServesHead
    <2> QED BY <1>1, <2>2, <2>3, <2>4, ServerStep
  <1>10. CASE BackendTerminates
    <2>1. BackendTyped' /\ UNCHANGED <<b2p, executed>>
      BY <1>10, TypesKept DEF BackendTerminates, backend
    <2> QED BY <1>1, <2>1, ServerStep DEF TypeOK, QueuesTyped
  <1> QED BY <1>3, <1>4, <1>5, <1>6, <1>7, <1>8, <1>9, <1>10 DEF Backend

-----------------------------------------------------------------------------
\* Every step of a session keeps the invariant.
LEMMA NextInv == IInv /\ [Next]_vars => IInv' /\ (UNCHANGED vars \/ GateStep)
  <1> SUFFICES ASSUME IInv, [Next]_vars PROVE IInv' /\ (UNCHANGED vars \/ GateStep)
    OBVIOUS
  <1>1. CASE \E r \in Requests : ClientSend(r)
    BY <1>1, ClientSendInv
  <1>2. CASE ClientTask
    BY <1>2, PassingInv, RegisterInv, JudgingInv, EstimateInv, ConfirmInv, AuditInv
    DEF ClientTask
  <1>3. CASE PipeBackend
    BY <1>3, PipeInv
  <1>4. CASE Backend
    BY <1>4, ServerInv
  <1>5. CASE UNCHANGED vars
    BY <1>5 DEF vars, client, proxy, task, backend, IInv, TypeOK, QueuesTyped, StateTyped,
                TaskTyped, BackendTyped, QueueNumbered, CurrentIsLast, ForwardedIsOlder,
                CurrentIsJudged, OnlyClearedReachServer, Cleared, Undecided, Taken, Left
  <1> QED BY <1>1, <1>2, <1>3, <1>4, <1>5 DEF Next

\* The invariant holds in every behaviour of a session.
LEMMA Invariance == Spec => []IInv
  <1>1. Init => IInv
    BY InitInv
  <1>2. IInv /\ [Next]_vars => IInv'
    BY NextInv
  <1> QED BY <1>1, <1>2, PTL DEF Spec

\* The queues, the session state, the task and the server's state keep their
\* types whatever the client sends and however the tasks interleave.
THEOREM SessionTyped == Spec => []TypeOK
  <1>1. IInv => TypeOK
    BY DEF IInv
  <1> QED BY <1>1, Invariance, PTL

\* No Query or Execute reaches the server, for any client and any server,
\* before its own judgement let it through and was put on the audit path;
\* what cannot be inspected passes in permissive mode only.
THEOREM SessionGate == Spec => []OnlyClearedReachServer
  <1>1. IInv => OnlyClearedReachServer
    BY DEF IInv
  <1> QED BY <1>1, Invariance, PTL

-----------------------------------------------------------------------------
(***************************************************************************)
(* Requests and answers.  What the session writes about a message carries  *)
(* its number, so the places a number can be in tell what was promised for *)
(* it: a message in the server's queue has no ReadyForQuery yet, and one   *)
(* that failed is followed by nothing that runs unless a Sync lies between.*)
(***************************************************************************)
IdsIn(q)      == {q[i].id : i \in 1..Len(q)}
KindIds(q, k) == {q[i].id : i \in {j \in 1..Len(q) : q[j].kind = k}}

\* No two ReadyForQuery are for the same message.
Unique(q) ==
  \A i, j \in 1..Len(q) :
    i # j /\ q[i].kind = "ready" /\ q[j].kind = "ready" => q[i].id # q[j].id

\* Every message on its way is one the client sent, and the server gets them
\* in order.
SentInv ==
  /\ \A i \in 1..Len(sent) : sent[i].id = i
  /\ \A i \in 1..Len(c2p) : c2p[i] = sent[Taken + i]
  /\ pc # "read" => cur[1] = sent[Taken] /\ ~errorPending
  /\ \A i \in 1..Len(p2b) : p2b[i] = sent[p2b[i].id]
  /\ \A i, j \in 1..Len(p2b) : i < j => p2b[i].id < p2b[j].id
  /\ \A e \in executed : \A i \in 1..Len(p2b) : e.id < p2b[i].id

ReadyInv ==
  /\ Unique(delivered) /\ Unique(b2p)
  /\ \A id \in KindIds(delivered, "ready") :
       id <= Left /\ EndsBatch(sent[id]) /\ id \notin KindIds(b2p, "ready") /\ id \notin IdsIn(p2b)
  /\ \A id \in KindIds(b2p, "ready") :
       id <= Left /\ EndsBatch(sent[id]) /\ id \notin IdsIn(p2b)

\* The extended messages that failed, at the proxy or at the server.
Failed == {id \in KindIds(delivered, "err") \cup KindIds(b2p, "err") : ~Alone(sent[id])}

SyncIn(a, b) == \E s \in a..b : sent[s].type = "Sync"

\* The server discards what comes behind the message.
Skipped(d) == bSkip /\ \A i \in 1..Len(p2b) : d < p2b[i].id

\* Behind a failed message the server has run nothing before a Sync, and will
\* not: what waits there has a Sync before it or is discarded, and so will be
\* what the proxy has yet to forward.
Guarded(d) ==
  /\ \A e \in executed : e.id > d => SyncIn(d + 1, e.id - 1)
  /\ \A i \in 1..Len(p2b) :
       p2b[i].id > d => p2b[i].type = "Terminate" \/ SyncIn(d + 1, p2b[i].id) \/ Skipped(d)
  /\ errorPending \/ SyncIn(d + 1, Left) \/ Skipped(d)

RecoveryInv ==
  /\ \A id \in KindIds(delivered, "err") \cup KindIds(b2p, "err") : id <= Left
  /\ \A d \in Failed : Guarded(d)

TrafficInv == SentInv /\ ReadyInv /\ RecoveryInv

-----------------------------------------------------------------------------
(***************************************************************************)
(* What a step does with messages and answers.                             *)
(***************************************************************************)
\* q is p and then answers to message id, a ReadyForQuery being the last.
Extends(p, q, id) ==
  /\ q \in Seq(Response) /\ Len(p) <= Len(q)
  /\ \A i \in 1..Len(p) : q[i] = p[i]
  /\ \A i \in Len(p) + 1..Len(q) : q[i].id = id /\ (q[i].kind = "ready" => i = Len(q))

\* The kinds of the answers added.
Adds(p, q, kind) == \E i \in Len(p) + 1..Len(q) : q[i].kind = kind

Sends ==
  /\ \E m \in Msg : m.id = Len(sent) + 1 /\ sent' = Append(sent, m) /\ c2p' = Append(c2p, m)
  /\ UNCHANGED <<delivered, p2b, b2p, errorPending, pc, cur, bSkip, executed>>

Takes ==
  /\ pc = "read" /\ c2p # <<>> /\ c2p' = Tail(c2p)
  /\ UNCHANGED <<sent, delivered, b2p, bSkip, executed>>
  /\ \/ /\ pc' # "read" /\ cur' = <<Head(c2p)>> /\ ~errorPending
        /\ UNCHANGED <<p2b, errorPending>>
     \/ pc' = "read" /\ errorPending /\ UNCHANGED <<cur, p2b, errorPending>>
     \/ /\ pc' = "read" /\ p2b' = Append(p2b, Head(c2p)) /\ UNCHANGED cur
        /\ Head(c2p).type \in {"Sync", "Terminate"} \/ ~errorPending
        /\ ~errorPending' \/ (errorPending /\ Head(c2p).type = "Terminate")
        /\ errorPending' \/ ~errorPending \/ Head(c2p).type # "Terminate"

Thinks ==
  /\ pc # "read" /\ pc' # "read"
  /\ UNCHANGED <<sent, delivered, c2p, p2b, b2p, cur, errorPending, bSkip, executed>>

Finishes ==
  /\ pc # "read" /\ pc' = "read" /\ UNCHANGED <<sent, c2p, b2p, bSkip, executed>>
  /\ \/ p2b' = Append(p2b, cur[1]) /\ UNCHANGED <<delivered, errorPending>>
     \/ /\ Extends(delivered, delivered', cur[1].id)
        /\ Adds(delivered, delivered', "ready") => cur[1].type = "Query"
        /\ errorPending' = (cur[1].type # "Query")
        /\ UNCHANGED p2b

Relays ==
  /\ b2p # <<>> /\ b2p' = Tail(b2p) /\ delivered' = Append(delivered, Head(b2p))
  /\ UNCHANGED <<sent, c2p, p2b, errorPending, pc, cur, bSkip, executed>>

Serves ==
  /\ p2b # <<>> /\ p2b' = Tail(p2b)
  /\ UNCHANGED <<sent, c2p, delivered, errorPending, pc, cur>>
  /\ Extends(b2p, b2p', Head(p2b).id)
  /\ Adds(b2p, b2p', "ready") => EndsBatch(Head(p2b))
  /\ \/ bSkip /\ bSkip' /\ Head(p2b).type # "Sync" /\ b2p' = b2p /\ UNCHANGED executed
     \/ ~bSkip /\ bSkip' = ~Alone(Head(p2b)) /\ UNCHANGED executed
     \/ /\ ~bSkip /\ ~bSkip' /\ Head(p2b).type # "Sync" /\ ~Adds(b2p, b2p', "err")
        /\ \/ UNCHANGED executed
           \/ /\ Head(p2b).type # "Terminate"
              /\ \E s : executed' = executed \cup {[id |-> Head(p2b).id, sql |-> s]}
     \/ ~bSkip' /\ Head(p2b).type = "Sync" /\ ~Adds(b2p, b2p', "err") /\ UNCHANGED executed

Traffic == Sends \/ Takes \/ Thinks \/ Finishes \/ Relays \/ Serves

\* Answers behind others.
LEMMA ExtendsOne ==
  ASSUME NEW p \in Seq(Response), NEW r \in Response
  PROVE  /\ Extends(p, Append(p, r), r.id)
         /\ \A k : Adds(p, Append(p, r), k) => r.kind = k
  <1> DEFINE q == Append(p, r)
  <1>1. /\ q \in Seq(Response) /\ Len(q) = Len(p) + 1 /\ Len(p) \in Nat
        /\ \A i \in 1..Len(p) : q[i] = p[i]
        /\ q[Len(p) + 1] = r
    BY AppendFacts
  <1> HIDE DEF q
  <1>2. \A i \in Len(p) + 1..Len(q) : i = Len(q) /\ q[i] = r
    BY <1>1
  <1>3. Len(p) <= Len(q)
    BY <1>1
  <1>4. Extends(p, q, r.id) /\ \A k : Adds(p, q, k) => r.kind = k
    BY <1>1, <1>2, <1>3 DEF Extends, Adds
  <1> QED BY <1>4 DEF q

\* Two responses to one request are added.
LEMMA ExtendsTwo ==
  ASSUME NEW p \in Seq(Response), NEW r \in Response, NEW s \in Response,
         r.kind # "ready", s.id = r.id
  PROVE  /\ Extends(p, p \o <<r, s>>, r.id)
         /\ \A k : Adds(p, p \o <<r, s>>, k) => r.kind = k \/ s.kind = k
  <1> DEFINE t == <<r, s>>
             q == p \o t
  <1>1. t \in Seq(Response) /\ Len(t) = 2 /\ t[1] = r /\ t[2] = s
    OBVIOUS
  <1> HIDE DEF t
  <1>2. /\ q \in Seq(Response) /\ Len(q) = Len(p) + 2 /\ Len(p) \in Nat
        /\ \A i \in 1..Len(p) : q[i] = p[i]
        /\ \A i \in Len(p) + 1..Len(p) + 2 : q[i] = t[i - Len(p)]
    <2>1. /\ q \in Seq(Response) /\ Len(q) = Len(p) + Len(t) /\ Len(p) \in Nat
          /\ \A i \in 1..Len(p) : q[i] = p[i]
          /\ \A i \in Len(p) + 1..Len(p) + Len(t) : q[i] = t[i - Len(p)]
      BY <1>1, ConcatFacts, Zenon
    <2> HIDE DEF q
    <2> QED BY <1>1, <2>1
  <1> HIDE DEF q
  <1>3. \A i \in Len(p) + 1..Len(q) : q[i] = r \/ (q[i] = s /\ i = Len(q))
    BY <1>1, <1>2
  <1>4. Len(p) <= Len(q)
    BY <1>2
  <1>5. Extends(p, q, r.id) /\ \A k : Adds(p, q, k) => r.kind = k \/ s.kind = k
    BY <1>2, <1>3, <1>4 DEF Extends, Adds
  <1> QED BY <1>5 DEF q, t

\* Nothing is added.
LEMMA ExtendsNone ==
  ASSUME NEW p \in Seq(Response), NEW id
  PROVE  Extends(p, p, id) /\ \A k : ~Adds(p, p, k)
  <1>1. Len(p) \in Nat
    OBVIOUS
  <1> QED BY <1>1 DEF Extends, Adds

\* One answer as the model writes it in a sequence of its own.
LEMMA ConcatOne ==
  ASSUME NEW S, NEW p \in Seq(S), NEW r \in S
  PROVE  p \o <<r>> = Append(p, r)
  OBVIOUS

\* Taking a message: every handler drops, forwards or holds it.
LEMMA TaskIsTraffic ==
  ASSUME IInv, ClientTask
  PROVE  Takes \/ Thinks \/ Finishes
  <1> USE DEF IInv
  <1> DEFINE m == Head(c2p)
  <1>1. CASE SkipUntilSync \/ SyncAfterError \/ TerminateAfterError \/ HandleOther
    <2>1. /\ pc = "read" /\ c2p # <<>> /\ c2p' = Tail(c2p)
          /\ UNCHANGED <<sent, delivered, b2p, bSkip, executed, pc, cur>>
      BY <1>1 DEF SkipUntilSync, SyncAfterError, TerminateAfterError, HandleOther, Reading, Take,
                  client, task, backend
    <2>2. \/ errorPending /\ UNCHANGED <<p2b, errorPending>>
          \/ /\ p2b' = Append(p2b, m)
             /\ m.type \in {"Sync", "Terminate"} \/ ~errorPending
             /\ ~errorPending' \/ (errorPending /\ m.type = "Terminate")
             /\ errorPending' \/ ~errorPending \/ m.type # "Terminate"
      BY <1>1 DEF SkipUntilSync, SyncAfterError, TerminateAfterError, HandleOther, Reading, proxy
    <2> QED BY <2>1, <2>2 DEF Takes
  <1>2. CASE HandleMalformed \/ HandleSimpleQuery \/ HandleParse \/ HandleBind \/ HandleClose \/ HandleExecute
    <2>1. /\ pc = "read" /\ c2p # <<>> /\ c2p' = Tail(c2p) /\ ~errorPending
          /\ UNCHANGED <<sent, delivered, b2p, bSkip, executed, errorPending>>
      BY <1>2 DEF HandleMalformed, HandleSimpleQuery, HandleParse, HandleBind, HandleClose,
                  HandleExecute, Reading, Take, client, proxy, backend
    <2>2. ASSUME ProtocolGap(m) \/ \E sql, rows, err : EvaluateAndDecide(m, sql, rows, err)
          PROVE  pc' # "read" /\ cur' = <<m>>
      BY <2>2 DEF ProtocolGap, EvaluateAndDecide
    <2>3. ASSUME NEW sql, Inspect(m, sql)
          PROVE  \/ pc' # "read" /\ cur' = <<m>> /\ UNCHANGED p2b
                 \/ UNCHANGED <<pc, cur>> /\ p2b' = Append(p2b, m)
      BY <2>2, <2>3 DEF Inspect
    <2>4. \/ pc' # "read" /\ cur' = <<m>> /\ UNCHANGED p2b
          \/ UNCHANGED <<pc, cur>> /\ p2b' = Append(p2b, m)
      <3>1. CASE HandleMalformed
        BY <2>2, <3>1 DEF HandleMalformed
      <3>2. CASE HandleSimpleQuery
        BY <2>3, <3>2 DEF HandleSimpleQuery
      <3>3. CASE HandleParse
        BY <2>2, <3>3 DEF HandleParse, task
      <3>4. CASE HandleBind
        BY <2>2, <3>4 DEF HandleBind, task
      <3>5. CASE HandleClose
        BY <3>5 DEF HandleClose, task
      <3>6. CASE HandleExecute
        BY <2>2, <2>3, <3>6 DEF HandleExecute
      <3> QED BY <1>2, <3>1, <3>2, <3>3, <3>4, <3>5, <3>6
    <2> QED BY <2>1, <2>4 DEF Takes
  <1>3. CASE EstimateDone \/ UserDecides
    <2>1. pc # "read" /\ cur = <<cur[1]>>
      BY <1>3, CurrentTyped DEF EstimateDone, UserDecides
    <2>2. pc' # "read" /\ cur' = cur
      BY <1>3, <2>1 DEF EstimateDone, UserDecides, EvaluateAndDecide
    <2>3. UNCHANGED <<sent, delivered, c2p, p2b, b2p, errorPending, bSkip, executed>>
      BY <1>3 DEF EstimateDone, UserDecides, client, proxy, backend
    <2> QED BY <2>1, <2>2, <2>3 DEF Thinks
  <1>4. CASE AuditWritten
    <2> DEFINE c == cur[1]
    <2>1. c \in Msg
      BY <1>4, CurrentTyped DEF AuditWritten
    <2>2. /\ pc # "read" /\ pc' = "read" /\ UNCHANGED <<sent, c2p, b2p, bSkip, executed>>
          /\ \/ p2b' = Append(p2b, c) /\ UNCHANGED <<delivered, errorPending>>
             \/ /\ delivered' = delivered \o Refusal(c)
                /\ errorPending' = (c.type # "Query")
                /\ UNCHANGED p2b
      BY <1>4 DEF AuditWritten, StartsRecovery, client, backend
    <2> HIDE DEF c
    <2>3. delivered \in Seq(Response) /\ Err(c) \in Response /\ Ready(c, txStatus) \in Response
      BY <2>1, AnswersTyped DEF TypeOK, QueuesTyped, StateTyped
    <2>4. /\ Extends(delivered, delivered \o Refusal(c), c.id)
          /\ Adds(delivered, delivered \o Refusal(c), "ready") => c.type = "Query"
      <3>0. /\ Err(c).kind = "err" /\ Err(c).id = c.id
            /\ Ready(c, txStatus).kind = "ready" /\ Ready(c, txStatus).id = c.id
        BY DEF Err, Ready
      <3>1. CASE c.type = "Query"
        <4>1. Refusal(c) = <<Err(c), Ready(c, txStatus)>>
          BY <3>1 DEF Refusal
        <4>2. Extends(delivered, delivered \o <<Err(c), Ready(c, txStatus)>>, Err(c).id)
          BY <2>3, <3>0, ExtendsTwo
        <4> QED BY <3>0, <3>1, <4>1, <4>2
      <3>2. CASE c.type # "Query"
        <4>1. Refusal(c) = <<Err(c)>>
          BY <3>2 DEF Refusal
        <4>2. delivered \o Refusal(c) = Append(delivered, Err(c))
          BY <2>3, <4>1, ConcatOne
        <4>3. /\ Extends(delivered, Append(delivered, Err(c)), Err(c).id)
              /\ ~Adds(delivered, Append(delivered, Err(c)), "ready")
          BY <2>3, <3>0, ExtendsOne
        <4> QED BY <3>0, <4>2, <4>3
      <3> QED BY <3>1, <3>2
    <2> QED BY <2>2, <2>4 DEF Finishes, c
  <1> QED BY <1>1, <1>2, <1>3, <1>4 DEF ClientTask

\* The server's answer to a message.
LEMMA ServerIsTraffic ==
  ASSUME IInv, Backend
  PROVE  Serves
  <1> USE DEF IInv
  <1> DEFINE m == Head(p2b)
  <1>1. /\ p2b # <<>> /\ p2b' = Tail(p2b)
        /\ UNCHANGED <<sent, c2p, delivered, errorPending, pc, cur>>
    BY DEF Backend, BackendSkips, BackendRejects, BackendPrepares, BackendExecutes,
           BackendQueries, BackendSyncs, BackendCalls, BackendTerminates, Receive,
           client, proxy, task
  <1>2. m \in Msg /\ b2p \in Seq(Response) /\ bSkip \in BOOLEAN /\ bTx \in TxStatus
    BY <1>1, TailFacts DEF TypeOK, QueuesTyped, BackendTyped
  <1>3. ASSUME NEW tx \in TxStatus
        PROVE  /\ Ok(m) \in Response /\ Err(m) \in Response /\ Ready(m, tx) \in Response
               /\ Ok(m).kind = "ok" /\ Ok(m).id = m.id /\ Err(m).kind = "err" /\ Err(m).id = m.id
               /\ Ready(m, tx).kind = "ready" /\ Ready(m, tx).id = m.id
    <2>1. Ok(m) \in Response /\ Err(m) \in Response /\ Ready(m, tx) \in Response
      BY <1>2, AnswersTyped
    <2> QED BY <2>1 DEF Ok, Err, Ready
  <1>4. CASE BackendSkips
    <2>1. bSkip /\ bSkip' /\ m.type # "Sync" /\ b2p' = b2p /\ UNCHANGED executed
      BY <1>4 DEF BackendSkips, backend
    <2>2. Extends(b2p, b2p, m.id) /\ ~Adds(b2p, b2p, "ready")
      BY <1>2, ExtendsNone
    <2> QED BY <1>1, <2>1, <2>2 DEF Serves
  <1>5. CASE BackendRejects
    <2> DEFINE tx == IF bTx = "I" THEN "I" ELSE "E"
    <2>1. tx \in TxStatus
      BY DEF TxStatus
    <2>2. /\ ~bSkip /\ bSkip' = ~Alone(m) /\ UNCHANGED executed
          /\ b2p' = b2p \o (IF Alone(m) THEN <<Err(m), Ready(m, tx)>> ELSE <<Err(m)>>)
      BY <1>5 DEF BackendRejects
    <2> HIDE DEF tx, m
    <2>3. Extends(b2p, b2p', m.id) /\ (Adds(b2p, b2p', "ready") => EndsBatch(m))
      <3>1. CASE Alone(m)
        <4>1. b2p' = b2p \o <<Err(m), Ready(m, tx)>>
          BY <2>2, <3>1
        <4>2. Extends(b2p, b2p \o <<Err(m), Ready(m, tx)>>, Err(m).id)
          BY <1>2, <1>3, <2>1, ExtendsTwo
        <4>3. EndsBatch(m)
          BY <3>1 DEF EndsBatch
        <4> QED BY <1>3, <2>1, <4>1, <4>2, <4>3
      <3>2. CASE ~Alone(m)
        <4>1. b2p' = Append(b2p, Err(m))
          BY <1>2, <1>3, <2>1, <2>2, <3>2, ConcatOne
        <4>2. Extends(b2p, Append(b2p, Err(m)), Err(m).id) /\ ~Adds(b2p, Append(b2p, Err(m)), "ready")
          BY <1>2, <1>3, <2>1, ExtendsOne
        <4> QED BY <1>3, <2>1, <4>1, <4>2
      <3> QED BY <3>1, <3>2
    <2> QED BY <1>1, <2>2, <2>3 DEF Serves, m
  <1>6. CASE BackendPrepares \/ BackendExecutes
    <2>1. /\ ~bSkip /\ bSkip' = bSkip /\ m.type \notin {"Sync", "Terminate"}
          /\ b2p' = Append(b2p, Ok(m))
          /\ \/ UNCHANGED executed
             \/ \E s : executed' = executed \cup {[id |-> m.id, sql |-> s]}
      BY <1>6 DEF BackendPrepares, BackendExecutes
    <2>2. "I" \in TxStatus
      BY DEF TxStatus
    <2> HIDE DEF m
    <2>3. /\ Extends(b2p, Append(b2p, Ok(m)), Ok(m).id)
          /\ ~Adds(b2p, Append(b2p, Ok(m)), "ready") /\ ~Adds(b2p, Append(b2p, Ok(m)), "err")
      BY <1>2, <1>3, <2>2, ExtendsOne
    <2>4. Extends(b2p, b2p', m.id) /\ ~Adds(b2p, b2p', "ready") /\ ~Adds(b2p, b2p', "err")
      BY <1>3, <2>1, <2>2, <2>3
    <2> QED BY <1>1, <2>1, <2>4 DEF Serves, m
  <1>7. CASE BackendQueries \/ BackendCalls
    <2>1. \E tx \in TxStatus : b2p' = b2p \o <<Ok(m), Ready(m, tx)>>
      BY <1>2, <1>7, TxAssumption DEF BackendQueries, BackendCalls, TxAfter, TxStatus, Msg
    <2>2. PICK tx \in TxStatus : b2p' = b2p \o <<Ok(m), Ready(m, tx)>>
      BY <2>1
    <2>5. /\ ~bSkip /\ bSkip' = bSkip /\ m.type \in {"Query", "Function"}
          /\ \E s : executed' = executed \cup {[id |-> m.id, sql |-> s]}
      BY <1>7 DEF BackendQueries, BackendCalls
    <2> HIDE DEF m
    <2>3. /\ Extends(b2p, b2p \o <<Ok(m), Ready(m, tx)>>, Ok(m).id)
          /\ ~Adds(b2p, b2p \o <<Ok(m), Ready(m, tx)>>, "err")
      BY <1>2, <1>3, <2>2, ExtendsTwo
    <2>4. Extends(b2p, b2p', m.id) /\ ~Adds(b2p, b2p', "err") /\ EndsBatch(m)
      BY <1>3, <2>2, <2>3, <2>5 DEF EndsBatch, Alone
    <2> QED BY <1>1, <2>4, <2>5 DEF Serves, m
  <1>8. CASE BackendSyncs
    <2>1. ~bSkip' /\ m.type = "Sync" /\ UNCHANGED executed /\ b2p' = Append(b2p, Ready(m, bTx))
      BY <1>8 DEF BackendSyncs
    <2> HIDE DEF m
    <2>2. /\ Extends(b2p, Append(b2p, Ready(m, bTx)), Ready(m, bTx).id)
          /\ ~Adds(b2p, Append(b2p, Ready(m, bTx)), "err")
      BY <1>2, <1>3, ExtendsOne
    <2>3. Extends(b2p, b2p', m.id) /\ ~Adds(b2p, b2p', "err") /\ EndsBatch(m)
      BY <1>2, <1>3, <2>1, <2>2 DEF EndsBatch
    <2> QED BY <1>1, <2>1, <2>3 DEF Serves, m
  <1>9. CASE BackendTerminates
    <2>1. UNCHANGED <<bSkip, b2p, executed>> /\ m.type = "Terminate"
      BY <1>9 DEF BackendTerminates, backend
    <2>2. Extends(b2p, b2p', m.id) /\ ~Adds(b2p, b2p', "ready") /\ ~Adds(b2p, b2p', "err")
      BY <1>2, <2>1, ExtendsNone
    <2> HIDE DEF m
    <2> QED BY <1>1, <1>2, <2>1, <2>2 DEF Serves, m
  <1> QED BY <1>4, <1>5, <1>6, <1>7, <1>8, <1>9 DEF Backend

\* Every step is of one of these kinds.
LEMMA StepIsTraffic ==
  ASSUME IInv, Next
  PROVE  Traffic
  <1>1. CASE \E r \in Requests : ClientSend(r)
    <2>1. PICK r \in Requests : ClientSend(r)
      BY <1>1
    <2> DEFINE m == Number(r, Len(sent) + 1)
    <2>2. sent' = Append(sent, m) /\ c2p' = Append(c2p, m) /\ m.id = Len(sent) + 1
      BY <2>1 DEF ClientSend, Number
    <2>3. Len(sent) + 1 \in Ids
      BY <2>1, BoundAssumption DEF ClientSend, Ids, IInv, TypeOK, QueuesTyped
    <2>4. m \in Msg
      BY <2>3, RequestsAssumption DEF Number, Msg, Request
    <2>5. UNCHANGED <<delivered, p2b, b2p, errorPending, pc, cur, bSkip, executed>>
      BY <2>1 DEF ClientSend, proxy, task, backend
    <2> QED BY <2>2, <2>4, <2>5 DEF Traffic, Sends
  <1>2. CASE PipeBackend
    BY <1>2 DEF PipeBackend, Traffic, Relays, client, task, backend
  <1> QED BY <1>1, <1>2, TaskIsTraffic, ServerIsTraffic DEF Next, Traffic

-----------------------------------------------------------------------------
(***************************************************************************)
(* The messages on their way.                                              *)
(***************************************************************************)
\* The numbers of the messages taken and done with.
LEMMA Counts ==
  ASSUME IInv
  PROVE  /\ Len(sent) \in Nat /\ Len(c2p) \in Nat /\ Len(p2b) \in Nat
         /\ Taken \in Nat /\ Left \in Nat /\ Left <= Taken /\ Taken <= Len(sent)
         /\ pc = "read" => Left = Taken
         /\ pc # "read" => Left = Taken - 1 /\ cur[1] \in Msg /\ cur[1].id = Taken /\ Taken \in Ids
         /\ \A i \in 1..Len(p2b) : p2b[i] \in Msg /\ p2b[i].id \in 1..Left
         /\ \A e \in executed : e.id \in 1..Left
  <1>1. sent \in Seq(Msg) /\ c2p \in Seq(Msg) /\ p2b \in Seq(Msg) /\ executed \subseteq [id : Ids, sql : SQL \cup {None}]
    BY DEF IInv, TypeOK, QueuesTyped, BackendTyped
  <1>2. Len(sent) \in Nat /\ Len(c2p) \in Nat /\ Len(p2b) \in Nat /\ Len(c2p) <= Len(sent)
    BY <1>1 DEF IInv, QueueNumbered
  <1>3. Taken \in Nat /\ Taken <= Len(sent)
    BY <1>2 DEF Taken
  <1>4. pc # "read" => cur[1] \in Msg /\ cur[1].id = Taken /\ Taken \in Ids
    BY CurrentTyped DEF IInv, CurrentIsLast
  <1>5. Left \in Nat /\ Left <= Taken /\ (pc = "read" => Left = Taken) /\ (pc # "read" => Left = Taken - 1)
    BY <1>3, <1>4, BoundAssumption DEF Left, Ids
  <1>6. ASSUME NEW i \in 1..Len(p2b) PROVE p2b[i] \in Msg /\ p2b[i].id \in 1..Left
    <2>1. p2b[i] \in Msg
      BY <1>1
    <2>2. p2b[i].id \in Ids /\ p2b[i].id <= Left
      BY <2>1 DEF IInv, ForwardedIsOlder, Msg
    <2> QED BY <1>5, <2>1, <2>2, BoundAssumption DEF Ids
  <1>7. ASSUME NEW e \in executed PROVE e.id \in 1..Left
    <2>1. e.id \in Ids /\ e.id <= Left
      BY <1>1 DEF IInv, ForwardedIsOlder
    <2> QED BY <1>5, <2>1, BoundAssumption DEF Ids
  <1> QED BY <1>2, <1>3, <1>4, <1>5, <1>6, <1>7

\* The messages behind the proxy, and those at its server.
ServerQueue(q, w) ==
  /\ \A i \in 1..Len(q) : q[i] = w[q[i].id]
  /\ \A i, j \in 1..Len(q) : i < j => q[i].id < q[j].id

\* The message that leaves the task is the next one of the client.
Forwards(m) == m \in Msg /\ m = sent[m.id] /\ m.id = Left + 1 /\ p2b' = Append(p2b, m)

\* The server's queue stays in order behind a message that leaves the task.
LEMMA ForwardQueue ==
  ASSUME IInv, SentInv, NEW m, Forwards(m), UNCHANGED <<sent, executed>>
  PROVE  /\ ServerQueue(p2b', sent')
         /\ \A e \in executed' : \A i \in 1..Len(p2b') : e.id < p2b'[i].id
  <1>1. /\ Len(p2b) \in Nat /\ Left \in Nat
        /\ \A i \in 1..Len(p2b) : p2b[i] \in Msg /\ p2b[i].id \in 1..Left
        /\ \A e \in executed : e.id \in 1..Left
    BY Counts
  <1>2. /\ Len(p2b') = Len(p2b) + 1 /\ p2b'[Len(p2b) + 1] = m
        /\ \A i \in 1..Len(p2b) : p2b'[i] = p2b[i]
    BY AppendFacts DEF Forwards, IInv, TypeOK, QueuesTyped
  <1>3. m.id = Left + 1 /\ m = sent[m.id]
    BY DEF Forwards
  <1>4. \A i \in 1..Len(p2b') : i = Len(p2b) + 1 \/ i \in 1..Len(p2b)
    BY <1>1, <1>2
  <1>5. ASSUME NEW i \in 1..Len(p2b') PROVE p2b'[i] = sent[p2b'[i].id]
    BY <1>2, <1>3, <1>4 DEF SentInv
  <1>6. ASSUME NEW i \in 1..Len(p2b'), NEW j \in 1..Len(p2b'), i < j
        PROVE  p2b'[i].id < p2b'[j].id
    <2>1. i \in 1..Len(p2b) /\ p2b'[i] = p2b[i] /\ p2b[i].id \in 1..Left
      BY <1>1, <1>2, <1>6
    <2>2. CASE j = Len(p2b) + 1
      BY <1>1, <1>2, <1>3, <2>1, <2>2
    <2>3. CASE j \in 1..Len(p2b)
      BY <1>2, <1>6, <2>1, <2>3 DEF SentInv
    <2> QED BY <1>4, <2>2, <2>3
  <1>7. ASSUME NEW e \in executed, NEW i \in 1..Len(p2b') PROVE e.id < p2b'[i].id
    <2>1. CASE i = Len(p2b) + 1
      BY <1>1, <1>2, <1>3, <2>1
    <2>2. CASE i \in 1..Len(p2b)
      BY <1>2, <2>2 DEF SentInv
    <2> QED BY <1>4, <2>1, <2>2
  <1> QED BY <1>5, <1>6, <1>7 DEF ServerQueue

\* The message a task takes or finishes is the next one.
LEMMA NextMessage ==
  ASSUME IInv, SentInv
  PROVE  /\ pc = "read" /\ c2p # <<>> =>
              Head(c2p) \in Msg /\ Head(c2p) = sent[Head(c2p).id] /\ Head(c2p).id = Left + 1
         /\ pc # "read" =>
              cur[1] \in Msg /\ cur[1] = sent[cur[1].id] /\ cur[1].id = Left + 1 /\ ~errorPending
  <1>1. ASSUME pc = "read", c2p # <<>>
        PROVE  Head(c2p) \in Msg /\ Head(c2p) = sent[Head(c2p).id] /\ Head(c2p).id = Left + 1
    <2>1. Head(c2p) \in Msg /\ Head(c2p) = c2p[1] /\ Len(c2p) \in Nat \ {0}
      BY <1>1, TailFacts DEF IInv, TypeOK, QueuesTyped
    <2>2. 1 \in 1..Len(c2p)
      BY <2>1
    <2>3. c2p[1].id = Taken + 1 /\ c2p[1] = sent[Taken + 1] /\ Left = Taken
      BY <1>1, <2>2, Counts DEF IInv, QueueNumbered, SentInv
    <2> QED BY <2>1, <2>3
  <1>2. ASSUME pc # "read"
        PROVE  cur[1] \in Msg /\ cur[1] = sent[cur[1].id] /\ cur[1].id = Left + 1 /\ ~errorPending
    <2>1. cur[1] \in Msg /\ cur[1].id = Taken /\ Taken \in Nat /\ Left = Taken - 1
      BY <1>2, Counts
    <2>2. cur[1] = sent[Taken] /\ ~errorPending
      BY <1>2 DEF SentInv
    <2> QED BY <2>1, <2>2
  <1> QED BY <1>1, <1>2

\* Every step keeps the messages those of the client, in its order.
LEMMA SentNext ==
  ASSUME IInv, SentInv, Traffic
  PROVE  SentInv'
  <1>0. /\ Len(sent) \in Nat /\ Len(c2p) \in Nat /\ Len(p2b) \in Nat
        /\ Taken \in Nat /\ Left \in Nat /\ Left <= Taken /\ Taken <= Len(sent)
        /\ pc # "read" => Taken \in Ids
        /\ \A i \in 1..Len(p2b) : p2b[i] \in Msg /\ p2b[i].id \in 1..Left
        /\ \A e \in executed : e.id \in 1..Left
    BY Counts
  <1>1. CASE Sends
    <2>1. PICK m \in Msg : m.id = Len(sent) + 1 /\ sent' = Append(sent, m) /\ c2p' = Append(c2p, m)
      BY <1>1 DEF Sends
    <2>2. UNCHANGED <<p2b, errorPending, pc, cur, executed>>
      BY <1>1 DEF Sends
    <2>3. /\ Len(sent') = Len(sent) + 1 /\ sent'[Len(sent) + 1] = m
          /\ \A i \in 1..Len(sent) : sent'[i] = sent[i]
          /\ Len(c2p') = Len(c2p) + 1 /\ c2p'[Len(c2p) + 1] = m
          /\ \A i \in 1..Len(c2p) : c2p'[i] = c2p[i]
      BY <2>1, AppendFacts DEF IInv, TypeOK, QueuesTyped
    <2>4. Taken' = Taken /\ Taken + Len(c2p) = Len(sent)
      BY <1>0, <2>3 DEF Taken
    <2>5. \A i \in 1..Len(sent') : sent'[i].id = i
      BY <1>0, <2>1, <2>3 DEF SentInv
    <2>6. ASSUME NEW i \in 1..Len(c2p') PROVE c2p'[i] = sent'[Taken' + i]
      <3>1. CASE i = Len(c2p) + 1
        <4>0. Taken \in Nat /\ Len(c2p) \in Nat /\ Len(sent) \in Nat
          BY <1>0
        <4>1. Taken + i = Len(sent) + 1
          BY ONLY <2>4, <3>1, <4>0
        <4> QED BY <2>3, <2>4, <3>1, <4>1
      <3>2. CASE i \in 1..Len(c2p)
        <4>1. Taken + i \in 1..Len(sent)
          BY <1>0, <2>4, <3>2
        <4> QED BY <2>3, <2>4, <3>2, <4>1 DEF SentInv
      <3> QED BY <1>0, <2>3, <3>1, <3>2
    <2>7. pc' # "read" => cur'[1] = sent'[Taken'] /\ ~errorPending'
      <3>1. pc # "read" => Taken \in 1..Len(sent)
        BY <1>0, BoundAssumption DEF Ids
      <3> QED BY <2>2, <2>3, <2>4, <3>1 DEF SentInv
    <2>8. \A i \in 1..Len(p2b) : p2b[i] = sent'[p2b[i].id]
      <3>1. \A i \in 1..Len(p2b) : p2b[i].id \in 1..Len(sent)
        BY <1>0
      <3> QED BY <2>3, <3>1 DEF SentInv
    <2> QED BY <2>2, <2>5, <2>6, <2>7, <2>8 DEF SentInv
  <1>2. CASE Takes
    <2>1. /\ pc = "read" /\ c2p # <<>> /\ c2p' = Tail(c2p) /\ UNCHANGED <<sent, executed>>
      BY <1>2 DEF Takes
    <2>2. /\ Len(c2p) # 0 /\ Len(c2p') = Len(c2p) - 1
          /\ \A i \in 1..Len(c2p) - 1 : c2p'[i] = c2p[i + 1]
      BY <2>1, TailFacts DEF IInv, TypeOK, QueuesTyped
    <2>3. Taken' = Taken + 1
      BY <1>0, <2>1, <2>2 DEF Taken
    <2>4. ASSUME NEW i \in 1..Len(c2p') PROVE c2p'[i] = sent'[Taken' + i]
      <3>1. i + 1 \in 1..Len(c2p) /\ i \in 1..Len(c2p) - 1 /\ Taken + (i + 1) = Taken' + i
        BY <1>0, <2>2, <2>3
      <3> QED BY <2>1, <2>2, <3>1 DEF SentInv
    <2>m. PICK m : m = Head(c2p)
      OBVIOUS
    <2>5. m \in Msg /\ m = sent[m.id] /\ m.id = Left + 1 /\ Left = Taken
      BY <2>m, <2>1, NextMessage, Counts
    <2>6. pc' # "read" => cur'[1] = sent'[Taken'] /\ ~errorPending'
      <3>1. pc' # "read" => cur' = <<m>> /\ ~errorPending'
        BY <1>2, <2>m DEF Takes
      <3> QED BY <2>1, <2>3, <2>5, <3>1
    <2>7. /\ ServerQueue(p2b', sent')
          /\ \A e \in executed' : \A i \in 1..Len(p2b') : e.id < p2b'[i].id
      <3>1. CASE UNCHANGED p2b
        BY <2>1, <3>1 DEF ServerQueue, SentInv
      <3>2. CASE p2b' = Append(p2b, m)
        <4>1. Forwards(m)
          BY <2>5, <3>2 DEF Forwards
        <4> QED BY <2>1, <4>1, ForwardQueue
      <3> QED BY <1>2, <2>m, <3>1, <3>2 DEF Takes
    <2> QED BY <2>1, <2>4, <2>6, <2>7 DEF SentInv, ServerQueue
  <1>3. CASE Thinks
    <2>1. Taken' = Taken
      BY <1>3 DEF Thinks, Taken
    <2> QED BY <1>3, <2>1 DEF Thinks, SentInv
  <1>4. CASE Finishes
    <2>1. pc # "read" /\ pc' = "read" /\ UNCHANGED <<sent, c2p, executed>> /\ Taken' = Taken
      BY <1>4 DEF Finishes, Taken
    <2>m. PICK m : m = cur[1]
      OBVIOUS
    <2>2. m \in Msg /\ m = sent[m.id] /\ m.id = Left + 1
      BY <2>m, <2>1, NextMessage
    <2>3. /\ ServerQueue(p2b', sent')
          /\ \A e \in executed' : \A i \in 1..Len(p2b') : e.id < p2b'[i].id
      <3>1. CASE UNCHANGED p2b
        BY <2>1, <3>1 DEF ServerQueue, SentInv
      <3>2. CASE p2b' = Append(p2b, m)
        <4>1. Forwards(m)
          BY <2>2, <3>2 DEF Forwards
        <4> QED BY <2>1, <4>1, ForwardQueue
      <3> QED BY <1>4, <2>m, <3>1, <3>2 DEF Finishes
    <2> QED BY <2>1, <2>3 DEF SentInv, ServerQueue
  <1>5. CASE Relays
    <2>1. Taken' = Taken
      BY <1>5 DEF Relays, Taken
    <2> QED BY <1>5, <2>1 DEF Relays, SentInv
  <1>6. CASE Serves
    <2>1. p2b # <<>> /\ p2b' = Tail(p2b) /\ UNCHANGED <<sent, c2p, errorPending, pc, cur>> /\ Taken' = Taken
      BY <1>6 DEF Serves, Taken
    <2>2. /\ Len(p2b) # 0 /\ Len(p2b') = Len(p2b) - 1 /\ Head(p2b) = p2b[1]
          /\ \A i \in 1..Len(p2b) - 1 : p2b'[i] = p2b[i + 1]
      BY <2>1, TailFacts DEF IInv, TypeOK, QueuesTyped
    <2>3. ASSUME NEW i \in 1..Len(p2b')
          PROVE  /\ p2b'[i] = sent[p2b'[i].id] /\ p2b[1].id < p2b'[i].id
                 /\ \A e \in executed : e.id < p2b'[i].id
                 /\ \A j \in 1..Len(p2b') : i < j => p2b'[i].id < p2b'[j].id
      <3>1. i + 1 \in 1..Len(p2b) /\ i \in 1..Len(p2b) - 1 /\ 1 \in 1..Len(p2b) /\ 1 < i + 1
        BY <1>0, <2>2
      <3>2. p2b'[i] = p2b[i + 1]
        BY <2>2, <3>1
      <3>3. ASSUME NEW j \in 1..Len(p2b'), i < j PROVE p2b'[i].id < p2b'[j].id
        <4>1. j + 1 \in 1..Len(p2b) /\ j \in 1..Len(p2b) - 1 /\ i + 1 < j + 1
          BY <1>0, <2>2, <3>3
        <4>2. p2b'[j] = p2b[j + 1]
          BY <2>2, <4>1
        <4> QED BY <3>1, <3>2, <4>1, <4>2 DEF SentInv
      <3> QED BY <3>1, <3>2, <3>3 DEF SentInv
    <2>4. ASSUME NEW e \in executed', NEW i \in 1..Len(p2b') PROVE e.id < p2b'[i].id
      <3>1. e \in executed \/ e.id = p2b[1].id
        BY <1>6, <2>2 DEF Serves
      <3> QED BY <2>3, <3>1
    <2> QED BY <2>1, <2>3, <2>4 DEF SentInv
  <1> QED BY <1>1, <1>2, <1>3, <1>4, <1>5, <1>6 DEF Traffic


-----------------------------------------------------------------------------
(***************************************************************************)
(* The answers.                                                            *)
(***************************************************************************)
\* The numbers of the answers of a kind when answers to one message are added.
LEMMA KindExtends ==
  ASSUME NEW p \in Seq(Response), NEW q, NEW id, Extends(p, q, id)
  PROVE  /\ \A k : KindIds(p, k) \subseteq KindIds(q, k) /\ KindIds(q, k) \subseteq KindIds(p, k) \cup {id}
         /\ \A k : ~Adds(p, q, k) => KindIds(q, k) = KindIds(p, k)
         /\ Unique(p) /\ (Adds(p, q, "ready") => id \notin KindIds(p, "ready")) => Unique(q)
  <1>1. /\ Len(p) \in Nat /\ Len(q) \in Nat /\ Len(p) <= Len(q)
        /\ \A i \in 1..Len(p) : q[i] = p[i]
        /\ \A i \in Len(p) + 1..Len(q) : q[i].id = id /\ (q[i].kind = "ready" => i = Len(q))
    BY DEF Extends
  <1>2. \A i \in 1..Len(q) : i \in 1..Len(p) \/ i \in Len(p) + 1..Len(q)
    BY <1>1
  <1>3. \A i \in 1..Len(p) : i \in 1..Len(q)
    BY <1>1
  <1>4. ASSUME NEW k PROVE KindIds(p, k) \subseteq KindIds(q, k)
    BY <1>1, <1>3 DEF KindIds
  <1>5. ASSUME NEW k, NEW x \in KindIds(q, k) PROVE x \in KindIds(p, k) \/ (x = id /\ Adds(p, q, k))
    <2>1. PICK i \in 1..Len(q) : q[i].kind = k /\ x = q[i].id
      BY DEF KindIds
    <2>2. CASE i \in 1..Len(p)
      BY <1>1, <2>1, <2>2 DEF KindIds
    <2>3. CASE i \in Len(p) + 1..Len(q)
      BY <1>1, <2>1, <2>3 DEF Adds
    <2> QED BY <1>2, <2>2, <2>3
  <1>6. ASSUME Unique(p), Adds(p, q, "ready") => id \notin KindIds(p, "ready"),
               NEW i \in 1..Len(q), NEW j \in 1..Len(q), i # j, q[i].kind = "ready", q[j].kind = "ready"
        PROVE  q[i].id # q[j].id
    <2>1. Adds(p, q, "ready") => \A n \in 1..Len(p) : p[n].kind = "ready" => p[n].id # id
      BY <1>6 DEF KindIds
    <2>2. CASE i \in 1..Len(p) /\ j \in 1..Len(p)
      BY <1>1, <1>6, <2>2 DEF Unique
    <2>3. CASE i \in Len(p) + 1..Len(q) /\ j \in Len(p) + 1..Len(q)
      BY <1>1, <1>6, <2>3
    <2>4. CASE i \in 1..Len(p) /\ j \in Len(p) + 1..Len(q)
      BY <1>1, <1>6, <2>1, <2>4 DEF Adds
    <2>5. CASE i \in Len(p) + 1..Len(q) /\ j \in 1..Len(p)
      BY <1>1, <1>6, <2>1, <2>5 DEF Adds
    <2> QED BY <1>2, <2>2, <2>3, <2>4, <2>5
  <1>7. Unique(p) /\ (Adds(p, q, "ready") => id \notin KindIds(p, "ready")) => Unique(q)
    BY <1>6 DEF Unique
  <1> QED BY <1>4, <1>5, <1>7

\* The same when the first answer is taken off.
LEMMA KindTail ==
  ASSUME NEW p \in Seq(Response), p # <<>>
  PROVE  /\ \A k : KindIds(Tail(p), k) \subseteq KindIds(p, k)
         /\ \A k : KindIds(p, k) \subseteq KindIds(Tail(p), k) \cup {Head(p).id}
         /\ Head(p).id \in KindIds(p, Head(p).kind)
         /\ \A k : Head(p).kind # k => KindIds(Tail(p), k) = KindIds(p, k)
         /\ Unique(p) => Unique(Tail(p))
         /\ Unique(p) /\ Head(p).kind = "ready" => Head(p).id \notin KindIds(Tail(p), "ready")
  <1> DEFINE t == Tail(p)
  <1>1. /\ Len(p) \in Nat /\ Len(p) # 0 /\ Len(t) = Len(p) - 1 /\ Head(p) = p[1]
        /\ \A i \in 1..Len(p) - 1 : t[i] = p[i + 1]
    BY TailFacts
  <1> HIDE DEF t
  <1>2. \A i \in 1..Len(t) : i + 1 \in 1..Len(p) /\ t[i] = p[i + 1] /\ i + 1 # 1
    BY <1>1
  <1>3. ASSUME NEW i \in 1..Len(p), i # 1 PROVE i - 1 \in 1..Len(t) /\ t[i - 1] = p[i]
    <2>1. i - 1 \in 1..Len(p) - 1 /\ (i - 1) + 1 = i
      BY <1>1, <1>3
    <2> QED BY <1>1, <2>1
  <1>4. 1 \in 1..Len(p)
    BY <1>1
  <1>5. ASSUME NEW k, NEW x \in KindIds(t, k) PROVE x \in KindIds(p, k)
    BY <1>2 DEF KindIds
  <1>6. ASSUME NEW k, NEW x \in KindIds(p, k)
        PROVE  x \in KindIds(t, k) \/ (x = Head(p).id /\ Head(p).kind = k)
    <2>1. PICK i \in 1..Len(p) : p[i].kind = k /\ x = p[i].id
      BY DEF KindIds
    <2>2. CASE i = 1
      BY <1>1, <2>1, <2>2
    <2>3. CASE i # 1
      <3>1. i - 1 \in 1..Len(t) /\ t[i - 1] = p[i]
        BY <1>3, <2>3
      <3> QED BY <2>1, <3>1 DEF KindIds
    <2> QED BY <2>2, <2>3
  <1>7. Head(p).id \in KindIds(p, Head(p).kind)
    BY <1>1, <1>4 DEF KindIds
  <1>8. ASSUME Unique(p) PROVE Unique(t)
    <2>1. ASSUME NEW i \in 1..Len(t), NEW j \in 1..Len(t), i # j, t[i].kind = "ready", t[j].kind = "ready"
          PROVE  t[i].id # t[j].id
      <3>1. i + 1 \in 1..Len(p) /\ j + 1 \in 1..Len(p) /\ t[i] = p[i + 1] /\ t[j] = p[j + 1] /\ i + 1 # j + 1
        BY <1>2, <2>1
      <3> QED BY <1>8, <2>1, <3>1 DEF Unique
    <2> QED BY <2>1 DEF Unique
  <1>9. ASSUME Unique(p), Head(p).kind = "ready" PROVE Head(p).id \notin KindIds(t, "ready")
    <2>1. ASSUME NEW i \in 1..Len(t), t[i].kind = "ready" PROVE t[i].id # Head(p).id
      <3>1. i + 1 \in 1..Len(p) /\ t[i] = p[i + 1] /\ i + 1 # 1
        BY <1>2
      <3> QED BY <1>1, <1>4, <1>9, <2>1, <3>1 DEF Unique
    <2> QED BY <2>1 DEF KindIds
  <1>10. \A k : KindIds(t, k) \subseteq KindIds(p, k)
    BY <1>5
  <1>11. \A k : KindIds(p, k) \subseteq KindIds(t, k) \cup {Head(p).id}
    BY <1>6
  <1>12. ASSUME NEW k, Head(p).kind # k PROVE KindIds(t, k) = KindIds(p, k)
    <2>1. \A x : x \in KindIds(t, k) <=> x \in KindIds(p, k)
      BY <1>5, <1>6, <1>12
    <2> QED BY <2>1
  <1> QED BY ONLY <1>7, <1>8, <1>9, <1>10, <1>11, <1>12, Zenon DEF t

\* How a step moves the messages: those that have left the task stay the same,
\* and what is new at the server is the one that leaves.
Moved ==
  /\ Left \in Nat /\ Left' \in {Left, Left + 1}
  /\ \A i \in 1..Left : sent'[i] = sent[i]
  /\ IdsIn(p2b) \subseteq 1..Left
  /\ \A id \in IdsIn(p2b') : id \in IdsIn(p2b) \/ (id = Left + 1 /\ Left' = Left + 1)

\* Every step moves messages along their way only.
LEMMA Moves ==
  ASSUME IInv, SentInv, Traffic
  PROVE  Moved
  <1>0. /\ Len(sent) \in Nat /\ Len(c2p) \in Nat /\ Len(p2b) \in Nat
        /\ Taken \in Nat /\ Left \in Nat /\ Left <= Len(sent)
        /\ (pc = "read" => Left = Taken) /\ (pc # "read" => Left = Taken - 1)
        /\ \A i \in 1..Len(p2b) : p2b[i] \in Msg /\ p2b[i].id \in 1..Left
    BY Counts
  <1>1. (pc' = "read" => Left' = Taken') /\ (pc' # "read" => Left' = Taken' - 1)
    BY DEF Left
  <1>2. IdsIn(p2b) \subseteq 1..Left
    BY <1>0 DEF IdsIn
  <1>3. \A i \in 1..Left : i \in 1..Len(sent)
    BY <1>0
  <1>4. ASSUME UNCHANGED p2b
        PROVE  \A id \in IdsIn(p2b') : id \in IdsIn(p2b)
    BY <1>4 DEF IdsIn
  <1>5. ASSUME NEW m, m \in Msg, m.id = Left + 1, p2b' = Append(p2b, m)
        PROVE  \A id \in IdsIn(p2b') : id \in IdsIn(p2b) \/ id = Left + 1
    <2>1. /\ Len(p2b') = Len(p2b) + 1 /\ p2b'[Len(p2b) + 1] = m
          /\ \A i \in 1..Len(p2b) : p2b'[i] = p2b[i]
      BY <1>5, AppendFacts DEF IInv, TypeOK, QueuesTyped
    <2>2. ASSUME NEW i \in 1..Len(p2b') PROVE p2b'[i].id \in IdsIn(p2b) \/ p2b'[i].id = Left + 1
      <3>1. CASE i = Len(p2b) + 1
        BY <1>5, <2>1, <3>1
      <3>2. CASE i \in 1..Len(p2b)
        BY <2>1, <3>2 DEF IdsIn
      <3> QED BY <1>0, <2>1, <3>1, <3>2
    <2> QED BY <2>2 DEF IdsIn
  <1>6. CASE Sends
    <2>1. PICK m \in Msg : sent' = Append(sent, m) /\ c2p' = Append(c2p, m)
      BY <1>6 DEF Sends
    <2>2. /\ Len(sent') = Len(sent) + 1 /\ Len(c2p') = Len(c2p) + 1
          /\ \A i \in 1..Len(sent) : sent'[i] = sent[i]
      BY <2>1, AppendFacts DEF IInv, TypeOK, QueuesTyped
    <2>3. Taken' = Taken /\ pc' = pc
      BY <1>0, <1>6, <2>2 DEF Taken, Sends
    <2>4. Left' = Left
      BY <2>3 DEF Left
    <2> QED BY <1>0, <1>2, <1>3, <1>4, <1>6, <2>2, <2>4 DEF Sends, Moved
  <1>7. CASE Takes
    <2>1. pc = "read" /\ c2p # <<>> /\ c2p' = Tail(c2p) /\ UNCHANGED sent
      BY <1>7 DEF Takes
    <2>2. Len(c2p) # 0 /\ Len(c2p') = Len(c2p) - 1
      BY <2>1, TailFacts DEF IInv, TypeOK, QueuesTyped
    <2>3. Taken' = Taken + 1
      BY <1>0, <2>1, <2>2 DEF Taken
    <2>4. Left' \in {Left, Left + 1} /\ (pc' = "read" => Left' = Left + 1)
      BY <1>0, <1>1, <2>1, <2>3
    <2>m. PICK m : m = Head(c2p)
      OBVIOUS
    <2>5. m \in Msg /\ m.id = Left + 1
      BY <2>m, <2>1, NextMessage
    <2>6. CASE UNCHANGED p2b
      BY <1>0, <1>2, <1>4, <2>1, <2>4, <2>6 DEF Moved
    <2>7. CASE p2b' = Append(p2b, m) /\ pc' = "read"
      BY <1>0, <1>2, <1>5, <2>1, <2>4, <2>5, <2>7 DEF Moved
    <2> QED BY <1>7, <2>m, <2>6, <2>7 DEF Takes
  <1>8. CASE Finishes
    <2>1. pc # "read" /\ pc' = "read" /\ UNCHANGED <<sent, c2p>> /\ Taken' = Taken
      BY <1>8 DEF Finishes, Taken
    <2>2. Left' = Left + 1
      BY <1>0, <1>1, <2>1
    <2>m. PICK m : m = cur[1]
      OBVIOUS
    <2>3. m \in Msg /\ m.id = Left + 1
      BY <2>m, <2>1, NextMessage
    <2>4. CASE UNCHANGED p2b
      BY <1>0, <1>2, <1>4, <2>1, <2>2, <2>4 DEF Moved
    <2>5. CASE p2b' = Append(p2b, m)
      BY <1>0, <1>2, <1>5, <2>1, <2>2, <2>3, <2>5 DEF Moved
    <2> QED BY <1>8, <2>m, <2>4, <2>5 DEF Finishes
  <1>9. CASE Serves
    <2>1. p2b # <<>> /\ p2b' = Tail(p2b) /\ UNCHANGED <<sent, c2p, pc>> /\ Taken' = Taken /\ Left' = Left
      BY <1>9 DEF Serves, Taken, Left
    <2>2. /\ Len(p2b) # 0 /\ Len(p2b') = Len(p2b) - 1
          /\ \A i \in 1..Len(p2b) - 1 : p2b'[i] = p2b[i + 1]
      BY <2>1, TailFacts DEF IInv, TypeOK, QueuesTyped
    <2>3. ASSUME NEW i \in 1..Len(p2b') PROVE p2b'[i].id \in IdsIn(p2b)
      <3>1. i \in 1..Len(p2b) - 1 /\ i + 1 \in 1..Len(p2b)
        BY <1>0, <2>2
      <3> QED BY <2>2, <3>1 DEF IdsIn
    <2>4. \A id \in IdsIn(p2b') : id \in IdsIn(p2b)
      BY <2>3 DEF IdsIn
    <2> QED BY <1>0, <1>2, <2>1, <2>4 DEF Moved
  <1>10. CASE Thinks
    <2>1. Taken' = Taken /\ UNCHANGED <<sent, p2b>> /\ pc # "read" /\ pc' # "read"
      BY <1>10 DEF Thinks, Taken
    <2>2. Left' = Left
      BY <2>1 DEF Left
    <2> QED BY <1>0, <1>2, <1>4, <2>1, <2>2 DEF Moved
  <1>11. CASE Relays
    <2>1. UNCHANGED <<sent, c2p, p2b, pc>> /\ Taken' = Taken /\ Left' = Left
      BY <1>11 DEF Relays, Taken, Left
    <2> QED BY <1>0, <1>2, <1>4, <2>1 DEF Moved
  <1> QED BY <1>6, <1>7, <1>8, <1>9, <1>10, <1>11 DEF Traffic

\* Answers are for messages the client can have sent.
LEMMA KindTyped ==
  ASSUME NEW p \in Seq(Response), NEW k
  PROVE  KindIds(p, k) \subseteq Ids
  <1>1. ASSUME NEW i \in 1..Len(p) PROVE p[i].id \in Ids
    <2>1. p[i] \in Response
      OBVIOUS
    <2> QED BY <2>1 DEF Response
  <1> QED BY <1>1 DEF KindIds

\* The message the server takes, and those behind it.
LEMMA ServedMessage ==
  ASSUME IInv, SentInv, p2b # <<>>, p2b' = Tail(p2b)
  PROVE  /\ Head(p2b) \in Msg /\ Head(p2b) = sent[Head(p2b).id] /\ Head(p2b).id \in IdsIn(p2b)
         /\ \A i \in 1..Len(p2b') : /\ i + 1 \in 1..Len(p2b) /\ p2b'[i] = p2b[i + 1]
                                    /\ Head(p2b).id < p2b'[i].id
         /\ Head(p2b).id \notin IdsIn(p2b')
         /\ \A e \in executed : e.id < Head(p2b).id
  <1>1. /\ Len(p2b) \in Nat /\ Len(p2b) # 0 /\ Len(p2b') = Len(p2b) - 1
        /\ Head(p2b) = p2b[1] /\ Head(p2b) \in Msg
        /\ \A i \in 1..Len(p2b) - 1 : p2b'[i] = p2b[i + 1]
    BY TailFacts DEF IInv, TypeOK, QueuesTyped
  <1>2. 1 \in 1..Len(p2b)
    BY <1>1
  <1>3. Head(p2b) = sent[Head(p2b).id] /\ Head(p2b).id \in IdsIn(p2b) /\ \A e \in executed : e.id < Head(p2b).id
    BY <1>1, <1>2 DEF SentInv, IdsIn
  <1>4. \A i \in 1..Len(p2b) : p2b[i].id \in Int
    BY Counts
  <1>5. ASSUME NEW i \in 1..Len(p2b')
        PROVE  i + 1 \in 1..Len(p2b) /\ p2b'[i] = p2b[i + 1] /\ Head(p2b).id < p2b'[i].id
    <2>1. i + 1 \in 1..Len(p2b) /\ i \in 1..Len(p2b) - 1 /\ 1 < i + 1
      BY <1>1
    <2>2. p2b'[i] = p2b[i + 1]
      BY <1>1, <2>1
    <2>3. p2b[1].id < p2b[i + 1].id
      BY <1>2, <2>1 DEF SentInv
    <2> QED BY <1>1, <2>1, <2>2, <2>3
  <1>6. ASSUME NEW i \in 1..Len(p2b') PROVE p2b'[i].id # Head(p2b).id
    <2>1. Head(p2b).id \in Int /\ p2b'[i].id \in Int /\ Head(p2b).id < p2b'[i].id
      BY <1>1, <1>2, <1>4, <1>5
    <2> QED BY ONLY <2>1
  <1>7. Head(p2b).id \notin IdsIn(p2b')
    BY <1>6 DEF IdsIn
  <1> QED BY <1>1, <1>3, <1>5, <1>7

\* A ReadyForQuery that may be on its way: the message has left the proxy and
\* the server, and ends a batch.
MayBeReady(id) == id <= Left /\ EndsBatch(sent[id]) /\ id \notin IdsIn(p2b)

\* No step makes a second ReadyForQuery for a message.
LEMMA ReadyNext ==
  ASSUME IInv, SentInv, ReadyInv, Traffic
  PROVE  ReadyInv'
  <1>m. Moved
    BY Moves
  <1>d. delivered \in Seq(Response) /\ b2p \in Seq(Response)
    BY DEF IInv, TypeOK, QueuesTyped
  <1>D. KindIds(delivered, "ready") \subseteq Ids /\ KindIds(b2p, "ready") \subseteq Ids
    BY <1>d, KindTyped
  <1>r. /\ Unique(delivered) /\ Unique(b2p)
        /\ \A id \in KindIds(delivered, "ready") : MayBeReady(id) /\ id \notin KindIds(b2p, "ready")
        /\ \A id \in KindIds(b2p, "ready") : MayBeReady(id)
    BY DEF ReadyInv, MayBeReady
  <1>k. ASSUME NEW id \in Ids, MayBeReady(id)
        PROVE  id \in 1..Left /\ MayBeReady(id)'
    <2>1. id \in 1..Left /\ id \notin IdsIn(p2b) /\ EndsBatch(sent[id])
      BY <1>k, <1>m, BoundAssumption DEF MayBeReady, Moved, Ids
    <2>2. id <= Left' /\ id # Left + 1 /\ sent'[id] = sent[id]
      BY <2>1, <1>m DEF Moved
    <2>3. id \notin IdsIn(p2b')
      BY <2>1, <2>2, <1>m DEF Moved
    <2> QED BY <2>1, <2>2, <2>3 DEF MayBeReady, EndsBatch, Alone
  <1>s. ASSUME Unique(delivered'), Unique(b2p'),
               \A id \in KindIds(delivered', "ready") : MayBeReady(id)' /\ id \notin KindIds(b2p', "ready"),
               \A id \in KindIds(b2p', "ready") : MayBeReady(id)'
        PROVE  ReadyInv'
    BY <1>s DEF ReadyInv, MayBeReady
  <1>1. CASE UNCHANGED <<delivered, b2p>>
    BY <1>D, <1>r, <1>k, <1>s, <1>1
  <1>2. CASE Finishes /\ ~UNCHANGED delivered
    <2>n. PICK q : q = delivered'
      OBVIOUS
    <2>1. /\ pc # "read" /\ UNCHANGED <<sent, b2p, p2b>> /\ Extends(delivered, q, cur[1].id)
          /\ Adds(delivered, q, "ready") => cur[1].type = "Query"
      BY <1>2, <2>n DEF Finishes
    <2>2. cur[1] = sent[Left + 1] /\ cur[1].id = Left + 1
      BY <2>1, NextMessage
    <2>3. Left' = Left + 1
      <3>1. pc # "read" /\ pc' = "read" /\ Taken' = Taken
        BY <1>2 DEF Finishes, Taken
      <3> QED BY <3>1, Counts DEF Left
    <2>4. /\ KindIds(q, "ready") \subseteq KindIds(delivered, "ready") \cup {Left + 1}
          /\ ~Adds(delivered, q, "ready") => KindIds(q, "ready") = KindIds(delivered, "ready")
          /\ Left + 1 \notin KindIds(delivered, "ready") => Unique(q)
      BY <1>d, <1>r, <2>1, <2>2, KindExtends
    <2>5. Left + 1 \notin KindIds(delivered, "ready") /\ Left + 1 \notin KindIds(b2p, "ready")
      BY <1>m, <1>r DEF MayBeReady, Moved
    <2>p. PICK n : n = Left + 1
      OBVIOUS
    <2>6. Adds(delivered, q, "ready") => MayBeReady(n)'
      <3>1. n \notin IdsIn(p2b)
        BY <1>m, <2>p DEF Moved
      <3>2. Adds(delivered, q, "ready") => sent[n].type = "Query"
        BY <2>1, <2>2, <2>p
      <3> QED BY <1>m, <2>1, <2>3, <2>p, <3>1, <3>2 DEF MayBeReady, EndsBatch, Alone, Moved
    <2>7. \A id \in KindIds(delivered', "ready") : MayBeReady(id)' /\ id \notin KindIds(b2p', "ready")
      BY <1>D, <1>r, <1>k, <2>n, <2>p, <2>1, <2>4, <2>5, <2>6
    <2>8. \A id \in KindIds(b2p', "ready") : MayBeReady(id)'
      BY <1>D, <1>r, <1>k, <2>1
    <2> QED BY <1>r, <1>s, <2>n, <2>1, <2>4, <2>5, <2>7, <2>8
  <1>3. CASE Relays
    <2>1. b2p # <<>> /\ b2p' = Tail(b2p) /\ delivered' = Append(delivered, Head(b2p))
      BY <1>3 DEF Relays
    <2>n. PICK r, t, q : r = Head(b2p) /\ t = Tail(b2p) /\ q = Append(delivered, r)
      OBVIOUS
    <2>2. /\ KindIds(t, "ready") \subseteq KindIds(b2p, "ready")
          /\ r.id \in KindIds(b2p, r.kind) /\ Unique(t)
          /\ r.kind = "ready" => r.id \notin KindIds(t, "ready")
      BY <1>d, <1>r, <2>1, <2>n, KindTail
    <2>3. r \in Response
      BY <1>d, <2>1, <2>n, TailFacts
    <2>4. Extends(delivered, q, r.id) /\ (Adds(delivered, q, "ready") => r.kind = "ready")
      BY <1>d, <2>n, <2>3, ExtendsOne
    <2>5. r.kind = "ready" => r.id \notin KindIds(delivered, "ready")
      BY <1>r, <2>2
    <2>6. /\ KindIds(q, "ready") \subseteq KindIds(delivered, "ready") \cup {r.id}
          /\ r.kind # "ready" => KindIds(q, "ready") = KindIds(delivered, "ready")
          /\ Unique(q)
      BY <1>d, <1>r, <2>4, <2>5, KindExtends
    <2>7. ASSUME NEW id \in KindIds(q, "ready")
          PROVE  id \in Ids /\ MayBeReady(id) /\ id \notin KindIds(t, "ready")
      <3>1. CASE id \in KindIds(delivered, "ready")
        BY <1>D, <1>r, <2>2, <3>1
      <3>2. CASE id = r.id /\ r.kind = "ready"
        BY <1>D, <1>r, <2>2, <3>2
      <3> QED BY <2>6, <3>1, <3>2
    <2>8. \A id \in KindIds(t, "ready") : id \in Ids /\ MayBeReady(id)
      BY <1>D, <1>r, <2>2
    <2> QED BY <1>k, <1>s, <2>n, <2>1, <2>2, <2>6, <2>7, <2>8
  <1>4. CASE Serves
    <2>1. p2b # <<>> /\ p2b' = Tail(p2b) /\ UNCHANGED <<sent, c2p, pc, delivered>>
      BY <1>4 DEF Serves
    <2>n. PICK h, q : h = Head(p2b) /\ q = b2p'
      OBVIOUS
    <2>2. Extends(b2p, q, h.id) /\ (Adds(b2p, q, "ready") => EndsBatch(h))
      BY <1>4, <2>n DEF Serves
    <2>3. h = sent[h.id] /\ h.id \in IdsIn(p2b) /\ h.id \notin IdsIn(p2b')
      BY <2>1, <2>n, ServedMessage
    <2>4. h.id \notin KindIds(delivered, "ready") /\ h.id \notin KindIds(b2p, "ready")
      BY <1>r, <2>3 DEF MayBeReady
    <2>5. /\ KindIds(q, "ready") \subseteq KindIds(b2p, "ready") \cup {h.id}
          /\ ~Adds(b2p, q, "ready") => KindIds(q, "ready") = KindIds(b2p, "ready")
          /\ Unique(q)
      BY <1>d, <1>r, <2>2, <2>4, KindExtends
    <2>6. Adds(b2p, q, "ready") => MayBeReady(h.id)'
      <3>1. h.id \in 1..Left
        BY <1>m, <2>3 DEF Moved
      <3>2. h.id <= Left' /\ sent'[h.id] = h
        BY <1>m, <2>1, <2>3, <3>1 DEF Moved
      <3> QED BY <2>2, <2>3, <3>2 DEF MayBeReady, EndsBatch, Alone
    <2>7. \A id \in KindIds(b2p', "ready") : MayBeReady(id)'
      BY <1>D, <1>r, <1>k, <2>n, <2>5, <2>6
    <2>8. \A id \in KindIds(delivered', "ready") : MayBeReady(id)' /\ id \notin KindIds(b2p', "ready")
      BY <1>D, <1>r, <1>k, <2>n, <2>1, <2>4, <2>5
    <2> QED BY <1>r, <1>s, <2>n, <2>1, <2>5, <2>7, <2>8
  <1> QED
    BY <1>1, <1>2, <1>3, <1>4 DEF Traffic, Sends, Takes, Thinks, Finishes

-----------------------------------------------------------------------------
(***************************************************************************)
(* Recovery.                                                               *)
(***************************************************************************)
\* A Sync between two messages stays there.
LEMMA SyncKept ==
  ASSUME Moved, NEW d \in Nat, NEW b \in Int, NEW c \in Int, b <= Left, b <= c, SyncIn(d + 1, b)
  PROVE  SyncIn(d + 1, c)'
  <1>1. PICK s \in d + 1..b : sent[s].type = "Sync"
    BY DEF SyncIn
  <1>2. s \in 1..Left /\ s \in d + 1..c
    BY DEF Moved
  <1> QED BY <1>1, <1>2 DEF SyncIn, Moved

\* A step by which nothing arrives at the server or leaves it.
LEMMA GuardedHold ==
  ASSUME IInv, Moved, NEW d \in 1..Left, Guarded(d), UNCHANGED <<p2b, bSkip, executed>>,
         errorPending' \/ ~errorPending
  PROVE  Guarded(d)'
  <1>1. /\ Left \in Nat /\ Left' \in Nat /\ Left <= Left' /\ d \in Nat
        /\ \A i \in 1..Len(p2b) : p2b[i].id \in 1..Left
        /\ \A e \in executed : e.id \in 1..Left
    BY Counts DEF Moved
  <1>2. Skipped(d)' <=> Skipped(d)
    BY DEF Skipped
  <1>3. ASSUME NEW e \in executed, e.id > d PROVE SyncIn(d + 1, e.id - 1)'
    <2>1. e.id - 1 \in Int /\ e.id - 1 <= Left /\ SyncIn(d + 1, e.id - 1)
      BY <1>1, <1>3 DEF Guarded
    <2> QED BY <1>1, <2>1, SyncKept
  <1>4. ASSUME NEW i \in 1..Len(p2b), p2b[i].id > d, p2b[i].type # "Terminate", ~Skipped(d)
        PROVE  \E s \in d + 1..p2b[i].id : sent'[s].type = "Sync"
    <2>n. PICK n : n = p2b[i].id
      OBVIOUS
    <2>1. n \in Int /\ n <= Left /\ SyncIn(d + 1, n)
      BY <1>1, <1>4, <2>n DEF Guarded
    <2>2. SyncIn(d + 1, n)'
      <3>1. n <= n /\ d \in Nat
        BY <1>1, <2>1
      <3> QED BY <2>1, <3>1, SyncKept
    <2> QED BY <2>n, <2>2 DEF SyncIn
  <1>5. ASSUME ~errorPending', ~Skipped(d)
        PROVE  \E s \in d + 1..Left' : sent'[s].type = "Sync"
    <2>n. PICK n, k : n = Left /\ k = Left'
      OBVIOUS
    <2>1. SyncIn(d + 1, n)
      BY <1>5, <2>n DEF Guarded
    <2>2. SyncIn(d + 1, k)'
      BY <1>1, <2>n, <2>1, SyncKept
    <2> QED BY <2>n, <2>2 DEF SyncIn
  <1> QED BY <1>2, <1>3, <1>4, <1>5 DEF Guarded, SyncIn

\* A step that forwards a message: the Sync that ends the recovery, a Terminate
\* during it, or one that has a Sync before it or will be discarded.
LEMMA GuardedForward ==
  ASSUME IInv, Moved, NEW d \in 1..Left, Guarded(d), NEW m, Forwards(m),
         m.type = "Sync" \/ ~errorPending \/ (m.type = "Terminate" /\ errorPending'),
         Left' = Left + 1, UNCHANGED <<sent, bSkip, executed>>
  PROVE  Guarded(d)'
  <1>1. /\ Left \in Nat /\ d \in Nat /\ Len(p2b) \in Nat
        /\ \A i \in 1..Len(p2b) : p2b[i].id \in 1..Left
        /\ \A e \in executed : e.id \in 1..Left
    BY Counts DEF Moved
  <1>2. /\ Len(p2b') = Len(p2b) + 1 /\ p2b'[Len(p2b) + 1] = m
        /\ \A i \in 1..Len(p2b) : p2b'[i] = p2b[i]
        /\ m.id = Left + 1 /\ m = sent[m.id]
    BY AppendFacts DEF Forwards, IInv, TypeOK, QueuesTyped
  <1>3. ASSUME NEW i \in 1..Len(p2b') PROVE (i = Len(p2b) + 1 /\ p2b'[i] = m) \/ (i \in 1..Len(p2b) /\ p2b'[i] = p2b[i])
    BY <1>1, <1>2
  <1>4. Skipped(d) => Skipped(d)'
    BY <1>1, <1>2, <1>3 DEF Skipped
  <1>5. \/ (\E s \in d + 1..Left + 1 : sent[s].type = "Sync") \/ Skipped(d)
        \/ m.type = "Terminate" /\ errorPending'
    <2>1. CASE m.type = "Sync"
      BY <1>1, <1>2, <2>1
    <2>2. CASE ~errorPending
      <3>1. SyncIn(d + 1, Left) \/ Skipped(d)
        BY <2>2 DEF Guarded
      <3>2. \A s \in d + 1..Left : s \in d + 1..Left + 1
        BY <1>1
      <3> QED BY <3>1, <3>2 DEF SyncIn
    <2> QED BY <2>1, <2>2
  <1>6. ASSUME NEW e \in executed, e.id > d PROVE SyncIn(d + 1, e.id - 1)'
    BY <1>6 DEF Guarded, SyncIn
  <1>7. ASSUME NEW i \in 1..Len(p2b'), p2b'[i].id > d, p2b'[i].type # "Terminate"
        PROVE  (\E s \in d + 1..p2b'[i].id : sent'[s].type = "Sync") \/ Skipped(d)'
    <2>1. CASE i = Len(p2b) + 1 /\ p2b'[i] = m
      BY <1>2, <1>4, <1>5, <1>7, <2>1
    <2>2. CASE i \in 1..Len(p2b) /\ p2b'[i] = p2b[i]
      BY <1>4, <1>7, <2>2 DEF Guarded, SyncIn
    <2> QED BY <1>3, <2>1, <2>2
  <1>8. errorPending' \/ (\E s \in d + 1..Left' : sent'[s].type = "Sync") \/ Skipped(d)'
    BY <1>4, <1>5
  <1> QED BY <1>6, <1>7, <1>8 DEF Guarded, SyncIn

\* A step of the server.
LEMMA GuardedServe ==
  ASSUME IInv, SentInv, NEW d \in 1..Left, Guarded(d), Serves
  PROVE  Guarded(d)'
  <1>1. /\ p2b # <<>> /\ p2b' = Tail(p2b) /\ UNCHANGED <<sent, errorPending>> /\ Left' = Left
    BY DEF Serves, Left, Taken
  <1>h. PICK h : h = Head(p2b)
    OBVIOUS
  <1>2. /\ h = sent[h.id] /\ h.id \in 1..Left /\ Left \in Nat
        /\ \A i \in 1..Len(p2b') : /\ i + 1 \in 1..Len(p2b) /\ p2b'[i] = p2b[i + 1]
                                   /\ h.id < p2b'[i].id /\ p2b'[i].id \in 1..Left
        /\ \E i \in 1..Len(p2b) : p2b[i].id = h.id
    <2>1. h.id \in IdsIn(p2b)
      BY <1>1, <1>h, ServedMessage
    <2>2. \E i \in 1..Len(p2b) : p2b[i].id = h.id
      BY <2>1 DEF IdsIn
    <2> QED BY <1>1, <1>h, <2>2, ServedMessage, Counts
  <1>3. CASE bSkip /\ bSkip' /\ UNCHANGED executed
    <2>1. Skipped(d) => Skipped(d)'
      BY <1>2, <1>3 DEF Skipped
    <2> QED BY <1>1, <1>2, <1>3, <2>1 DEF Guarded, SyncIn
  <1>4. CASE ~bSkip /\ UNCHANGED executed
    <2>1. ~Skipped(d)
      BY <1>4 DEF Skipped
    <2> QED BY <1>1, <1>2, <1>4, <2>1 DEF Guarded, SyncIn
  <1>5. CASE ~bSkip /\ h.type \notin {"Sync", "Terminate"} /\ \E s : executed' = executed \cup {[id |-> h.id, sql |-> s]}
    <2>1. ~Skipped(d)
      BY <1>5 DEF Skipped
    <2>2. ASSUME NEW e \in executed', e.id > d PROVE \E s \in d + 1..e.id - 1 : sent[s].type = "Sync"
      <3>1. CASE e \in executed
        BY <2>2, <3>1 DEF Guarded, SyncIn
      <3>2. CASE e.id = h.id
        <4>0. PICK k \in 1..Len(p2b) : p2b[k].id = h.id
          BY <1>2
        <4>1. PICK s \in d + 1..h.id : sent[s].type = "Sync"
          <5>1. p2b[k] = h
            BY <1>2, <4>0 DEF SentInv
          <5> QED BY <1>5, <2>1, <2>2, <3>2, <4>0, <5>1 DEF Guarded, SyncIn
        <4>2. s # h.id
          BY <1>2, <1>5, <4>1
        <4>3. s \in d + 1..h.id - 1
          BY <1>2, <4>2
        <4> QED BY <3>2, <4>1, <4>3
      <3> QED BY <1>5, <3>1, <3>2
    <2>3. \A i \in 1..Len(p2b') : p2b'[i].id > d /\ p2b'[i].type # "Terminate" =>
                                   \E s \in d + 1..p2b'[i].id : sent[s].type = "Sync"
      BY <1>2, <2>1 DEF Guarded, SyncIn
    <2>4. errorPending \/ \E s \in d + 1..Left : sent[s].type = "Sync"
      BY <2>1 DEF Guarded, SyncIn
    <2> QED BY <1>1, <2>2, <2>3, <2>4 DEF Guarded, SyncIn
  <1>6. CASE h.type = "Sync" /\ UNCHANGED executed
    <2>1. Skipped(d) => h.id \in d + 1..Left
      BY <1>2 DEF Skipped
    <2>2. ASSUME NEW i \in 1..Len(p2b'), p2b'[i].id > d, p2b'[i].type # "Terminate"
          PROVE  \E s \in d + 1..p2b'[i].id : sent[s].type = "Sync"
      <3>1. CASE Skipped(d)
        <4>1. h.id \in d + 1..p2b'[i].id
          BY <1>2, <2>1, <3>1
        <4> QED BY <1>2, <1>6, <4>1
      <3>2. CASE ~Skipped(d)
        BY <1>2, <2>2, <3>2 DEF Guarded, SyncIn
      <3> QED BY <3>1, <3>2
    <2>3. errorPending \/ \E s \in d + 1..Left : sent[s].type = "Sync"
      BY <1>2, <1>6, <2>1 DEF Guarded, SyncIn
    <2> QED BY <1>1, <1>6, <2>2, <2>3 DEF Guarded, SyncIn
  <1> QED BY <1>h, <1>3, <1>4, <1>5, <1>6 DEF Serves

\* Every step keeps what comes behind a failed message from running.
LEMMA GuardedNext ==
  ASSUME IInv, SentInv, Traffic, NEW d \in 1..Left, Guarded(d)
  PROVE  Guarded(d)'
  <1>m. Moved
    BY Moves
  <1>n. Left \in Nat /\ Taken \in Nat /\ Len(sent) \in Nat /\ Len(c2p) \in Nat
    BY Counts
  <1>1. CASE Sends \/ Thinks \/ Relays
    BY <1>m, <1>1, GuardedHold DEF Sends, Thinks, Relays
  <1>2. CASE Takes
    <2>1. CASE UNCHANGED <<p2b, errorPending>>
      BY <1>m, <1>2, <2>1, GuardedHold DEF Takes
    <2>2. CASE /\ pc' = "read" /\ p2b' = Append(p2b, Head(c2p))
               /\ \/ Head(c2p).type = "Sync" \/ ~errorPending
                  \/ Head(c2p).type = "Terminate" /\ errorPending'
      <3>h. PICK h : h = Head(c2p)
        OBVIOUS
      <3>1. pc = "read" /\ c2p # <<>> /\ c2p' = Tail(c2p) /\ UNCHANGED <<sent, bSkip, executed>>
        BY <1>2 DEF Takes
      <3>2. Forwards(h)
        BY <2>2, <3>h, <3>1, NextMessage DEF Forwards
      <3>3. Len(c2p') = Len(c2p) - 1
        BY <3>1, TailFacts DEF IInv, TypeOK, QueuesTyped
      <3>4. Taken' = Taken + 1
        BY <1>n, <3>1, <3>3 DEF Taken
      <3>5. Left' = Left + 1
        BY <2>2, <3>1, <3>4 DEF Left
      <3> QED BY <1>m, <2>2, <3>h, <3>1, <3>2, <3>5, GuardedForward
    <2> QED BY <1>2, <2>1, <2>2 DEF Takes
  <1>3. CASE Finishes
    <2>1. pc # "read" /\ pc' = "read" /\ UNCHANGED <<sent, bSkip, executed>> /\ Taken' = Taken
      BY <1>3 DEF Finishes, Taken
    <2>2. Left' = Left + 1
      BY <1>n, <2>1, Counts DEF Left
    <2>h. PICK h : h = cur[1]
      OBVIOUS
    <2>3. ~errorPending
      BY <2>1, NextMessage
    <2>4. CASE p2b' = Append(p2b, h)
      <3>1. Forwards(h)
        BY <2>h, <2>1, <2>4, NextMessage DEF Forwards
      <3> QED BY <1>m, <2>1, <2>2, <2>3, <3>1, GuardedForward
    <2>5. CASE UNCHANGED p2b
      BY <1>m, <2>1, <2>3, <2>5, GuardedHold
    <2> QED BY <1>3, <2>h, <2>4, <2>5 DEF Finishes
  <1>4. CASE Serves
    BY <1>4, GuardedServe
  <1> QED BY <1>1, <1>2, <1>3, <1>4 DEF Traffic

\* An extended message that fails is guarded at once.
LEMMA GuardedNew ==
  ASSUME IInv, SentInv, Moved, Traffic
  PROVE  /\ Finishes /\ cur[1].type # "Query" /\ ~UNCHANGED delivered =>
              \E d \in Nat : d = Left + 1 /\ d = Left' /\ Guarded(d)'
         /\ Serves /\ Adds(b2p, b2p', "err") /\ ~Alone(Head(p2b)) =>
              \E d \in Nat : d = Head(p2b).id /\ d \in 1..Left /\ d <= Left' /\ Guarded(d)'
  <1>n. /\ Left \in Nat /\ Taken \in Nat /\ (pc # "read" => Left = Taken - 1)
        /\ \A i \in 1..Len(p2b) : p2b[i].id \in 1..Left
        /\ \A e \in executed : e.id \in 1..Left
    BY Counts
  <1>1. ASSUME Finishes, cur[1].type # "Query", ~UNCHANGED delivered
        PROVE  \E d \in Nat : d = Left + 1 /\ d = Left' /\ Guarded(d)'
    <2>1. UNCHANGED <<p2b, executed>> /\ errorPending' /\ pc # "read" /\ pc' = "read" /\ Taken' = Taken
      BY <1>1 DEF Finishes, Taken
    <2>d. PICK d : d = Left + 1
      OBVIOUS
    <2>2. d = Left'
      BY <1>n, <2>d, <2>1 DEF Left
    <2>3. (\A i \in 1..Len(p2b) : ~(p2b[i].id > d)) /\ (\A e \in executed : ~(e.id > d))
      BY <1>n, <2>d
    <2>4. Guarded(d)'
      BY <2>1, <2>3 DEF Guarded
    <2> QED BY <1>n, <2>d, <2>2, <2>4
  <1>2. ASSUME Serves, Adds(b2p, b2p', "err"), ~Alone(Head(p2b))
        PROVE  \E d \in Nat : d = Head(p2b).id /\ d \in 1..Left /\ d <= Left' /\ Guarded(d)'
    <2>1. p2b # <<>> /\ p2b' = Tail(p2b)
      BY <1>2 DEF Serves
    <2>2. bSkip' /\ UNCHANGED executed
      <3>1. b2p' = b2p => ~Adds(b2p, b2p', "err")
        BY DEF Adds, IInv, TypeOK, QueuesTyped
      <3> QED BY <1>2, <3>1 DEF Serves
    <2>d. PICK d : d = Head(p2b).id
      OBVIOUS
    <2>3. /\ d \in IdsIn(p2b) /\ \A i \in 1..Len(p2b') : d < p2b'[i].id
          /\ \A e \in executed : e.id < d
      BY <2>d, <2>1, ServedMessage
    <2>4. d \in 1..Left /\ d <= Left'
      BY <2>3 DEF Moved
    <2>5. Skipped(d)'
      BY <2>2, <2>3 DEF Skipped
    <2>6. \A e \in executed : ~(e.id > d)
      BY <1>n, <2>3, <2>4
    <2>7. Guarded(d)'
      BY <2>2, <2>5, <2>6 DEF Guarded
    <2> QED BY <1>n, <2>d, <2>4, <2>7
  <1> QED BY <1>1, <1>2

\* Every step keeps the recovery right.
LEMMA RecoveryNext ==
  ASSUME IInv, SentInv, RecoveryInv, Traffic
  PROVE  RecoveryInv'
  <1>m. Moved
    BY Moves
  <1>d. delivered \in Seq(Response) /\ b2p \in Seq(Response)
    BY DEF IInv, TypeOK, QueuesTyped
  <1> DEFINE Errs == KindIds(delivered, "err") \cup KindIds(b2p, "err")
  <1>e. \A id \in Errs : id \in 1..Left
    <2>1. \A id \in Errs : id \in Ids /\ id <= Left
      BY <1>d, KindTyped DEF RecoveryInv
    <2> QED BY <2>1, <1>m, BoundAssumption DEF Ids, Moved
  \* What had failed before.
  <1>o. ASSUME NEW id \in Errs PROVE id <= Left' /\ (~Alone(sent'[id]) => Guarded(id)')
    <2>1. id \in 1..Left /\ id <= Left' /\ sent'[id] = sent[id]
      BY <1>e, <1>m DEF Moved
    <2>2. ASSUME ~Alone(sent[id]) PROVE Guarded(id)'
      <3>1. Guarded(id)
        BY <2>2 DEF RecoveryInv, Failed
      <3> QED BY <2>1, <3>1, GuardedNext
    <2> QED BY <2>1, <2>2
  <1>s. ASSUME \A id \in KindIds(delivered', "err") \cup KindIds(b2p', "err") :
                 id <= Left' /\ (~Alone(sent'[id]) => Guarded(id)')
        PROVE  RecoveryInv'
    BY <1>s DEF RecoveryInv, Failed
  <1>1. CASE UNCHANGED <<delivered, b2p>>
    BY <1>1, <1>o, <1>s
  <1>2. CASE Finishes /\ ~UNCHANGED delivered
    <2>n. PICK q : q = delivered'
      OBVIOUS
    <2>1. pc # "read" /\ UNCHANGED <<sent, b2p>> /\ Extends(delivered, q, cur[1].id)
      BY <1>2, <2>n DEF Finishes
    <2>2. cur[1] = sent[Left + 1] /\ cur[1].id = Left + 1
      BY <2>1, NextMessage
    <2>3. KindIds(q, "err") \subseteq KindIds(delivered, "err") \cup {Left + 1}
      BY <1>d, <2>1, <2>2, KindExtends
    <2>4. Left + 1 <= Left'
      <3>1. pc # "read" /\ pc' = "read" /\ Taken' = Taken
        BY <1>2 DEF Finishes, Taken
      <3>2. Left' = Taken /\ Left = Taken - 1 /\ Taken \in Nat
        BY <3>1, Counts DEF Left
      <3> QED BY <3>2
    <2>5. ASSUME NEW id, id = Left + 1 PROVE id <= Left' /\ (~Alone(sent'[id]) => Guarded(id)')
      BY <1>m, <1>2, <2>1, <2>2, <2>4, <2>5, GuardedNew DEF Alone
    <2> QED BY <1>o, <1>s, <2>n, <2>1, <2>3, <2>5
  <1>3. CASE Relays
    <2>1. b2p # <<>> /\ b2p' = Tail(b2p) /\ delivered' = Append(delivered, Head(b2p))
      BY <1>3 DEF Relays
    <2>n. PICK r, t, q : r = Head(b2p) /\ t = Tail(b2p) /\ q = Append(delivered, r)
      OBVIOUS
    <2>2. KindIds(t, "err") \subseteq KindIds(b2p, "err") /\ r.id \in KindIds(b2p, r.kind)
      BY <1>d, <2>1, <2>n, KindTail
    <2>3. r \in Response
      BY <1>d, <2>1, <2>n, TailFacts
    <2>4. Extends(delivered, q, r.id) /\ (Adds(delivered, q, "err") => r.kind = "err")
      BY <1>d, <2>n, <2>3, ExtendsOne
    <2>5. /\ KindIds(q, "err") \subseteq KindIds(delivered, "err") \cup {r.id}
          /\ r.kind # "err" => KindIds(q, "err") = KindIds(delivered, "err")
      BY <1>d, <2>4, KindExtends
    <2>6. KindIds(q, "err") \cup KindIds(t, "err") \subseteq Errs
      BY <2>2, <2>5
    <2> QED BY <1>o, <1>s, <2>n, <2>1, <2>6
  <1>4. CASE Serves
    <2>1. p2b # <<>> /\ p2b' = Tail(p2b) /\ UNCHANGED <<sent, delivered>>
      BY <1>4 DEF Serves
    <2>n. PICK h, q : h = Head(p2b) /\ q = b2p'
      OBVIOUS
    <2>2. Extends(b2p, q, h.id)
      BY <1>4, <2>n DEF Serves
    <2>3. h = sent[h.id] /\ h.id \in 1..Left
      <3>1. h = sent[h.id] /\ h.id \in IdsIn(p2b)
        BY <2>1, <2>n, ServedMessage
      <3> QED BY <3>1, <1>m DEF Moved
    <2>4. /\ KindIds(q, "err") \subseteq KindIds(b2p, "err") \cup {h.id}
          /\ ~Adds(b2p, q, "err") => KindIds(q, "err") = KindIds(b2p, "err")
      BY <1>d, <2>2, KindExtends
    <2>5. ASSUME Adds(b2p, q, "err")
          PROVE  h.id <= Left' /\ (~Alone(sent'[h.id]) => Guarded(h.id)')
      <3>1. h.id <= Left' /\ sent'[h.id] = h
        BY <1>m, <2>1, <2>3 DEF Moved
      <3>2. ASSUME ~Alone(h) PROVE Guarded(h.id)'
        <4>1. \E d \in Nat : d = h.id /\ Guarded(d)'
          BY <1>m, <1>4, <2>n, <2>5, <3>2, GuardedNew
        <4> QED BY <4>1
      <3> QED BY <3>1, <3>2
    <2> QED BY <1>o, <1>s, <2>n, <2>1, <2>4, <2>5
  <1> QED
    BY <1>1, <1>2, <1>3, <1>4 DEF Traffic, Sends, Takes, Thinks, Finishes

\* The traffic of the session satisfies its invariant in every state.
LEMMA TrafficInvariance == Spec => [](IInv /\ TrafficInv)
  <1>1. Init => TrafficInv
    <2> SUFFICES ASSUME Init PROVE TrafficInv
      OBVIOUS
    <2>1. /\ Len(sent) = 0 /\ Len(c2p) = 0 /\ Len(p2b) = 0 /\ Len(delivered) = 0 /\ Len(b2p) = 0
          /\ pc = "read" /\ executed = {}
      BY DEF Init
    <2>2. \A k : KindIds(delivered, k) = {} /\ KindIds(b2p, k) = {}
      BY <2>1 DEF KindIds
    <2>3. SentInv
      BY <2>1 DEF SentInv
    <2>4. ReadyInv
      BY <2>1, <2>2 DEF ReadyInv, Unique
    <2>5. RecoveryInv
      BY <2>2 DEF RecoveryInv, Failed
    <2> QED BY <2>3, <2>4, <2>5 DEF TrafficInv
  <1>2. IInv /\ TrafficInv /\ [Next]_vars => TrafficInv'
    <2> SUFFICES ASSUME IInv, TrafficInv, [Next]_vars PROVE TrafficInv'
      OBVIOUS
    <2>1. CASE Next
      <3>1. Traffic
        BY <2>1, StepIsTraffic
      <3> QED BY <3>1, SentNext, ReadyNext, RecoveryNext DEF TrafficInv
    <2>2. CASE UNCHANGED vars
      <3>1. /\ UNCHANGED <<sent, delivered, c2p, p2b, b2p, errorPending, pc, cur, bSkip, executed>>
            /\ Taken' = Taken /\ Left' = Left
        BY <2>2 DEF vars, client, proxy, task, backend, Taken, Left
      <3>2. SentInv'
        BY <3>1 DEF TrafficInv, SentInv
      <3>3. ReadyInv'
        BY <3>1 DEF TrafficInv, ReadyInv
      <3>4. RecoveryInv'
        <4>1. \A d : Guarded(d) => Guarded(d)'
          BY <3>1 DEF Guarded, SyncIn, Skipped
        <4> QED BY <3>1, <4>1 DEF TrafficInv, RecoveryInv, Failed
      <3> QED BY <3>2, <3>3, <3>4 DEF TrafficInv
    <2> QED BY <2>1, <2>2
  <1> QED BY <1>1, <1>2, Invariance, PTL DEF Spec

\* A step of a session is a step of the gate, or none.
LEMMA GateNext ==
  ASSUME IInv, IInv', SentInv, UNCHANGED vars \/ GateStep
  PROVE  [Gate!Next]_(Gate!vars)
  <1> USE DEF IInv
  <1> DEFINE ran == {e.id : e \in executed}
             blank == {i \in 1..Len(sent) : sent[i].type = "Function"}
  <1>1. Left \in Int
    BY DEF TypeOK, QueuesTyped, Left, Taken
  <1>2. p2b \in Seq(Msg)
    BY DEF TypeOK, QueuesTyped
  <1>3. ASSUME UNCHANGED <<verdict, judged, audited>>
        PROVE  \A id \in Ids : DecisionOf(id)' = DecisionOf(id)
    BY <1>3 DEF DecisionOf, Cleared
  <1>4. ASSUME OlderKept, NEW id \in Ids, id <= Left PROVE DecisionOf(id)' = DecisionOf(id)
    BY <1>4 DEF OlderKept, DecisionOf, Cleared
  <1>5. ASSUME OlderKept, NEW id \in Ids, id > Left' PROVE DecisionOf(id)' = DecisionOf(id)
    <2>1. DecisionOf(id) = "open"
      BY <1>5, UndecidedIsOpen, BoundAssumption DEF OlderKept, Ids
    <2>2. DecisionOf(id)' = "open"
      <3>1. audited'[id] = "NONE" /\ verdict'[id] # "SAFE"
        BY <1>5 DEF Undecided
      <3> QED BY <3>1 DEF DecisionOf, Cleared, LetThrough, Refused
    <2> QED BY <2>1, <2>2
  <1>6. CASE UNCHANGED vars
    <2>1. UNCHANGED <<p2b, executed, verdict, judged, audited, sent, c2p, pc>>
      BY <1>6 DEF vars, client, task, backend
    <2>2. UNCHANGED <<Left, p2b, executed, sent>>
      BY <2>1 DEF Left, Taken
    <2> QED BY <1>3, <2>1, <2>2 DEF Gate!vars
  <1>s. ASSUME Stays PROVE \A id \in Ids : DecisionOf(id)' = DecisionOf(id)
    BY <1>s, <1>1, <1>4, <1>5, BoundAssumption DEF Stays, Ids
  <1>7. CASE Holds
    <2>1. \A id \in Ids : DecisionOf(id)' = DecisionOf(id)
      BY <1>7, <1>s DEF Holds
    <2>2. UNCHANGED <<Left, p2b, executed, sent>>
      BY <1>7 DEF Holds, Stays
    <2> QED BY <2>1, <2>2 DEF Gate!vars
  <1>10. CASE Offers
    <2>1. /\ [id \in Ids |-> DecisionOf(id)]' = [id \in Ids |-> DecisionOf(id)]
          /\ UNCHANGED <<Left, p2b, executed>>
      BY <1>10, <1>s DEF Offers, Stays
    <2>2. PICK m \in Msg : m.id = Len(sent) + 1 /\ sent' = Append(sent, m)
      BY <1>10 DEF Offers
    <2>3. /\ Len(sent) \in Nat /\ Len(sent') = Len(sent) + 1 /\ sent'[Len(sent) + 1] = m
          /\ \A i \in 1..Len(sent) : sent'[i] = sent[i]
      BY <2>2, AppendFacts DEF TypeOK, QueuesTyped
    <2>4. \A i : i \in 1..Len(sent') <=> i \in 1..Len(sent) \/ i = Len(sent) + 1
      BY <2>3
    <2>5. Len(sent) + 1 \in Ids /\ Len(sent) + 1 > Left
      <3>1. Left <= Len(sent)
        BY <1>1, <2>3, Counts
      <3> QED BY <1>1, <2>2, <2>3, <3>1 DEF Msg
    <2>6. blank' = blank \/ blank' = blank \cup {Len(sent) + 1}
      <3>1. ASSUME NEW i PROVE i \in blank' <=> i \in blank \/ (i = Len(sent) + 1 /\ m.type = "Function")
        BY <2>3, <2>4
      <3> QED BY <3>1
    <2>7. CASE blank' = blank
      BY <2>1, <2>7 DEF Gate!vars
    <2>8. CASE blank' = blank \cup {Len(sent) + 1}
      <3> HIDE DEF blank
      <3>1. Gate!OfferBlank
        BY <2>1, <2>5, <2>8 DEF Gate!OfferBlank, blank
      <3> QED BY <3>1 DEF Gate!Next
    <2> QED BY <2>6, <2>7, <2>8
  <1>8. CASE Leaves
    <2> DEFINE d == DecisionOf(Left)'
    <2>1. OlderKept /\ Left + 1 \in Ids /\ Left' = Left + 1 /\ UNCHANGED <<executed, sent>>
      BY <1>8 DEF Leaves
    <2>2. [id \in Ids |-> DecisionOf(id)]' = [[id \in Ids |-> DecisionOf(id)] EXCEPT ![Left + 1] = d]
      <3>1. \A id \in Ids : id # Left + 1 => DecisionOf(id)' = DecisionOf(id)
        BY <1>1, <1>4, <1>5, <2>1, BoundAssumption DEF Ids
      <3>2. \A id \in Ids : id = Left + 1 => DecisionOf(id)' = d
        BY <2>1
      <3> QED BY <3>1, <3>2
    <2>3. d \in {"pass", "refuse", "open"}
      BY DEF DecisionOf
    <2>4. d = "open" => [id \in Ids |-> DecisionOf(id)]' = [id \in Ids |-> DecisionOf(id)]
      <3>1. DecisionOf(Left + 1) = "open"
        BY <1>1, <2>1, UndecidedIsOpen
      <3> QED BY <2>1, <2>2, <3>1
    <2>5. CASE \E m \in Msg : m.id = Left + 1 /\ p2b' = Append(p2b, m) /\ d # "refuse"
      <3>1. PICK m \in Msg : m.id = Left + 1 /\ p2b' = Append(p2b, m)
        BY <2>5
      <3>2. IdsOf(p2b)' = Append(IdsOf(p2b), Left + 1)
        <4>1. IdsOf(Append(p2b, m)) = Append(IdsOf(p2b), m.id)
          BY <1>2, IdsOfAppend
        <4> QED BY <3>1, <4>1 DEF IdsOf
      <3>3. Gate!Deal /\ Gate!SendOn /\ UNCHANGED <<ran, blank>>
        BY <2>1, <3>2 DEF Gate!Deal, Gate!SendOn, IdsOf
      <3>4. CASE d = "pass"
        BY <2>2, <3>3, <3>4 DEF Gate!Next, Gate!Pass, Gate!Decide
      <3>5. CASE d = "open"
        BY <2>4, <3>3, <3>5 DEF Gate!Next, Gate!SendUndecided
      <3> QED BY <2>3, <2>5, <3>4, <3>5
    <2>6. CASE UNCHANGED p2b /\ d # "pass"
      <3>1. Gate!Deal /\ UNCHANGED <<p2b, executed, sent>>
        BY <2>1, <2>6 DEF Gate!Deal
      <3>2. CASE d = "refuse"
        BY <2>2, <3>1, <3>2 DEF Gate!Next, Gate!Refuse, Gate!Decide
      <3>3. CASE d = "open"
        BY <2>4, <3>1, <3>3 DEF Gate!Next, Gate!Discard
      <3> QED BY <2>3, <2>6, <3>2, <3>3
    <2> QED BY <1>8, <2>5, <2>6 DEF Leaves
  <1>9. CASE Arrives
    <2>1. /\ p2b # <<>> /\ p2b' = Tail(p2b)
          /\ UNCHANGED <<sent, c2p, pc, verdict, judged, audited>>
      BY <1>9 DEF Arrives, task
    <2>2. /\ IdsOf(p2b)' = Tail(IdsOf(p2b)) /\ IdsOf(p2b) # <<>>
          /\ Head(IdsOf(p2b)) = Head(p2b).id
      <3>1. IdsOf(Tail(p2b)) = Tail(IdsOf(p2b))
        BY <1>2, <2>1, IdsOfTail
      <3> QED BY <1>2, <2>1, <3>1, IdsOfTail DEF IdsOf
    <2>3. Left' = Left /\ [id \in Ids |-> DecisionOf(id)]' = [id \in Ids |-> DecisionOf(id)]
      BY <1>3, <2>1 DEF Left, Taken
    <2>4. \/ ran' = ran
          \/ /\ Head(p2b).id \in Cleared \/ Head(p2b).id \in blank
             /\ ran' = ran \cup {Head(p2b).id}
      <3>1. CASE UNCHANGED executed
        BY <3>1
      <3>2. ASSUME NEW q, Runs(Head(p2b)) \/ Head(p2b).type = "Function",
                   executed' = executed \cup {[id |-> Head(p2b).id, sql |-> q]}
            PROVE  /\ Head(p2b).id \in Cleared \/ Head(p2b).id \in blank
                   /\ ran' = ran \cup {Head(p2b).id}
        <4>1. Head(p2b) = p2b[1] /\ 1 \in 1..Len(p2b)
          BY <1>2, <2>1, TailFacts
        <4>2. Head(p2b).id \in Cleared \/ Head(p2b).id \in blank
          <5>1. CASE Runs(Head(p2b))
            BY <4>1, <5>1 DEF OnlyClearedReachServer
          <5>2. CASE Head(p2b).type = "Function"
            <6>1. Head(p2b) = sent[Head(p2b).id] /\ Head(p2b).id \in 1..Len(sent)
              BY <4>1, Counts DEF SentInv
            <6> QED BY <5>2, <6>1
          <5> QED BY <3>2, <5>1, <5>2
        <4>3. ran' = ran \cup {Head(p2b).id}
          <5> DEFINE n == [id |-> Head(p2b).id, sql |-> q]
          <5>1. n.id = Head(p2b).id
            OBVIOUS
          <5> HIDE DEF n
          <5> QED BY <3>2, <5>1 DEF n
        <4> QED BY <4>2, <4>3
      <3> QED BY <1>9, <3>1, <3>2 DEF Arrives, ServesHead
    <2>5. Head(p2b).id \in Cleared => [id \in Ids |-> DecisionOf(id)][Head(p2b).id] = "pass"
      BY DEF DecisionOf, Cleared
    <2>b. blank' = blank
      BY <2>1
    <2> HIDE DEF ran, blank
    <2>6. Gate!Serve
      BY <2>2, <2>3, <2>4, <2>5, <2>b DEF Gate!Serve, IdsOf, ran, blank
    <2> QED BY <2>6 DEF Gate!Next
  <1> QED BY <1>6, <1>7, <1>8, <1>9, <1>10 DEF GateStep

\* A session implements the gate, for any client, any server and any
\* classification and policy: every message is dealt with once and in order,
\* and the server runs only what was let through, in that order, or a
\* FunctionCall, which the proxy forwards unread.
THEOREM SessionImplementsGate == Spec => ImplementsGate
  <1>1. Init => Gate!Init
    <2> SUFFICES ASSUME Init PROVE Gate!Init
      OBVIOUS
    <2>1. Left = 0
      BY DEF Init, Left, Taken
    <2>2. \A id \in Ids : DecisionOf(id) = "open"
      BY DEF Init, DecisionOf, Cleared, LetThrough, Refused
    <2>3. [k \in 1..Len(p2b) |-> p2b[k].id] = <<>>
      BY DEF Init
    <2>4. {e.id : e \in executed} = {}
      BY DEF Init
    <2>5. {i \in 1..Len(sent) : sent[i].type = "Function"} = {}
      BY DEF Init
    <2> QED BY <2>1, <2>2, <2>3, <2>4, <2>5 DEF Gate!Init
  <1>2. IInv /\ IInv' /\ TrafficInv /\ [Next]_vars => [Gate!Next]_(Gate!vars)
    BY NextInv, GateNext DEF TrafficInv
  <1> QED BY <1>1, <1>2, TrafficInvariance, PTL DEF Spec, ImplementsGate, Gate!Spec

\* However far the client runs ahead, it never gets two ReadyForQuery for one
\* Query or Sync, nor one for anything else: a Query the proxy refuses, and
\* answers itself, is not forwarded, and the Sync that ends a recovery is
\* answered by the server alone.
THEOREM ReadyOncePerRequest == Spec => []AtMostOneReady
  <1>1. IInv /\ TrafficInv => AtMostOneReady
    <2> SUFFICES ASSUME IInv, TrafficInv,
                        NEW i \in 1..Len(delivered), NEW j \in 1..Len(delivered),
                        delivered[i].kind = "ready"
                 PROVE  /\ EndsBatch(sent[delivered[i].id])
                        /\ j # i /\ delivered[j].kind = "ready" => delivered[j].id # delivered[i].id
      BY DEF AtMostOneReady
    <2>1. delivered[i].id \in KindIds(delivered, "ready")
      BY DEF KindIds
    <2> QED BY <2>1 DEF TrafficInv, ReadyInv, Unique
  <1> QED BY <1>1, TrafficInvariance, PTL

\* However far the client runs ahead, nothing it sent behind an extended
\* message that failed is run before its next Sync, whether the proxy refused
\* the message (extended_error_pending) or the server did, and however the
\* refusal crosses what is in flight.
THEOREM RecoveryHolds == Spec => []NothingRunsUntilSync
  <1>1. IInv /\ TrafficInv => NothingRunsUntilSync
    <2> SUFFICES ASSUME IInv, TrafficInv, NEW i \in 1..Len(delivered), delivered[i].kind = "err",
                        ~Alone(sent[delivered[i].id]),
                        NEW e \in executed, e.id > delivered[i].id
                 PROVE  \E s \in delivered[i].id + 1 .. e.id - 1 : sent[s].type = "Sync"
      BY DEF NothingRunsUntilSync
    <2>1. delivered[i].id \in Failed
      BY DEF Failed, KindIds
    <2> QED BY <2>1 DEF TrafficInv, RecoveryInv, Guarded, SyncIn
  <1> QED BY <1>1, TrafficInvariance, PTL

-----------------------------------------------------------------------------
(***************************************************************************)
(* The order of the answers.                                               *)
(***************************************************************************)
\* Nothing about an earlier message is still to come from the server.
Settled(id, answers, queue) == /\ \A k \in 1..Len(answers) : id <= answers[k].id
                               /\ \A k \in 1..Len(queue) : id < queue[k].id

\* The server answers in order, and what the client was told of a message is
\* a refusal or came after everything about the earlier ones.
OrderInv ==
  /\ OnlyRefusalsOvertake
  /\ \A i \in 1..Len(delivered) :
       /\ delivered[i].id <= Left
       /\ audited[delivered[i].id] \in Refused \/ Settled(delivered[i].id, b2p, p2b)
  /\ \A i \in 1..Len(b2p) : b2p[i].id <= Left /\ \A k \in 1..Len(p2b) : b2p[i].id < p2b[k].id
  /\ \A i, j \in 1..Len(b2p) : i < j => b2p[i].id <= b2p[j].id

\* The decisions on record about what has left the task stay.
RecordKept == \A id \in Ids : id <= Left => audited'[id] = audited[id]

LEMMA RecordStays ==
  ASSUME IInv, Next
  PROVE  RecordKept
  <1>1. UNCHANGED vars \/ GateStep
    BY NextInv
  <1>2. CASE UNCHANGED vars
    BY <1>2 DEF vars, task, RecordKept
  <1>3. CASE Offers \/ Holds \/ Leaves
    BY <1>3 DEF Offers, Holds, Stays, Leaves, OlderKept, RecordKept
  <1>4. CASE Arrives
    BY <1>4 DEF Arrives, task, RecordKept
  <1> QED BY <1>1, <1>2, <1>3, <1>4 DEF GateStep

\* The numbers of the answers.
LEMMA AnswerIds ==
  ASSUME IInv
  PROVE  /\ delivered \in Seq(Response) /\ b2p \in Seq(Response)
         /\ Len(delivered) \in Nat /\ Len(b2p) \in Nat
         /\ \A i \in 1..Len(delivered) : delivered[i].id \in Ids /\ delivered[i].id \in Int
         /\ \A i \in 1..Len(b2p) : b2p[i].id \in Ids /\ b2p[i].id \in Int
  <1>1. \A a \in Response : a.id \in Ids /\ a.id \in Int
    BY BoundAssumption DEF Response, Ids
  <1> QED BY <1>1 DEF IInv, TypeOK, QueuesTyped

\* A step that delivers nothing and by which the server answers nothing.
LEMMA OrderQuiet ==
  ASSUME IInv, OrderInv, Moved, RecordKept, UNCHANGED <<delivered, b2p>>
  PROVE  OrderInv'
  <1>1. /\ \A i \in 1..Len(delivered) : delivered[i].id \in Ids /\ delivered[i].id \in Int
        /\ \A i \in 1..Len(b2p) : b2p[i].id \in Int
        /\ Left \in Nat /\ Left' \in Nat /\ Left <= Left'
    BY AnswerIds DEF Moved
  <1>2. ASSUME NEW k \in 1..Len(p2b')
        PROVE  p2b'[k].id = Left + 1 \/ \E l \in 1..Len(p2b) : p2b'[k].id = p2b[l].id
    BY DEF Moved, IdsIn
  <1>3. ASSUME NEW i \in 1..Len(delivered) PROVE audited'[delivered[i].id] = audited[delivered[i].id]
    BY <1>1 DEF OrderInv, RecordKept
  <1>4. OnlyRefusalsOvertake'
    BY <1>3 DEF OrderInv, OnlyRefusalsOvertake
  <1>5. ASSUME NEW id \in Int, id <= Left, \A l \in 1..Len(p2b) : id < p2b[l].id, NEW k \in 1..Len(p2b')
        PROVE  id < p2b'[k].id
    BY <1>1, <1>2, <1>5
  <1>6. ASSUME NEW i \in 1..Len(delivered)
        PROVE  /\ delivered[i].id <= Left'
               /\ audited'[delivered[i].id] \in Refused \/ Settled(delivered[i].id, b2p', p2b')
    <2>d. PICK d : d = delivered[i].id
      OBVIOUS
    <2>1. d \in Int /\ d <= Left /\ (audited'[d] \in Refused \/ Settled(d, b2p, p2b))
      BY <1>1, <1>3, <2>d DEF OrderInv
    <2>2. Settled(d, b2p, p2b) => Settled(d, b2p', p2b')
      BY <1>5, <2>1 DEF Settled
    <2> QED BY <1>1, <2>d, <2>1, <2>2
  <1>7. ASSUME NEW i \in 1..Len(b2p)
        PROVE  b2p[i].id <= Left' /\ \A k \in 1..Len(p2b') : b2p[i].id < p2b'[k].id
    <2>d. PICK d : d = b2p[i].id
      OBVIOUS
    <2>1. d \in Int /\ d <= Left /\ \A k \in 1..Len(p2b) : d < p2b[k].id
      BY <1>1, <2>d DEF OrderInv
    <2>2. \A k \in 1..Len(p2b') : d < p2b'[k].id
      BY <1>5, <2>1
    <2> QED BY <1>1, <2>d, <2>1, <2>2
  <1> QED BY <1>4, <1>6, <1>7 DEF OrderInv

\* A refusal is delivered.
LEMMA OrderRefused ==
  ASSUME IInv, SentInv, OrderInv, Moved, RecordKept, Next, Finishes, UNCHANGED p2b
  PROVE  OrderInv'
  <1> DEFINE c == cur[1]
             n == Len(delivered)
  <1>1. /\ n \in Nat /\ delivered \in Seq(Response)
        /\ \A i \in 1..n : delivered[i].id \in Ids /\ delivered[i].id \in Int
        /\ \A i \in 1..Len(b2p) : b2p[i].id \in Int
        /\ Left \in Nat
    BY AnswerIds DEF Moved
  <1>2. c \in Msg /\ c.id = Left + 1 /\ pc # "read" /\ pc' = "read" /\ b2p' = b2p /\ UNCHANGED <<c2p, sent>>
    BY NextMessage DEF Finishes
  <1>3. Left' = Left + 1
    BY <1>2, Counts DEF Left, Taken
  <1>4. Extends(delivered, delivered', c.id)
    <2>1. p2b \in Seq(Msg) /\ Len(p2b) \in Nat
      BY DEF IInv, TypeOK, QueuesTyped
    <2>2. Len(Append(p2b, c)) = Len(p2b) + 1
      BY <1>2, <2>1, AppendFacts
    <2>3. p2b' # Append(p2b, c)
      BY <2>1, <2>2
    <2> QED BY <2>3 DEF Finishes
  <1>5. AuditWritten /\ ~Passes(verdict[c.id])
    <2>1. ClientTask
      BY <1>2 DEF Next, ClientSend, PipeBackend, Backend, BackendSkips, BackendRejects, BackendPrepares,
                  BackendExecutes, BackendQueries, BackendSyncs, BackendCalls, BackendTerminates, task
    <2>2. AuditWritten
      <3>1. ASSUME NEW s, NEW r, NEW e, EvaluateAndDecide(c, s, r, e) PROVE pc' # "read"
        BY <3>1 DEF EvaluateAndDecide
      <3> QED BY <1>2, <2>1, <3>1 DEF ClientTask, SkipUntilSync, SyncAfterError, TerminateAfterError, HandleOther,
                  HandleMalformed, HandleSimpleQuery, HandleParse, HandleBind, HandleClose, HandleExecute,
                  EstimateDone, UserDecides, Reading
    <2>3. p2b \in Seq(Msg) /\ Len(p2b) \in Nat /\ Len(Append(p2b, c)) = Len(p2b) + 1
      BY <1>2, AppendFacts DEF IInv, TypeOK, QueuesTyped
    <2>4. p2b' # Append(p2b, c)
      BY <2>3
    <2> QED BY <2>2, <2>4 DEF AuditWritten
  <1>6. audited'[c.id] \in Refused
    <2>1. pc = "audit" /\ audited' = [audited EXCEPT ![c.id] = verdict[c.id]]
      BY <1>5 DEF AuditWritten
    <2>2. verdict[c.id] \in Refused
      BY <1>5, <2>1 DEF Passes, IInv, CurrentIsJudged
    <2>3. c.id \in Ids /\ audited \in [Ids -> Verdicts]
      BY <1>2 DEF Msg, IInv, TypeOK, TaskTyped
    <2> QED BY <2>1, <2>2, <2>3
  <1> HIDE DEF c, n
  <1>7. ASSUME NEW i \in 1..Len(delivered')
        PROVE  \/ i \in 1..n /\ delivered'[i] = delivered[i]
               \/ i > n /\ delivered'[i].id = c.id
    <2>1. Len(delivered') \in Nat
      BY <1>4 DEF Extends
    <2> QED BY <1>1, <1>4, <2>1 DEF Extends, n
  <1>8. ASSUME NEW i \in 1..n
        PROVE  /\ audited'[delivered[i].id] = audited[delivered[i].id] /\ delivered[i].id <= Left
               /\ audited[delivered[i].id] \in Refused \/ Settled(delivered[i].id, b2p, p2b)
    BY <1>1 DEF OrderInv, RecordKept, n
  <1>9. ASSUME NEW i \in 1..Len(delivered'), NEW j \in 1..Len(delivered'), i < j,
               delivered'[i].id > delivered'[j].id
        PROVE  audited'[delivered'[i].id] \in Refused
    <2>1. CASE i \in 1..n /\ j \in 1..n /\ delivered'[i] = delivered[i] /\ delivered'[j] = delivered[j]
      BY <1>8, <1>9, <2>1 DEF OrderInv, OnlyRefusalsOvertake, n
    <2>2. CASE delivered'[i].id = c.id
      BY <1>6, <2>2
    <2>3. CASE i \in 1..n /\ delivered'[i] = delivered[i] /\ delivered'[j].id = c.id
      BY <1>1, <1>2, <1>8, <1>9, <2>3
    <2> QED BY <1>7, <2>1, <2>2, <2>3
  <1>10. ASSUME NEW i \in 1..Len(delivered')
         PROVE  /\ delivered'[i].id <= Left'
                /\ audited'[delivered'[i].id] \in Refused \/ Settled(delivered'[i].id, b2p', p2b')
    <2>1. \A id : Settled(id, b2p, p2b) => Settled(id, b2p', p2b')
      BY <1>2 DEF Settled
    <2>2. CASE i \in 1..n /\ delivered'[i] = delivered[i]
      <3>1. delivered'[i].id <= Left'
        BY <1>1, <1>3, <1>8, <2>2
      <3> QED BY <1>8, <2>1, <2>2, <3>1
    <2>3. CASE delivered'[i].id = c.id
      BY <1>1, <1>2, <1>3, <1>6, <2>3
    <2> QED BY <1>7, <2>2, <2>3
  <1>11. \A i \in 1..Len(b2p') : b2p'[i].id <= Left' /\ \A k \in 1..Len(p2b') : b2p'[i].id < p2b'[k].id
    BY <1>1, <1>2, <1>3 DEF OrderInv
  <1>12. \A i, j \in 1..Len(b2p') : i < j => b2p'[i].id <= b2p'[j].id
    BY <1>2 DEF OrderInv
  <1>13. OnlyRefusalsOvertake'
    BY <1>9 DEF OnlyRefusalsOvertake
  <1> QED BY <1>10, <1>11, <1>12, <1>13 DEF OrderInv

\* An answer of the server is delivered.
LEMMA OrderRelayed ==
  ASSUME IInv, OrderInv, RecordKept, Relays
  PROVE  OrderInv'
  <1> DEFINE h == Head(b2p)
             n == Len(delivered)
  <1>1. /\ n \in Nat /\ Len(b2p) \in Nat /\ delivered \in Seq(Response) /\ b2p \in Seq(Response)
        /\ \A i \in 1..n : delivered[i].id \in Ids /\ delivered[i].id \in Int
        /\ \A i \in 1..Len(b2p) : b2p[i].id \in Ids /\ b2p[i].id \in Int
    BY AnswerIds
  <1>2. /\ b2p # <<>> /\ b2p' = Tail(b2p) /\ delivered' = Append(delivered, h) /\ UNCHANGED p2b
        /\ Left' = Left
    BY DEF Relays, Left, Taken
  <1>3. /\ Len(b2p) # 0 /\ Len(b2p') = Len(b2p) - 1 /\ h = b2p[1] /\ h \in Response
        /\ \A i \in 1..Len(b2p) - 1 : b2p'[i] = b2p[i + 1]
    BY <1>1, <1>2, TailFacts
  <1>4. /\ Len(delivered') = n + 1 /\ delivered'[n + 1] = h
        /\ \A i \in 1..n : delivered'[i] = delivered[i]
    BY <1>1, <1>2, <1>3, AppendFacts
  <1> HIDE DEF h, n
  <1>5. ASSUME NEW i \in 1..Len(delivered')
        PROVE  (i \in 1..n /\ delivered'[i] = delivered[i]) \/ (i = n + 1 /\ delivered'[i] = h)
    BY <1>1, <1>4
  <1>6. ASSUME NEW k \in 1..Len(b2p') PROVE k + 1 \in 1..Len(b2p) /\ b2p'[k] = b2p[k + 1]
    BY <1>1, <1>3
  <1>7. 1 \in 1..Len(b2p) /\ h.id \in Ids /\ h.id \in Int
    BY <1>1, <1>3
  <1>8. /\ h.id <= Left /\ Settled(h.id, b2p', p2b')
        /\ \A id : Settled(id, b2p, p2b) => id <= h.id /\ Settled(id, b2p', p2b')
    <2>1. \A k \in 1..Len(b2p') : h.id <= b2p'[k].id
      BY <1>1, <1>3, <1>6, <1>7 DEF OrderInv
    <2>2. h.id <= Left /\ \A k \in 1..Len(p2b') : h.id < p2b'[k].id
      BY <1>2, <1>3, <1>7 DEF OrderInv
    <2>3. ASSUME NEW id, Settled(id, b2p, p2b) PROVE id <= h.id /\ Settled(id, b2p', p2b')
      BY <1>2, <1>3, <1>6, <1>7, <2>3 DEF Settled
    <2> QED BY <2>1, <2>2, <2>3 DEF Settled
  <1>9. ASSUME NEW i \in 1..n
        PROVE  /\ audited'[delivered[i].id] = audited[delivered[i].id] /\ delivered[i].id <= Left
               /\ audited[delivered[i].id] \in Refused \/ Settled(delivered[i].id, b2p, p2b)
    BY <1>1 DEF OrderInv, RecordKept, n
  <1>10. ASSUME NEW i \in 1..Len(delivered'), NEW j \in 1..Len(delivered'), i < j,
                delivered'[i].id > delivered'[j].id
         PROVE  audited'[delivered'[i].id] \in Refused
    <2>1. i \in 1..n /\ delivered'[i] = delivered[i]
      BY <1>1, <1>4, <1>5, <1>10
    <2>2. CASE j \in 1..n /\ delivered'[j] = delivered[j]
      BY <1>9, <1>10, <2>1, <2>2 DEF OrderInv, OnlyRefusalsOvertake, n
    <2>3. CASE delivered'[j] = h
      <3>1. ~Settled(delivered[i].id, b2p, p2b)
        BY <1>1, <1>7, <1>8, <1>10, <2>1, <2>3
      <3> QED BY <1>9, <2>1, <3>1
    <2> QED BY <1>5, <2>2, <2>3
  <1>11. ASSUME NEW i \in 1..Len(delivered')
         PROVE  /\ delivered'[i].id <= Left'
                /\ audited'[delivered'[i].id] \in Refused \/ Settled(delivered'[i].id, b2p', p2b')
    <2>1. CASE i \in 1..n /\ delivered'[i] = delivered[i]
      BY <1>2, <1>8, <1>9, <2>1
    <2>2. CASE delivered'[i] = h
      BY <1>2, <1>8, <2>2
    <2> QED BY <1>5, <2>1, <2>2
  <1>12. \A i \in 1..Len(b2p') : b2p'[i].id <= Left' /\ \A k \in 1..Len(p2b') : b2p'[i].id < p2b'[k].id
    BY <1>2, <1>6 DEF OrderInv
  <1>13. ASSUME NEW i \in 1..Len(b2p'), NEW j \in 1..Len(b2p'), i < j PROVE b2p'[i].id <= b2p'[j].id
    <2>1. i + 1 < j + 1
      BY <1>13
    <2> QED BY <1>6, <2>1 DEF OrderInv
  <1>14. OnlyRefusalsOvertake'
    BY <1>10 DEF OnlyRefusalsOvertake
  <1> QED BY <1>11, <1>12, <1>13, <1>14 DEF OrderInv

\* The server takes a message.
LEMMA OrderServed ==
  ASSUME IInv, SentInv, OrderInv, RecordKept, Serves
  PROVE  OrderInv'
  <1> DEFINE x == Head(p2b).id
  <1>1. /\ p2b # <<>> /\ p2b' = Tail(p2b) /\ UNCHANGED delivered /\ Extends(b2p, b2p', x)
        /\ Left' = Left
    BY DEF Serves, Left, Taken
  <1>2. /\ \A i \in 1..Len(delivered) : delivered[i].id \in Ids /\ delivered[i].id \in Int
        /\ \A i \in 1..Len(b2p) : b2p[i].id \in Int
        /\ Len(b2p) \in Nat /\ Left \in Nat
    BY AnswerIds, Counts
  <1>3. /\ x \in 1..Left /\ \E l \in 1..Len(p2b) : p2b[l].id = x
        /\ \A k \in 1..Len(p2b') : /\ x < p2b'[k].id /\ p2b'[k].id \in Int
                                   /\ \E l \in 1..Len(p2b) : p2b[l] = p2b'[k]
    <2>1. /\ x \in IdsIn(p2b)
          /\ \A k \in 1..Len(p2b') : k + 1 \in 1..Len(p2b) /\ p2b'[k] = p2b[k + 1] /\ x < p2b'[k].id
      BY <1>1, ServedMessage
    <2>2. \E l \in 1..Len(p2b) : p2b[l].id = x
      BY <2>1 DEF IdsIn
    <2>3. \A k \in 1..Len(p2b) : p2b[k].id \in 1..Left
      BY Counts
    <2> HIDE DEF x
    <2>4. x \in 1..Left
      BY <2>2, <2>3
    <2>5. ASSUME NEW k \in 1..Len(p2b')
          PROVE  x < p2b'[k].id /\ p2b'[k].id \in Int /\ \E l \in 1..Len(p2b) : p2b[l] = p2b'[k]
      <3>1. k + 1 \in 1..Len(p2b) /\ p2b'[k] = p2b[k + 1] /\ x < p2b'[k].id
        BY <2>1
      <3>2. p2b[k + 1].id \in 1..Left
        BY <2>3, <3>1
      <3>3. p2b'[k].id \in Int
        BY <1>2, <3>1, <3>2
      <3> QED BY <3>1, <3>3, Zenon
    <2> QED BY <2>2, <2>4, <2>5
  <1> HIDE DEF x
  <1>4. ASSUME NEW i \in 1..Len(b2p')
        PROVE  (i \in 1..Len(b2p) /\ b2p'[i] = b2p[i]) \/ (i > Len(b2p) /\ b2p'[i].id = x)
    <2>1. Len(b2p') \in Nat
      BY <1>1 DEF Extends
    <2> QED BY <1>1, <1>2, <2>1 DEF Extends
  <1>5. ASSUME NEW i \in 1..Len(b2p) PROVE b2p[i].id <= Left /\ b2p[i].id < x
    BY <1>3 DEF OrderInv
  <1>6. ASSUME NEW id \in Int, Settled(id, b2p, p2b) PROVE Settled(id, b2p', p2b')
    <2>1. id < x
      BY <1>3, <1>6 DEF Settled
    <2>2. \A k \in 1..Len(b2p') : id <= b2p'[k].id
      BY <1>3, <1>4, <1>6, <2>1 DEF Settled
    <2>3. \A k \in 1..Len(p2b') : id < p2b'[k].id
      BY <1>3, <1>6 DEF Settled
    <2> QED BY <2>2, <2>3 DEF Settled
  <1>7. ASSUME NEW i \in 1..Len(delivered)
        PROVE  /\ delivered[i].id <= Left'
               /\ audited'[delivered[i].id] = audited[delivered[i].id]
               /\ audited'[delivered[i].id] \in Refused \/ Settled(delivered[i].id, b2p', p2b')
    BY <1>1, <1>2, <1>6 DEF OrderInv, RecordKept
  <1>8. OnlyRefusalsOvertake'
    BY <1>1, <1>7 DEF OrderInv, OnlyRefusalsOvertake
  <1>9. ASSUME NEW i \in 1..Len(b2p')
        PROVE  b2p'[i].id <= Left' /\ \A k \in 1..Len(p2b') : b2p'[i].id < p2b'[k].id
    <2>1. x \in Int /\ x <= Left
      BY <1>2, <1>3
    <2>2. b2p'[i].id \in Int /\ b2p'[i].id <= Left /\ b2p'[i].id <= x
      <3>1. CASE i \in 1..Len(b2p) /\ b2p'[i] = b2p[i]
        <4>1. b2p[i].id \in Int /\ b2p[i].id <= Left /\ b2p[i].id < x
          BY <1>2, <1>5, <3>1
        <4> QED BY <2>1, <3>1, <4>1
      <3>2. CASE b2p'[i].id = x
        BY <2>1, <3>2
      <3> QED BY <1>4, <3>1, <3>2
    <2>3. ASSUME NEW k \in 1..Len(p2b') PROVE b2p'[i].id < p2b'[k].id
      <3>1. x < p2b'[k].id /\ p2b'[k].id \in Int
        BY <1>3
      <3> QED BY <2>1, <2>2, <3>1
    <2> QED BY <1>1, <2>2, <2>3
  <1>10. ASSUME NEW i \in 1..Len(b2p'), NEW j \in 1..Len(b2p'), i < j PROVE b2p'[i].id <= b2p'[j].id
    <2>1. CASE j \in 1..Len(b2p) /\ b2p'[j] = b2p[j]
      <3>1. i \in 1..Len(b2p) /\ b2p'[i] = b2p[i]
        BY <1>2, <1>4, <1>10, <2>1
      <3> QED BY <1>10, <2>1, <3>1 DEF OrderInv
    <2>2. CASE b2p'[j].id = x
      BY <1>2, <1>3, <1>4, <1>5, <2>2
    <2> QED BY <1>4, <2>1, <2>2
  <1> QED BY <1>1, <1>7, <1>8, <1>9, <1>10 DEF OrderInv

\* However far the client runs ahead and whatever it has in flight, the only
\* answers that overtake those to earlier messages are the proxy's own, for
\* messages the audit has on record as refused.
THEOREM RefusalsAloneOvertake == Spec => []OnlyRefusalsOvertake
  <1>1. Init => OrderInv
    <2> SUFFICES ASSUME Init PROVE OrderInv
      OBVIOUS
    <2>1. Len(delivered) = 0 /\ Len(b2p) = 0
      BY DEF Init
    <2> QED BY <2>1 DEF OrderInv, OnlyRefusalsOvertake
  <1>2. IInv /\ TrafficInv /\ OrderInv /\ [Next]_vars => OrderInv'
    <2> SUFFICES ASSUME IInv, SentInv, OrderInv, [Next]_vars PROVE OrderInv'
      BY DEF TrafficInv
    <2>1. CASE Next
      <3>1. Traffic /\ Moved /\ RecordKept
        BY <2>1, StepIsTraffic, Moves, RecordStays
      <3>2. CASE Sends \/ Takes \/ Thinks
        BY <3>1, <3>2, OrderQuiet DEF Sends, Takes, Thinks
      <3>3. CASE Finishes
        BY <2>1, <3>1, <3>3, OrderQuiet, OrderRefused DEF Finishes
      <3>4. CASE Relays
        BY <3>1, <3>4, OrderRelayed
      <3>5. CASE Serves
        BY <3>1, <3>5, OrderServed
      <3> QED BY <3>1, <3>2, <3>3, <3>4, <3>5 DEF Traffic
    <2>2. CASE UNCHANGED vars
      <3>1. UNCHANGED <<delivered, b2p, p2b, audited>> /\ Left' = Left
        BY <2>2 DEF vars, client, task, Left, Taken
      <3> QED BY <3>1 DEF OrderInv, OnlyRefusalsOvertake, Settled
    <2> QED BY <2>1, <2>2
  <1>3. OrderInv => OnlyRefusalsOvertake
    BY DEF OrderInv
  <1> QED BY <1>1, <1>2, <1>3, TrafficInvariance, PTL DEF Spec

-----------------------------------------------------------------------------
(***************************************************************************)
(* The client that waits for the answer to each message (Window = "step"). *)
(*                                                                         *)
(* One message is under way at a time: at the proxy's socket, with the     *)
(* task or on its way to the server.  Its answers come when it is not      *)
(* under way any more, and the one that completes them is the last.        *)
(***************************************************************************)
Newest   == sent[Len(sent)]
Underway == c2p # <<>> \/ pc # "read" \/ p2b # <<>>

\* The answer the client waits for.
Completes(w, r) == IF EndsBatch(w[r.id]) THEN r.kind = "ready" ELSE r.kind \in {"ok", "err"}

OneAtATime ==
  /\ c2p # <<>> => Len(c2p) = 1 /\ pc = "read" /\ p2b = <<>> /\ b2p = <<>>
  /\ pc # "read" => c2p = <<>> /\ p2b = <<>> /\ b2p = <<>>
  /\ p2b # <<>> => Len(p2b) = 1 /\ p2b[1] = Newest /\ c2p = <<>> /\ pc = "read" /\ b2p = <<>>

AnswersWaited ==
  /\ \A i \in 1..Len(delivered) :
       delivered[i].id <= Len(sent) /\ (Underway => delivered[i].id < Len(sent))
  /\ \A i \in 1..Len(b2p) :
       b2p[i].id = Len(sent) /\ (i < Len(b2p) => ~Completes(sent, b2p[i]))
  /\ b2p # <<>> =>
       \A i \in 1..Len(delivered) : delivered[i].id = Len(sent) => ~Completes(sent, delivered[i])

\* A server that discards messages has told the client of an error, and the
\* client has sent nothing but a Sync or a Terminate since.
SkipInv ==
  /\ pc # "read" => Newest.type \notin {"Sync", "Terminate"}
  /\ bSkip /\ Underway => Newest.type \in {"Sync", "Terminate"}
  /\ bSkip /\ ~Underway =>
       /\ sent # <<>>
       /\ \/ Newest.type = "Terminate"
          \/ /\ Len(sent) \in KindIds(delivered, "err") \cup KindIds(b2p, "err")
             /\ Len(sent) \notin KindIds(delivered, "ready") \cup KindIds(b2p, "ready")

\* The answers come in the order of the messages.
ResponsesInOrder ==
  \A i, j \in 1..Len(delivered) : i < j => delivered[i].id <= delivered[j].id

WaitInv == OneAtATime /\ AnswersWaited /\ ResponsesInOrder /\ SkipInv

\* The message under way is the newest one.
LEMMA UnderwayIsNewest ==
  ASSUME IInv, SentInv, OneAtATime
  PROVE  /\ c2p # <<>> => Head(c2p) = Newest /\ c2p = <<Newest>>
         /\ pc # "read" => cur[1] = Newest
         /\ p2b # <<>> => Head(p2b) = Newest /\ p2b = <<Newest>>
         /\ Underway => sent # <<>>
         /\ Len(sent) \in Nat
         /\ sent # <<>> => Newest \in Msg /\ Newest.id = Len(sent) /\ Len(sent) \in Ids
  <1>1. /\ sent \in Seq(Msg) /\ c2p \in Seq(Msg) /\ p2b \in Seq(Msg) /\ Len(sent) <= MaxSent
        /\ Len(sent) \in Nat /\ Len(c2p) \in Nat /\ Len(p2b) \in Nat
    BY DEF IInv, TypeOK, QueuesTyped
  <1>2. /\ Taken \in Nat /\ Left \in Nat /\ Left <= Taken /\ Taken <= Len(sent)
        /\ pc # "read" => cur[1].id = Taken /\ Taken \in Ids
        /\ \A i \in 1..Len(p2b) : p2b[i].id \in 1..Left
    BY Counts
  <1>3. ASSUME sent # <<>> PROVE Newest \in Msg /\ Newest.id = Len(sent) /\ Len(sent) \in Ids
    <2>1. Len(sent) \in 1..Len(sent)
      BY <1>1, <1>3
    <2>2. Len(sent) \in Ids
      BY <1>1, <2>1, BoundAssumption DEF Ids
    <2> QED BY <1>1, <2>1, <2>2 DEF Newest, SentInv
  <1>4. ASSUME c2p # <<>> PROVE Head(c2p) = Newest /\ c2p = <<Newest>> /\ sent # <<>>
    <2>1. Len(c2p) = 1 /\ Head(c2p) = c2p[1] /\ c2p = <<c2p[1]>>
      BY <1>1, <1>4 DEF OneAtATime
    <2>2. c2p[1] = sent[Taken + 1] /\ Taken + 1 = Len(sent)
      BY <1>1, <2>1 DEF SentInv, Taken
    <2>3. sent # <<>>
      BY <1>2, <2>2
    <2> QED BY <2>1, <2>2, <2>3 DEF Newest
  <1>5. ASSUME pc # "read" PROVE cur[1] = Newest /\ sent # <<>>
    <2>1. Taken = Len(sent)
      BY <1>1, <1>5 DEF OneAtATime, Taken
    <2>2. Taken # 0
      BY <1>2, <1>5, BoundAssumption DEF Ids
    <2> QED BY <1>5, <2>1, <2>2 DEF SentInv, Newest
  <1>6. ASSUME p2b # <<>> PROVE Head(p2b) = Newest /\ p2b = <<Newest>> /\ sent # <<>>
    <2>1. Len(p2b) = 1 /\ Head(p2b) = p2b[1] /\ p2b = <<p2b[1]>> /\ p2b[1] = Newest
      BY <1>1, <1>6 DEF OneAtATime
    <2>2. 1 \in 1..Len(p2b)
      BY <2>1
    <2>3. sent # <<>>
      BY <1>2, <2>2
    <2> QED BY <2>1, <2>3
  <1> QED BY <1>1, <1>3, <1>4, <1>5, <1>6 DEF Underway

\* The client sends only when everything is answered.
LEMMA SendsWhenQuiet ==
  ASSUME IInv, SentInv, OneAtATime, AnswersWaited, Window = "step", NEW r, MaySend(r)
  PROVE  ~Underway /\ b2p = <<>>
  <1>1. /\ sent \in Seq(Msg) /\ b2p \in Seq(Response) /\ delivered \in Seq(Response)
        /\ Len(b2p) \in Nat /\ Len(delivered) \in Nat
    BY DEF IInv, TypeOK, QueuesTyped
  <1>2. StepMaySend(r)
    BY DEF MaySend
  <1>3. CASE sent = <<>>
    <2>1. ~Underway
      BY <1>3, UnderwayIsNewest
    <2>2. ASSUME b2p # <<>> PROVE FALSE
      <3>1. 1 \in 1..Len(b2p) /\ b2p[1] \in Response
        BY <1>1, <2>2
      <3>2. b2p[1].id = 0 /\ b2p[1].id \in Ids
        BY <1>3, <3>1 DEF AnswersWaited, Response
      <3> QED BY <3>2, BoundAssumption DEF Ids
    <2> QED BY <2>1, <2>2
  <1>4. CASE sent # <<>>
    <2>1. Answered(Newest) /\ Newest.id = Len(sent)
      BY <1>2, <1>4, UnderwayIsNewest DEF StepMaySend, Newest
    <2>2. PICK i \in 1..Len(delivered) :
             /\ delivered[i].id = Len(sent)
             /\ delivered[i].kind \in IF EndsBatch(Newest) THEN {"ready"} ELSE {"ok", "err"}
      BY <2>1 DEF Answered, Got
    <2>3. Completes(sent, delivered[i])
      BY <2>2 DEF Completes, Newest
    <2>4. ~Underway
      BY <2>2, UnderwayIsNewest DEF AnswersWaited
    <2> QED BY <2>2, <2>3, <2>4 DEF AnswersWaited
  <1> QED BY <1>3, <1>4

\* What the server answers: one answer unless the message ends a batch, and
\* an error without ReadyForQuery when it begins to discard messages.
Replies ==
  /\ ~EndsBatch(Head(p2b)) => Len(b2p') <= Len(b2p) + 1
  /\ bSkip' => \/ bSkip /\ Head(p2b).type # "Sync"
               \/ Adds(b2p, b2p', "err") /\ ~Adds(b2p, b2p', "ready")

\* Every answer of the server is of that form.
LEMMA ServerReplies ==
  ASSUME IInv, Backend
  PROVE  Replies
  <1> DEFINE m == Head(p2b)
  <1>1. m \in Msg /\ b2p \in Seq(Response) /\ Len(b2p) \in Nat /\ p2b # <<>>
    <2>1. p2b # <<>>
      BY DEF Backend, BackendSkips, BackendRejects, BackendPrepares, BackendExecutes,
             BackendQueries, BackendSyncs, BackendCalls, BackendTerminates, Receive
    <2> QED BY <2>1, TailFacts DEF IInv, TypeOK, QueuesTyped
  <1>2. /\ Ok(m) \in Response /\ Err(m) \in Response /\ Ready(m, bTx) \in Response
        /\ Err(m).kind = "err"
    <2>1. bTx \in TxStatus
      BY DEF IInv, TypeOK, BackendTyped
    <2>2. Ok(m) \in Response /\ Err(m) \in Response /\ Ready(m, bTx) \in Response
      BY <1>1, <2>1, AnswersTyped DEF IInv
    <2>3. Err(m).kind = "err"
      BY DEF Err
    <2> QED BY <2>2, <2>3
  <1>3. ASSUME NEW a \in Response
        PROVE  /\ Len(Append(b2p, a)) = Len(b2p) + 1
               /\ Adds(b2p, Append(b2p, a), a.kind)
    <2>1. Len(Append(b2p, a)) = Len(b2p) + 1 /\ Append(b2p, a)[Len(b2p) + 1] = a
      BY <1>1, AppendFacts
    <2> QED BY <1>1, <2>1 DEF Adds
  <1>4. CASE BackendSkips
    BY <1>1, <1>4 DEF BackendSkips, Replies
  <1>5. CASE BackendRejects
    <2>1. CASE Alone(m)
      BY <1>5, <2>1 DEF BackendRejects, Replies, EndsBatch
    <2>2. CASE ~Alone(m)
      <3>1. b2p' = b2p \o <<Err(m)>>
        BY <1>5, <2>2 DEF BackendRejects
      <3>2. b2p' = Append(b2p, Err(m))
        BY <1>1, <1>2, <3>1, ConcatOne
      <3>3. ~Adds(b2p, b2p', "ready")
        BY <1>1, <1>2, <3>2, ExtendsOne
      <3> QED BY <1>1, <1>2, <1>3, <3>2, <3>3 DEF Replies
    <2> QED BY <2>1, <2>2
  <1>6. CASE BackendPrepares \/ BackendExecutes
    <2>1. ~bSkip /\ bSkip' = bSkip /\ b2p' = Append(b2p, Ok(m))
      BY <1>6 DEF BackendPrepares, BackendExecutes
    <2> QED BY <1>1, <1>2, <1>3, <2>1 DEF Replies
  <1>7. CASE BackendQueries
    BY <1>7 DEF BackendQueries, Replies, EndsBatch, Alone
  <1>8. CASE BackendSyncs
    BY <1>8 DEF BackendSyncs, Replies, EndsBatch
  <1>9. CASE BackendCalls
    BY <1>9 DEF BackendCalls, Replies, EndsBatch, Alone
  <1>10. CASE BackendTerminates
    BY <1>1, <1>10 DEF BackendTerminates, backend, Replies
  <1> QED BY <1>4, <1>5, <1>6, <1>7, <1>8, <1>9, <1>10 DEF Backend

\* A queue that was empty gets one element, one of length 1 gets empty.
LEMMA ShortQueues ==
  ASSUME NEW S, NEW q \in Seq(S), NEW x \in S
  PROVE  /\ q = <<>> => Append(q, x) = <<x>>
         /\ Len(q) = 1 => Tail(q) = <<>>
         /\ q # <<>> => Len(q) \in Nat \ {0}
  <1>1. ASSUME q = <<>> PROVE Append(q, x) = <<x>>
    BY <1>1
  <1>2. ASSUME Len(q) = 1 PROVE Tail(q) = <<>>
    <2>0. q # <<>>
      BY <1>2
    <2> DEFINE t == Tail(q)
    <2>1. t \in Seq(S) /\ Len(t) = Len(q) - 1
      BY <2>0, TailFacts, Zenon
    <2> HIDE DEF t
    <2>2. t = <<>>
      BY <1>2, <2>1
    <2> QED BY <2>2 DEF t
  <1> QED BY <1>1, <1>2

\* One message stays under way.
LEMMA OneNext ==
  ASSUME IInv, SentInv, OneAtATime, Traffic, Sends => ~Underway /\ b2p = <<>>
  PROVE  /\ OneAtATime'
         /\ Len(sent') \in Nat /\ Len(sent) <= Len(sent')
         /\ Sends => Underway' /\ Len(sent') = Len(sent) + 1 /\ UNCHANGED <<delivered, b2p>>
         /\ ~Sends => UNCHANGED sent /\ Newest' = Newest /\ (Underway' => Underway)
         /\ Relays => ~Underway
         /\ Finishes => Underway
         /\ Serves => Underway /\ ~Underway' /\ b2p = <<>>
         /\ Takes \/ Thinks => Underway /\ UNCHANGED <<delivered, b2p>>
  <1>1. /\ sent \in Seq(Msg) /\ c2p \in Seq(Msg) /\ p2b \in Seq(Msg)
        /\ Len(sent) \in Nat /\ Len(c2p) \in Nat /\ Len(p2b) \in Nat
    BY DEF IInv, TypeOK, QueuesTyped
  <1>2. /\ c2p # <<>> => Head(c2p) = Newest /\ Newest \in Msg
        /\ pc # "read" => cur[1] = Newest /\ Newest \in Msg
        /\ p2b # <<>> => Head(p2b) = Newest /\ Newest \in Msg
    BY UnderwayIsNewest DEF Underway
  <1>3. CASE Sends
    <2>1. PICK m \in Msg : m.id = Len(sent) + 1 /\ sent' = Append(sent, m) /\ c2p' = Append(c2p, m)
      BY <1>3 DEF Sends
    <2>2. c2p = <<>> /\ pc = "read" /\ p2b = <<>> /\ b2p = <<>>
      BY <1>3 DEF Underway
    <2>3. c2p' = <<m>> /\ pc' = "read" /\ p2b' = <<>> /\ b2p' = <<>> /\ UNCHANGED delivered
      BY <1>1, <1>3, <2>1, <2>2, ShortQueues DEF Sends
    <2>4. Len(sent') = Len(sent) + 1
      BY <1>1, <2>1, AppendFacts
    <2>5. OneAtATime' /\ Underway'
      BY <2>3 DEF OneAtATime, Underway
    <2> QED BY <1>1, <1>3, <2>2, <2>3, <2>4, <2>5 DEF Relays, Finishes, Serves, Takes, Thinks
  <1>4. CASE Takes
    <2>1. /\ pc = "read" /\ c2p # <<>> /\ c2p' = Tail(c2p) /\ UNCHANGED <<sent, delivered, b2p>>
          /\ p2b = <<>> /\ b2p = <<>> /\ Len(c2p) = 1
      BY <1>4 DEF Takes, OneAtATime
    <2>2. c2p' = <<>> /\ b2p' = <<>> /\ Newest' = Newest
      BY <1>1, <1>2, <2>1, ShortQueues DEF Newest
    <2>3. \/ pc' # "read" /\ p2b' = <<>>
          \/ pc' = "read" /\ p2b' = <<>>
          \/ pc' = "read" /\ p2b' = <<Newest>>
      <3>1. p2b' = Append(p2b, Head(c2p)) => p2b' = <<Newest>>
        BY <1>1, <1>2, <2>1, ShortQueues
      <3> QED BY <1>4, <2>1, <3>1 DEF Takes
    <2>4. OneAtATime'
      BY <2>2, <2>3 DEF OneAtATime
    <2>5. Underway
      BY <2>1 DEF Underway
    <2> QED BY <1>1, <1>4, <2>1, <2>2, <2>4, <2>5 DEF Sends, Relays, Finishes, Serves, Thinks
  <1>5. CASE Thinks
    <2>1. pc # "read" /\ pc' # "read" /\ UNCHANGED <<sent, delivered, c2p, p2b, b2p>>
      BY <1>5 DEF Thinks
    <2>2. OneAtATime' /\ Newest' = Newest
      BY <2>1 DEF OneAtATime, Newest
    <2>3. Underway
      BY <2>1 DEF Underway
    <2> QED BY <1>1, <2>1, <2>2, <2>3, <1>5, TailFacts DEF Sends, Relays, Finishes, Serves, Takes, OneAtATime
  <1>6. CASE Finishes
    <2>1. /\ pc # "read" /\ pc' = "read" /\ UNCHANGED <<sent, c2p, b2p>>
          /\ p2b = <<>> /\ b2p = <<>> /\ c2p = <<>>
      BY <1>6 DEF Finishes, OneAtATime
    <2>2. p2b' = <<Newest>> \/ p2b' = <<>>
      <3>1. p2b' = Append(p2b, cur[1]) => p2b' = <<Newest>>
        BY <1>1, <1>2, <2>1, ShortQueues
      <3> QED BY <1>6, <2>1, <3>1 DEF Finishes
    <2>3. OneAtATime' /\ Newest' = Newest
      BY <2>1, <2>2 DEF OneAtATime, Newest
    <2>4. Underway
      BY <2>1 DEF Underway
    <2> QED BY <1>1, <1>6, <2>1, <2>3, <2>4 DEF Sends, Relays, Serves, Takes, Thinks
  <1>7. CASE Relays
    <2>1. /\ b2p # <<>> /\ UNCHANGED <<sent, c2p, p2b, pc>>
          /\ c2p = <<>> /\ p2b = <<>> /\ pc = "read"
      BY <1>7 DEF Relays, OneAtATime
    <2>2. OneAtATime' /\ Newest' = Newest /\ ~Underway /\ ~Underway'
      BY <2>1 DEF OneAtATime, Newest, Underway
    <2> QED BY <1>1, <1>7, <2>1, <2>2 DEF Sends, Finishes, Serves, Takes, Thinks
  <1>8. CASE Serves
    <2>1. /\ p2b # <<>> /\ p2b' = Tail(p2b) /\ UNCHANGED <<sent, c2p, pc>>
          /\ c2p = <<>> /\ pc = "read" /\ b2p = <<>> /\ Len(p2b) = 1
      BY <1>8 DEF Serves, OneAtATime
    <2>2. p2b' = <<>>
      BY <1>1, <1>2, <2>1, ShortQueues
    <2>3. OneAtATime' /\ Newest' = Newest /\ Underway /\ ~Underway'
      BY <2>1, <2>2 DEF OneAtATime, Newest, Underway
    <2> QED BY <1>1, <1>8, <2>1, <2>3 DEF Sends, Finishes, Relays, Takes, Thinks
  <1> QED BY <1>3, <1>4, <1>5, <1>6, <1>7, <1>8 DEF Traffic

\* The answers stay those of the newest message, in order.
LEMMA AnswersNext ==
  ASSUME IInv, IInv', SentInv, WaitInv, Traffic, Sends => ~Underway /\ b2p = <<>>,
         Serves => Replies
  PROVE  AnswersWaited' /\ ResponsesInOrder'
  <1> USE DEF WaitInv
  <1>1. /\ delivered \in Seq(Response) /\ b2p \in Seq(Response) /\ Len(delivered) \in Nat
        /\ Len(b2p) \in Nat /\ Len(delivered') \in Nat /\ Len(b2p') \in Nat
        /\ delivered' \in Seq(Response) /\ b2p' \in Seq(Response)
    BY DEF IInv, TypeOK, QueuesTyped
  <1>2. /\ Len(sent) \in Nat
        /\ \A i \in 1..Len(delivered) : delivered[i].id \in Int
        /\ \A i \in 1..Len(b2p) : b2p[i].id \in Int
    <2>1. \A a \in Response : a.id \in Int
      BY BoundAssumption DEF Response, Ids
    <2> QED BY <1>1, <2>1 DEF IInv, TypeOK, QueuesTyped
  <1>3. Underway => b2p = <<>>
    BY DEF Underway, OneAtATime
  <1>4. CASE Sends
    <2>1. Len(sent') = Len(sent) + 1 /\ UNCHANGED <<delivered, b2p>> /\ b2p = <<>>
      BY <1>4, OneNext
    <2>2. AnswersWaited'
      BY <1>2, <2>1 DEF AnswersWaited
    <2> QED BY <2>1, <2>2 DEF ResponsesInOrder
  <1>5. CASE Takes \/ Thinks
    <2>1. Underway /\ UNCHANGED <<delivered, b2p, sent>> /\ b2p = <<>>
      BY <1>3, <1>5, OneNext DEF Takes, Thinks
    <2>2. AnswersWaited'
      BY <1>2, <2>1 DEF AnswersWaited
    <2> QED BY <2>1, <2>2 DEF ResponsesInOrder
  <1>6. CASE Finishes
    <2>1. Underway /\ b2p = <<>> /\ b2p' = <<>> /\ UNCHANGED sent
      BY <1>3, <1>6, OneNext DEF Finishes
    <2>2. CASE UNCHANGED delivered
      <3>1. AnswersWaited'
        BY <1>2, <2>1, <2>2 DEF AnswersWaited
      <3> QED BY <2>2, <3>1 DEF ResponsesInOrder
    <2>3. CASE Extends(delivered, delivered', cur[1].id) /\ UNCHANGED p2b
      <3>1. ~Underway'
        BY <1>6, <2>3 DEF Finishes, Underway, OneAtATime
      <3>2. cur[1].id = Len(sent)
        BY <1>6, UnderwayIsNewest DEF Finishes, Underway
      <3>3. \A i \in 1..Len(delivered') :
               \/ i \in 1..Len(delivered) /\ delivered'[i] = delivered[i]
               \/ i > Len(delivered) /\ delivered'[i].id = Len(sent)
        BY <1>1, <2>3, <3>2 DEF Extends
      <3>4. AnswersWaited'
        BY <1>2, <2>1, <3>1, <3>3 DEF AnswersWaited
      <3>5. ASSUME NEW i \in 1..Len(delivered'), NEW j \in 1..Len(delivered'), i < j
            PROVE  delivered'[i].id <= delivered'[j].id
        <4>1. CASE j \in 1..Len(delivered) /\ delivered'[j] = delivered[j]
          <5>1. i \in 1..Len(delivered) /\ delivered'[i] = delivered[i]
            BY <1>1, <3>3, <3>5, <4>1
          <5> QED BY <3>5, <4>1, <5>1 DEF ResponsesInOrder
        <4>2. CASE delivered'[j].id = Len(sent)
          BY <2>1, <3>4, <4>2 DEF AnswersWaited
        <4> QED BY <3>3, <4>1, <4>2
      <3>6. ResponsesInOrder'
        BY <3>5 DEF ResponsesInOrder
      <3> QED BY <3>4, <3>6
    <2> QED BY <1>6, <2>2, <2>3 DEF Finishes
  <1>7. CASE Relays
    <2>1. /\ b2p # <<>> /\ b2p' = Tail(b2p) /\ delivered' = Append(delivered, Head(b2p))
          /\ UNCHANGED <<sent, c2p, p2b, pc>>
      BY <1>7 DEF Relays
    <2>2. ~Underway /\ ~Underway'
      BY <1>7, <2>1, OneNext DEF Underway
    <2>h. PICK h : h = Head(b2p)
      OBVIOUS
    <2>3. /\ Len(b2p) # 0 /\ Len(b2p') = Len(b2p) - 1 /\ h = b2p[1] /\ h \in Response
          /\ \A i \in 1..Len(b2p) - 1 : b2p'[i] = b2p[i + 1]
      BY <1>1, <2>1, <2>h, TailFacts
    <2>4. /\ Len(delivered') = Len(delivered) + 1 /\ delivered'[Len(delivered) + 1] = h
          /\ \A i \in 1..Len(delivered) : delivered'[i] = delivered[i]
      BY <1>1, <2>1, <2>3, <2>h, AppendFacts
    <2>5. h.id = Len(sent) /\ (Len(b2p) # 1 => ~Completes(sent, h))
      BY <1>1, <2>3 DEF AnswersWaited
    <2>6. \A i \in 1..Len(delivered') :
             \/ i \in 1..Len(delivered) /\ delivered'[i] = delivered[i]
             \/ i = Len(delivered) + 1 /\ delivered'[i] = h
      BY <1>1, <2>4
    <2>7. \A i \in 1..Len(delivered') : delivered'[i].id <= Len(sent')
      BY <1>2, <2>1, <2>5, <2>6 DEF AnswersWaited
    <2>8. ASSUME NEW i \in 1..Len(b2p')
          PROVE  b2p'[i].id = Len(sent') /\ (i < Len(b2p') => ~Completes(sent', b2p'[i]))
      <3>1. i + 1 \in 1..Len(b2p) /\ b2p'[i] = b2p[i + 1]
        BY <1>1, <2>3
      <3> QED BY <1>1, <2>1, <2>2, <2>3, <3>1 DEF AnswersWaited
    <2>9. ASSUME b2p' # <<>>, NEW i \in 1..Len(delivered'), delivered'[i].id = Len(sent')
          PROVE  ~Completes(sent', delivered'[i])
      <3>1. ~Completes(sent, h)
        BY <1>1, <2>3, <2>5, <2>9
      <3>2. i \in 1..Len(delivered) => ~Completes(sent, delivered[i])
        BY <2>1, <2>6, <2>9 DEF AnswersWaited
      <3> QED BY <2>1, <2>6, <3>1, <3>2
    <2>10. AnswersWaited'
      BY <2>2, <2>7, <2>8, <2>9 DEF AnswersWaited
    <2>11. ASSUME NEW i \in 1..Len(delivered'), NEW j \in 1..Len(delivered'), i < j
           PROVE  delivered'[i].id <= delivered'[j].id
      <3>1. i \in 1..Len(delivered) /\ delivered'[i] = delivered[i]
        BY <1>1, <2>4, <2>6, <2>11
      <3>2. CASE j \in 1..Len(delivered)
        BY <2>4, <2>11, <3>1, <3>2 DEF ResponsesInOrder
      <3>3. CASE delivered'[j] = h
        BY <2>5, <3>1, <3>3 DEF AnswersWaited
      <3> QED BY <2>6, <3>2, <3>3
    <2>12. ResponsesInOrder'
      BY <2>11 DEF ResponsesInOrder
    <2> QED BY <2>10, <2>12
  <1>8. CASE Serves
    <2>1. Underway /\ ~Underway' /\ b2p = <<>> /\ UNCHANGED <<delivered, sent>>
      BY <1>8, OneNext DEF Serves
    <2>2. Head(p2b) = Newest /\ Newest.id = Len(sent)
      BY <1>8, UnderwayIsNewest DEF Serves, Underway
    <2>3. \A i \in 1..Len(b2p') : b2p'[i].id = Len(sent) /\ (b2p'[i].kind = "ready" => i = Len(b2p'))
      BY <1>1, <1>8, <2>1, <2>2 DEF Serves, Extends
    <2>4. ~EndsBatch(Newest) => Len(b2p') <= 1
      BY <1>8, <2>1, <2>2 DEF Replies
    <2>5. ASSUME NEW i \in 1..Len(b2p'), i < Len(b2p') PROVE ~Completes(sent', b2p'[i])
      BY <1>1, <2>1, <2>3, <2>4, <2>5 DEF Completes, Newest
    <2>6. AnswersWaited'
      BY <1>2, <2>1, <2>3, <2>5 DEF AnswersWaited
    <2> QED BY <2>1, <2>6 DEF ResponsesInOrder
  <1> QED BY <1>4, <1>5, <1>6, <1>7, <1>8 DEF Traffic

\* A Sync or a Terminate is always forwarded at once.
LEMMA SyncForwarded ==
  ASSUME IInv, ClientTask, Takes
  PROVE  \/ Head(c2p).type \notin {"Sync", "Terminate"}
         \/ p2b' = Append(p2b, Head(c2p)) /\ pc' = "read"
  <1>1. pc = "read"
    BY DEF Takes
  <1>2. CASE SyncAfterError \/ TerminateAfterError \/ HandleOther
    BY <1>1, <1>2 DEF SyncAfterError, TerminateAfterError, HandleOther, task
  <1>3. CASE \/ SkipUntilSync \/ HandleMalformed \/ HandleSimpleQuery \/ HandleParse
             \/ HandleBind \/ HandleClose \/ HandleExecute
    <2>1. CASE SkipUntilSync
      BY <2>1 DEF SkipUntilSync, Reading
    <2>2. CASE HandleMalformed
      BY <2>2 DEF HandleMalformed, Reading, Unread
    <2>3. CASE HandleSimpleQuery
      BY <2>3 DEF HandleSimpleQuery, Reading
    <2>4. CASE HandleParse
      BY <2>4 DEF HandleParse, Reading
    <2>5. CASE HandleBind
      BY <2>5 DEF HandleBind, Reading
    <2>6. CASE HandleClose
      BY <2>6 DEF HandleClose, Reading
    <2>7. CASE HandleExecute
      BY <2>7 DEF HandleExecute, Reading
    <2> QED BY <1>3, <2>1, <2>2, <2>3, <2>4, <2>5, <2>6, <2>7
  <1>4. CASE EstimateDone \/ UserDecides \/ AuditWritten
    BY <1>1, <1>4 DEF EstimateDone, UserDecides, AuditWritten
  <1> QED BY <1>2, <1>3, <1>4 DEF ClientTask

\* Relaying an answer loses none.
LEMMA RelayedKinds ==
  ASSUME IInv, Relays, NEW k
  PROVE  KindIds(delivered, k)' \cup KindIds(b2p, k)' = KindIds(delivered, k) \cup KindIds(b2p, k)
  <1>1. /\ delivered \in Seq(Response) /\ b2p \in Seq(Response) /\ b2p # <<>>
        /\ b2p' = Tail(b2p) /\ delivered' = Append(delivered, Head(b2p))
    BY DEF IInv, TypeOK, QueuesTyped, Relays
  <1>h. PICK h : h = Head(b2p)
    OBVIOUS
  <1>2. h \in Response
    BY <1>1, <1>h, TailFacts
  <1>3. KindIds(Append(delivered, h), k) = KindIds(delivered, k) \cup (IF h.kind = k THEN {h.id} ELSE {})
    <2> DEFINE q == Append(delivered, h)
    <2>1. /\ Len(q) = Len(delivered) + 1 /\ q[Len(delivered) + 1] = h /\ Len(delivered) \in Nat
          /\ \A i \in 1..Len(delivered) : q[i] = delivered[i]
      BY <1>1, <1>2, AppendFacts
    <2> HIDE DEF q
    <2>2. /\ \A i \in 1..Len(q) : i = Len(delivered) + 1 \/ i \in 1..Len(delivered)
          /\ \A i \in 1..Len(delivered) : i \in 1..Len(q)
          /\ Len(delivered) + 1 \in 1..Len(q)
      BY <2>1
    <2>3. ASSUME NEW x \in KindIds(q, k)
          PROVE  x \in KindIds(delivered, k) \/ (h.kind = k /\ x = h.id)
      <3>1. PICK i \in 1..Len(q) : q[i].kind = k /\ x = q[i].id
        BY DEF KindIds
      <3> QED BY <2>1, <2>2, <3>1 DEF KindIds
    <2>4. ASSUME NEW x \in KindIds(delivered, k) PROVE x \in KindIds(q, k)
      BY <2>1, <2>2 DEF KindIds
    <2>5. h.kind = k => h.id \in KindIds(q, k)
      BY <2>1, <2>2 DEF KindIds
    <2>6. KindIds(q, k) = KindIds(delivered, k) \cup (IF h.kind = k THEN {h.id} ELSE {})
      BY <2>3, <2>4, <2>5
    <2> QED BY <2>6 DEF q
  <1>4. /\ KindIds(Tail(b2p), k) \subseteq KindIds(b2p, k)
        /\ KindIds(b2p, k) \subseteq KindIds(Tail(b2p), k) \cup {h.id}
        /\ h.id \in KindIds(b2p, h.kind)
        /\ h.kind # k => KindIds(Tail(b2p), k) = KindIds(b2p, k)
    BY <1>1, <1>h, KindTail
  <1>5. KindIds(delivered, k)' = KindIds(delivered', k) /\ KindIds(b2p, k)' = KindIds(b2p', k)
    OBVIOUS
  <1>6. /\ KindIds(delivered', k) = KindIds(delivered, k) \cup (IF h.kind = k THEN {h.id} ELSE {})
        /\ KindIds(b2p', k) = KindIds(Tail(b2p), k)
    BY <1>1, <1>3, <1>h
  <1> QED BY <1>4, <1>5, <1>6

\* The client sends a Sync or a Terminate when the server discards messages.
LEMMA SyncWhenSkipped ==
  ASSUME IInv, SentInv, WaitInv, Window = "step", NEW r, MaySend(r), bSkip
  PROVE  r.type \in {"Sync", "Terminate"}
  <1>1. ~Underway /\ b2p = <<>>
    BY SendsWhenQuiet DEF WaitInv
  <1>2. KindIds(b2p, "err") = {}
    BY <1>1 DEF KindIds
  <1>3. /\ sent # <<>> /\ Len(sent) \in KindIds(delivered, "err")
        /\ Len(sent) \notin KindIds(delivered, "ready")
    <2>1. sent # <<>>
      BY <1>1 DEF WaitInv, SkipInv
    <2>2. Newest.type # "Terminate"
      BY <2>1 DEF MaySend, Newest
    <2> QED BY <1>1, <1>2, <2>1, <2>2 DEF WaitInv, SkipInv
  <1>4. Newest.id = Len(sent)
    BY <1>3, UnderwayIsNewest DEF WaitInv
  <1>5. Got(Newest, {"err"}) /\ ~Got(Newest, {"ready"})
    BY <1>3, <1>4 DEF KindIds, Got
  <1>6. StepMaySend(r)
    BY DEF MaySend
  <1> QED BY <1>3, <1>5, <1>6 DEF StepMaySend, Newest, Answered

\* The server discards nothing but what follows an error the client was told.
LEMMA SkipNext ==
  ASSUME IInv, SentInv, WaitInv, Window = "step", Next, Traffic,
         Sends => ~Underway /\ b2p = <<>>, Serves => Replies, Takes => ClientTask,
         Sends => (bSkip => Newest'.type \in {"Sync", "Terminate"})
  PROVE  SkipInv'
  <1> USE DEF WaitInv
  <1>1. /\ delivered \in Seq(Response) /\ b2p \in Seq(Response) /\ Len(delivered) \in Nat
        /\ Len(sent) \in Nat /\ \A i \in 1..Len(delivered) : delivered[i].id \in Int
    <2>1. \A a \in Response : a.id \in Int
      BY BoundAssumption DEF Response, Ids
    <2> QED BY <2>1 DEF IInv, TypeOK, QueuesTyped
  <1>2. CASE Sends
    <2>1. Underway' /\ bSkip' = bSkip /\ pc' = pc /\ pc = "read"
      BY <1>2, OneNext DEF Sends, Underway
    <2> QED BY <1>2, <2>1 DEF SkipInv
  <1>3. CASE Takes
    <2>1. c2p # <<>> /\ Head(c2p) = Newest /\ Newest' = Newest /\ Underway /\ bSkip' = bSkip
      BY <1>3, UnderwayIsNewest, OneNext DEF Takes, Underway, Sends
    <2>2. Newest.type \in {"Sync", "Terminate"} => Underway' /\ pc' = "read"
      <3>1. Newest.type \in {"Sync", "Terminate"} => p2b' = Append(p2b, Newest) /\ pc' = "read"
        BY <1>3, <2>1, SyncForwarded
      <3>2. p2b \in Seq(Msg) /\ Newest \in Msg
        BY <2>1, UnderwayIsNewest DEF IInv, TypeOK, QueuesTyped
      <3>3. Len(Append(p2b, Newest)) # 0
        BY <3>2, AppendFacts
      <3> QED BY <3>1, <3>3 DEF Underway
    <2>3. bSkip => Newest.type \in {"Sync", "Terminate"}
      BY <2>1 DEF SkipInv
    <2> QED BY <2>1, <2>2, <2>3 DEF SkipInv
  <1>4. CASE Thinks
    <2>1. Newest' = Newest /\ Underway /\ Underway' /\ bSkip' = bSkip /\ pc # "read"
      BY <1>4, OneNext DEF Thinks, Underway, Newest
    <2> QED BY <2>1 DEF SkipInv
  <1>5. CASE Finishes
    <2>1. pc # "read" /\ pc' = "read" /\ bSkip' = bSkip /\ Underway
      BY <1>5, OneNext DEF Finishes
    <2> QED BY <2>1 DEF SkipInv
  <1>6. CASE Relays
    <2>1. UNCHANGED <<sent, c2p, p2b, pc, bSkip>> /\ ~Underway /\ ~Underway'
      BY <1>6, OneNext DEF Relays, Underway
    <2>2. \A k : KindIds(delivered, k)' \cup KindIds(b2p, k)' = KindIds(delivered, k) \cup KindIds(b2p, k)
      BY <1>6, RelayedKinds
    <2>3. pc = "read" /\ Newest' = Newest
      BY <2>1 DEF Underway, Newest
    <2> QED BY <2>1, <2>2, <2>3 DEF SkipInv
  <1>7. CASE Serves
    <2>1. Underway /\ ~Underway' /\ b2p = <<>> /\ UNCHANGED <<delivered, sent>>
      BY <1>7, OneNext DEF Serves
    <2>2. Head(p2b) = Newest /\ Newest.id = Len(sent) /\ sent # <<>>
      BY <1>7, UnderwayIsNewest DEF Serves, Underway
    <2>3. bSkip' => \/ Newest'.type = "Terminate"
                    \/ Adds(b2p, b2p', "err") /\ ~Adds(b2p, b2p', "ready")
      <3>1. Newest' = Newest
        BY <2>1 DEF Newest
      <3> QED BY <1>7, <2>1, <2>2, <3>1 DEF Replies, SkipInv
    <2>4. Extends(b2p, b2p', Len(sent))
      BY <1>7, <2>2 DEF Serves
    <2>5. Adds(b2p, b2p', "err") => Len(sent) \in KindIds(b2p', "err")
      <3>1. ASSUME NEW i \in Len(b2p) + 1..Len(b2p'), b2p'[i].kind = "err"
            PROVE  Len(sent) \in KindIds(b2p', "err")
        <4>1. i \in 1..Len(b2p') /\ b2p'[i].id = Len(sent)
          BY <1>1, <2>1, <2>4 DEF Extends
        <4> QED BY <3>1, <4>1 DEF KindIds
      <3> QED BY <3>1 DEF Adds
    <2>6. ~Adds(b2p, b2p', "ready") => KindIds(b2p', "ready") = {}
      <3>1. KindIds(b2p, "ready") = {}
        BY <2>1 DEF KindIds
      <3> QED BY <1>1, <2>4, <3>1, KindExtends
    <2>7. Len(sent) \notin KindIds(delivered, "ready")
      <3>1. \A i \in 1..Len(delivered) : delivered[i].id # Len(sent)
        BY <1>1, <2>1 DEF AnswersWaited
      <3> QED BY <3>1 DEF KindIds
    <2>8. pc' = "read"
      BY <2>1 DEF Underway
    <2> QED BY <2>1, <2>2, <2>3, <2>5, <2>6, <2>7, <2>8 DEF SkipInv
  <1> QED BY <1>2, <1>3, <1>4, <1>5, <1>6, <1>7 DEF Traffic

\* A step of a session whose client waits is of one kind.
LEMMA WaitSteps ==
  ASSUME IInv, SentInv, WaitInv, Window = "step", Next
  PROVE  /\ Traffic
         /\ Sends => ~Underway /\ b2p = <<>>
         /\ Sends => (bSkip => Newest'.type \in {"Sync", "Terminate"})
         /\ Sends => \E r \in Requests : ClientSend(r)
         /\ Takes \/ Thinks \/ Finishes => ClientTask
         /\ Relays => PipeBackend
         /\ Serves => Backend /\ Replies
  <1> USE DEF WaitInv
  <1>1. Traffic
    BY StepIsTraffic
  <1>2. /\ sent \in Seq(Msg) /\ Len(sent) \in Nat
        /\ Sends => Len(sent') = Len(sent) + 1
        /\ Takes \/ Thinks \/ Finishes \/ Relays \/ Serves => UNCHANGED sent
    <2>1. sent \in Seq(Msg) /\ Len(sent) \in Nat
      BY DEF IInv, TypeOK, QueuesTyped
    <2>2. Sends => Len(sent') = Len(sent) + 1
      BY <2>1, AppendFacts DEF Sends
    <2>3. Takes \/ Thinks \/ Finishes \/ Relays \/ Serves => UNCHANGED sent
      BY DEF Takes, Thinks, Finishes, Relays, Serves
    <2> QED BY <2>1, <2>2, <2>3
  <1>3. /\ Takes => ~Relays /\ ~Serves
        /\ Thinks \/ Finishes => ~Takes /\ ~Relays /\ ~Serves
        /\ Relays => ~Serves
    BY DEF Takes, Thinks, Finishes, Relays, Serves, OneAtATime
  <1>4. CASE \E r \in Requests : ClientSend(r)
    <2>1. PICK r \in Requests : ClientSend(r)
      BY <1>4
    <2>2. MaySend(r) /\ sent' = Append(sent, Number(r, Len(sent) + 1))
      BY <2>1 DEF ClientSend
    <2>3. ~Underway /\ b2p = <<>> /\ (bSkip => r.type \in {"Sync", "Terminate"})
      BY <2>2, SendsWhenQuiet, SyncWhenSkipped
    <2>4. Number(r, Len(sent) + 1).type = r.type
      BY DEF Number
    <2>5. Number(r, Len(sent) + 1) \in Msg
      <3>1. Len(sent) + 1 \in Ids
        BY <1>2, <2>1, BoundAssumption DEF ClientSend, Ids
      <3> QED BY <3>1, RequestsAssumption DEF Number, Msg, Request
    <2>6. Newest' = Number(r, Len(sent) + 1) /\ Len(sent') = Len(sent) + 1
      BY <1>2, <2>2, <2>5, AppendFacts DEF Newest
    <2>7. ~(Takes \/ Thinks \/ Finishes \/ Relays \/ Serves)
      BY <1>2, <2>6
    <2> QED BY <1>1, <1>4, <2>3, <2>4, <2>6, <2>7
  <1>5. CASE ClientTask
    <2>1. Takes \/ Thinks \/ Finishes
      BY <1>5, TaskIsTraffic
    <2> QED BY <1>1, <1>2, <1>3, <1>5, <2>1
  <1>6. CASE PipeBackend
    <2>1. Relays
      BY <1>6 DEF PipeBackend, Relays, client, task, backend
    <2> QED BY <1>1, <1>2, <1>3, <1>6, <2>1
  <1>7. CASE Backend
    <2>1. Serves /\ Replies
      BY <1>7, ServerIsTraffic, ServerReplies
    <2> QED BY <1>1, <1>2, <1>3, <1>7, <2>1
  <1> QED BY <1>4, <1>5, <1>6, <1>7 DEF Next

\* The invariant of the client that waits.
LEMMA WaitNext ==
  ASSUME IInv, IInv', SentInv, WaitInv, Window = "step", Next
  PROVE  WaitInv'
  <1>1. /\ Traffic
        /\ Sends => ~Underway /\ b2p = <<>>
        /\ Sends => (bSkip => Newest'.type \in {"Sync", "Terminate"})
        /\ Takes => ClientTask
        /\ Serves => Replies
    BY WaitSteps
  <1>2. OneAtATime'
    BY <1>1, OneNext DEF WaitInv
  <1>3. AnswersWaited' /\ ResponsesInOrder'
    BY <1>1, AnswersNext
  <1>4. SkipInv'
    BY <1>1, SkipNext
  <1> QED BY <1>2, <1>3, <1>4 DEF WaitInv

\* A session whose client waits stays within the invariant.
LEMMA WaitInvariance == ASSUME Window = "step" PROVE Spec => [](IInv /\ TrafficInv /\ WaitInv)
  <1>1. Init => WaitInv
    <2> SUFFICES ASSUME Init PROVE WaitInv
      OBVIOUS
    <2>1. /\ sent = <<>> /\ c2p = <<>> /\ p2b = <<>> /\ delivered = <<>> /\ b2p = <<>>
          /\ pc = "read" /\ bSkip = FALSE
      BY DEF Init
    <2> QED BY <2>1 DEF WaitInv, OneAtATime, AnswersWaited, ResponsesInOrder, SkipInv
  <1>2. IInv /\ IInv' /\ TrafficInv /\ WaitInv /\ [Next]_vars => WaitInv'
    <2> SUFFICES ASSUME IInv, IInv', TrafficInv, WaitInv, [Next]_vars PROVE WaitInv'
      OBVIOUS
    <2>1. CASE Next
      BY <2>1, WaitNext DEF TrafficInv
    <2>2. CASE UNCHANGED vars
      <3>1. UNCHANGED <<sent, delivered, c2p, p2b, b2p, pc, bSkip>>
        BY <2>2 DEF vars, client, task, backend
      <3>2. UNCHANGED <<Newest, Underway>>
        BY <3>1 DEF Newest, Underway
      <3>3. \A k : UNCHANGED <<KindIds(delivered, k), KindIds(b2p, k)>>
        BY <3>1
      <3> QED BY <3>1, <3>2, <3>3 DEF WaitInv, OneAtATime, AnswersWaited, ResponsesInOrder, SkipInv
    <2> QED BY <2>1, <2>2
  <1> QED BY <1>1, <1>2, TrafficInvariance, PTL DEF Spec

(***************************************************************************)
(* The transaction status the client is told.                              *)
(***************************************************************************)
\* A message behind the end of a batch, or the first one.
BeginsBatch == Len(sent) > 1 => EndsBatch(sent[Len(sent) - 1])

\* The session knows the server's status from the end of a batch until the
\* first message of the next one is done with, and every ReadyForQuery on its
\* way carries that status.
StatusKnown ==
  /\ Synced /\ Underway /\ BeginsBatch => txStatus = bTx
  /\ \A i \in 1..Len(b2p) : b2p[i].kind = "ready" => b2p[i].tx = bTx
  /\ Synced /\ ~Underway /\ b2p = <<>> /\ (sent = <<>> \/ Len(sent) \in KindIds(delivered, "ready"))
       => txStatus = bTx

\* The ReadyForQuery the client got last carries the session's status.
StatusTold ==
  Len(delivered) > 0 /\ delivered[Len(delivered)].kind = "ready"
                     /\ delivered[Len(delivered)].id = Len(sent)
    => delivered[Len(delivered)].tx = txStatus

StatusInv == StatusKnown /\ StatusTold

\* Nothing the client was told about a message under way.
LEMMA UnderwayUnanswered ==
  ASSUME IInv, SentInv, WaitInv, Underway
  PROVE  /\ sent # <<>> /\ b2p = <<>>
         /\ \A k : Len(sent) \notin KindIds(delivered, k)
         /\ \A i \in 1..Len(delivered) : delivered[i].id # Len(sent)
  <1>1. sent # <<>> /\ Len(sent) \in Nat
    BY UnderwayIsNewest DEF WaitInv
  <1>2. b2p = <<>>
    BY DEF WaitInv, OneAtATime, Underway
  <1>3. \A i \in 1..Len(delivered) : delivered[i].id < Len(sent)
    BY DEF WaitInv, AnswersWaited
  <1>4. \A i \in 1..Len(delivered) : delivered[i].id # Len(sent)
    BY <1>1, <1>3
  <1> QED BY <1>1, <1>2, <1>4 DEF KindIds

\* The client's task leaves the status alone, and makes up a ReadyForQuery
\* with it.
LEMMA TaskStatus ==
  ASSUME IInv, ClientTask
  PROVE  /\ UNCHANGED <<txStatus, bTx>>
         /\ ~(UNCHANGED delivered) =>
              /\ Finishes
              /\ Len(delivered') > 0
              /\ delivered'[Len(delivered')].kind = "ready"
                   => delivered'[Len(delivered')].tx = txStatus /\ cur[1].type = "Query"
  <1>1. UNCHANGED <<txStatus, bTx>>
    BY DEF ClientTask, SkipUntilSync, SyncAfterError, TerminateAfterError, HandleOther, HandleMalformed, HandleSimpleQuery,
           HandleParse, HandleBind, HandleClose, HandleExecute, EstimateDone, UserDecides,
           AuditWritten, proxy, backend
  <1>2. ASSUME ~(UNCHANGED delivered) PROVE AuditWritten /\ ~Passes(verdict[cur[1].id])
    BY <1>2 DEF ClientTask, SkipUntilSync, SyncAfterError, TerminateAfterError, HandleOther, HandleMalformed,
           HandleSimpleQuery, HandleParse, HandleBind, HandleClose, HandleExecute, EstimateDone,
           UserDecides, AuditWritten
  <1>3. ASSUME ~(UNCHANGED delivered)
        PROVE  /\ Finishes
               /\ Len(delivered') > 0
               /\ delivered'[Len(delivered')].kind = "ready"
                    => delivered'[Len(delivered')].tx = txStatus /\ cur[1].type = "Query"
    <2> DEFINE m == cur[1]
    <2>1. pc = "audit" /\ delivered' = delivered \o Refusal(m)
      BY <1>2, <1>3 DEF AuditWritten
    <2>2. Finishes
      <3>1. Takes \/ Thinks \/ Finishes
        BY TaskIsTraffic
      <3> QED BY <1>3, <3>1 DEF Takes, Thinks
    <2>3. /\ m \in Msg /\ delivered \in Seq(Response) /\ Len(delivered) \in Nat
          /\ Err(m) \in Response /\ Ready(m, txStatus) \in Response
      BY <2>1, CurrentTyped, AnswersTyped DEF IInv, TypeOK, QueuesTyped, StateTyped
    <2> HIDE DEF m
    <2>4. CASE m.type = "Query"
      <3> DEFINE t == <<Err(m), Ready(m, txStatus)>>
                 q == delivered \o t
      <3>1. t \in Seq(Response) /\ Len(t) = 2 /\ t[2] = Ready(m, txStatus)
        BY <2>3
      <3>2. delivered' = q
        BY <2>1, <2>4 DEF Refusal
      <3> HIDE DEF t
      <3>3. /\ Len(q) = Len(delivered) + Len(t)
            /\ \A i \in Len(delivered) + 1..Len(delivered) + Len(t) : q[i] = t[i - Len(delivered)]
        BY <2>3, <3>1, ConcatFacts, Zenon
      <3> HIDE DEF q
      <3>4. Len(q) = Len(delivered) + 2 /\ q[Len(q)] = t[2]
        BY <2>3, <3>1, <3>3
      <3>5. Ready(m, txStatus).tx = txStatus
        BY DEF Ready
      <3> QED BY <2>2, <2>3, <2>4, <3>1, <3>2, <3>4, <3>5 DEF m
    <2>5. CASE m.type # "Query"
      <3>1. delivered' = Append(delivered, Err(m))
        BY <2>1, <2>3, <2>5, ConcatOne DEF Refusal
      <3>2. Len(delivered') = Len(delivered) + 1 /\ delivered'[Len(delivered) + 1] = Err(m)
        BY <2>3, <3>1, AppendFacts
      <3>3. Err(m).kind = "err"
        BY DEF Err
      <3> QED BY <2>2, <2>3, <3>2, <3>3
    <2> QED BY <2>4, <2>5
  <1> QED BY <1>1, <1>3

\* A ReadyForQuery of the server carries its status.
LEMMA ServerStatus ==
  ASSUME IInv, Backend, b2p = <<>>
  PROVE  \A i \in 1..Len(b2p') : b2p'[i].kind = "ready" => b2p'[i].tx = bTx'
  <1> DEFINE m == Head(p2b)
  <1>1. p2b # <<>>
    BY DEF Backend, BackendSkips, BackendRejects, BackendPrepares, BackendExecutes,
             BackendQueries, BackendSyncs, BackendCalls, BackendTerminates, Receive
  <1>2. m \in Msg
    BY <1>1, TailFacts DEF IInv, TypeOK, QueuesTyped
  <1>3. \A tx : Ok(m).kind = "ok" /\ Err(m).kind = "err" /\ Ready(m, tx).tx = tx
    BY DEF Ok, Err, Ready
  <1>4. \A x : <<>> \o <<x>> = <<x>> /\ Append(<<>>, x) = <<x>>
    OBVIOUS
  <1>5. \A x, y : <<>> \o <<x, y>> = <<x, y>>
    OBVIOUS
  <1>6. CASE BackendSkips
    BY <1>6 DEF BackendSkips
  <1>7. CASE BackendRejects
    <2>1. PICK tx : bTx' = tx /\ b2p' = b2p \o (IF Alone(m) THEN <<Err(m), Ready(m, tx)>> ELSE <<Err(m)>>)
      BY <1>7 DEF BackendRejects
    <2> HIDE DEF m
    <2>2. b2p' = <<Err(m), Ready(m, tx)>> \/ b2p' = <<Err(m)>>
      BY <2>1, <1>4, <1>5
    <2> QED BY <1>3, <2>1, <2>2
  <1>8. CASE BackendPrepares \/ BackendExecutes
    <2>1. b2p' = Append(b2p, Ok(m))
      BY <1>8 DEF BackendPrepares, BackendExecutes
    <2> HIDE DEF m
    <2>2. b2p' = <<Ok(m)>>
      BY <2>1, <1>4
    <2> QED BY <1>3, <2>2
  <1>9. CASE BackendQueries
    <2>1. PICK tx : bTx' = tx /\ b2p' = b2p \o <<Ok(m), Ready(m, tx)>>
      BY <1>9 DEF BackendQueries
    <2> HIDE DEF m
    <2>2. b2p' = <<Ok(m), Ready(m, tx)>>
      BY <2>1, <1>5
    <2> QED BY <1>3, <2>1, <2>2
  <1>10. CASE BackendSyncs
    <2>1. bTx' = bTx /\ b2p' = Append(b2p, Ready(m, bTx))
      BY <1>10 DEF BackendSyncs
    <2> HIDE DEF m
    <2>2. b2p' = <<Ready(m, bTx)>>
      BY <2>1, <1>4
    <2> QED BY <1>3, <2>1, <2>2
  <1>11. CASE BackendCalls
    <2>1. bTx' = bTx /\ b2p' = b2p \o <<Ok(m), Ready(m, bTx)>>
      BY <1>11 DEF BackendCalls
    <2> HIDE DEF m
    <2>2. b2p' = <<Ok(m), Ready(m, bTx)>>
      BY <2>1, <1>5
    <2> QED BY <1>3, <2>1, <2>2
  <1>12. CASE BackendTerminates
    BY <1>12 DEF BackendTerminates
  <1> QED BY <1>6, <1>7, <1>8, <1>9, <1>10, <1>11, <1>12 DEF Backend

\* The client's task.
LEMMA StatusTask ==
  ASSUME IInv, IInv', TrafficInv, WaitInv, StatusInv, ClientTask, Takes \/ Thinks \/ Finishes,
         Window = "step"
  PROVE  StatusInv'
  <1>1. UNCHANGED <<txStatus, bTx, sent, b2p>>
    BY TaskStatus DEF Takes, Thinks, Finishes
  <1>2. /\ Underway /\ sent # <<>> /\ b2p = <<>>
        /\ \A k : Len(sent) \notin KindIds(delivered, k)
        /\ \A i \in 1..Len(delivered) : delivered[i].id # Len(sent)
    <2>1. Underway
      BY DEF Takes, Thinks, Finishes, Underway
    <2> QED BY <2>1, UnderwayUnanswered DEF TrafficInv
  <1>3. Synced' <=> Synced
    BY <1>1 DEF Synced
  <1>4. BeginsBatch' <=> BeginsBatch
    BY <1>1 DEF BeginsBatch
  <1>5. CASE UNCHANGED delivered
    <2>1. Len(sent') \notin KindIds(delivered, "ready")'
      BY <1>1, <1>2, <1>5
    <2>2. StatusKnown'
      BY <1>1, <1>2, <1>3, <1>4, <2>1 DEF StatusInv, StatusKnown
    <2>3. StatusTold'
      BY <1>1, <1>5 DEF StatusInv, StatusTold
    <2> QED BY <2>2, <2>3 DEF StatusInv
  <1>6. CASE ~(UNCHANGED delivered)
    <2>1. /\ Finishes /\ Len(delivered') > 0
          /\ delivered'[Len(delivered')].kind = "ready"
               => delivered'[Len(delivered')].tx = txStatus /\ cur[1].type = "Query"
      BY <1>6, TaskStatus
    <2>2. cur[1] = Newest /\ Newest.id = Len(sent)
      BY <1>2, <2>1, UnderwayIsNewest DEF Finishes, WaitInv, TrafficInv
    <2>3. /\ Extends(delivered, delivered', Len(sent))
          /\ Adds(delivered, delivered', "ready") => Newest.type = "Query"
      BY <1>6, <2>1, <2>2 DEF Finishes
    <2>4. ASSUME Synced', Len(sent) \in KindIds(delivered', "ready") PROVE txStatus = bTx
      <3>1. delivered \in Seq(Response)
        BY DEF IInv, TypeOK, QueuesTyped
      <3>2. Adds(delivered, delivered', "ready")
        <4>1. ~Adds(delivered, delivered', "ready")
                => KindIds(delivered', "ready") = KindIds(delivered, "ready")
          BY <2>3, <3>1, KindExtends
        <4> QED BY <1>2, <2>4, <4>1
      <3>3. Newest.type = "Query"
        BY <2>3, <3>2
      <3>4. BeginsBatch
        <4>1. Len(sent) \in Nat
          BY DEF IInv, TypeOK, QueuesTyped
        <4>2. Len(sent) > 1 => Len(sent) \in 2..Len(sent)
          BY <4>1
        <4> QED BY <1>3, <2>4, <3>3, <4>2 DEF Synced, BeginsBatch, Newest
      <3> QED BY <1>2, <1>3, <2>4, <3>4 DEF StatusInv, StatusKnown
    <2>5. KindIds(delivered, "ready")' = KindIds(delivered', "ready")
      OBVIOUS
    <2>6. StatusKnown'
      BY <1>1, <1>2, <1>3, <1>4, <2>4, <2>5 DEF StatusInv, StatusKnown
    <2>7. StatusTold'
      BY <1>1, <2>1 DEF StatusTold
    <2> QED BY <2>6, <2>7 DEF StatusInv
  <1> QED BY <1>5, <1>6

\* The relay of an answer.
LEMMA StatusRelay ==
  ASSUME IInv, IInv', TrafficInv, WaitInv, StatusInv, PipeBackend, Relays, Window = "step"
  PROVE  StatusInv'
  <1>1. /\ b2p # <<>> /\ b2p' = Tail(b2p) /\ delivered' = Append(delivered, Head(b2p))
        /\ UNCHANGED <<sent, bTx, c2p, p2b, pc>> /\ txStatus' = StatusAfter(Head(b2p))
    BY DEF PipeBackend, Relays, client, backend
  <1>h. PICK h : h = Head(b2p)
    OBVIOUS
  <1>2. /\ delivered \in Seq(Response) /\ b2p \in Seq(Response) /\ Len(b2p) \in Nat
        /\ Len(delivered) \in Nat
    BY DEF IInv, TypeOK, QueuesTyped
  <1>3. /\ Len(b2p) # 0 /\ Len(b2p') = Len(b2p) - 1 /\ h = b2p[1] /\ h \in Response
        /\ \A i \in 1..Len(b2p) - 1 : b2p'[i] = b2p[i + 1]
    BY <1>1, <1>2, <1>h, TailFacts
  <1>4. Len(delivered') = Len(delivered) + 1 /\ delivered'[Len(delivered) + 1] = h
    BY <1>1, <1>2, <1>3, <1>h, AppendFacts
  <1>5. ~Underway /\ ~Underway'
    BY <1>1 DEF WaitInv, OneAtATime, Underway
  <1>6. h.kind = "ready" => h.tx = bTx /\ txStatus' = bTx
    BY <1>1, <1>2, <1>3, <1>h DEF StatusInv, StatusKnown, StatusAfter
  <1>7. StatusTold'
    BY <1>1, <1>2, <1>4, <1>6 DEF StatusTold
  <1>8. \A i \in 1..Len(b2p') : b2p'[i].kind = "ready" => b2p'[i].tx = bTx'
    <2>1. ASSUME NEW i \in 1..Len(b2p') PROVE i + 1 \in 1..Len(b2p) /\ b2p'[i] = b2p[i + 1]
      BY <1>2, <1>3
    <2> QED BY <1>1, <2>1 DEF StatusInv, StatusKnown
  <1>9. ASSUME b2p' = <<>>, sent = <<>> \/ Len(sent) \in KindIds(delivered', "ready"), h.kind # "ready"
        PROVE  FALSE
    <2>1. sent # <<>> /\ h.id = Len(sent)
      <3>1. h.id = Len(sent) /\ h.id \in Ids
        BY <1>2, <1>3 DEF WaitInv, AnswersWaited, Response
      <3>2. Len(sent) # 0
        BY <3>1, BoundAssumption DEF Ids
      <3> QED BY <3>1, <3>2
    <2>2. Len(sent) \in KindIds(delivered, "ready") \cup KindIds(b2p, "ready")
      <3>1. KindIds(delivered, "ready")' \cup KindIds(b2p, "ready")'
              = KindIds(delivered, "ready") \cup KindIds(b2p, "ready")
        BY RelayedKinds
      <3>2. KindIds(delivered, "ready")' = KindIds(delivered', "ready")
        OBVIOUS
      <3> QED BY <1>9, <2>1, <3>1, <3>2
    <2>3. KindIds(b2p, "ready") = {}
      <3>1. KindIds(Tail(b2p), "ready") = KindIds(b2p, "ready")
        BY <1>1, <1>2, <1>9, <1>h, KindTail
      <3>2. KindIds(<<>>, "ready") = {}
        BY DEF KindIds
      <3> QED BY <1>1, <1>9, <3>1, <3>2
    <2>4. Len(sent) \in KindIds(delivered, "ready")
      BY <2>2, <2>3
    <2>5. PICK i \in 1..Len(delivered) : delivered[i].kind = "ready" /\ delivered[i].id = Len(sent)
      BY <2>4 DEF KindIds
    <2>6. EndsBatch(sent[Len(sent)])
      BY <2>4 DEF TrafficInv, ReadyInv
    <2>7. Completes(sent, delivered[i])
      BY <2>5, <2>6 DEF Completes
    <2> QED BY <1>1, <2>5, <2>7 DEF WaitInv, AnswersWaited
  <1>10. KindIds(delivered, "ready")' = KindIds(delivered', "ready")
    OBVIOUS
  <1>11. StatusKnown'
    BY <1>1, <1>5, <1>6, <1>8, <1>9, <1>10 DEF StatusKnown
  <1> QED BY <1>7, <1>11 DEF StatusInv

\* Every step keeps what is known of the transaction status.
LEMMA StatusNext ==
  ASSUME IInv, IInv', TrafficInv, WaitInv, StatusInv, Window = "step", Next
  PROVE  StatusInv'
  <1>1. /\ Traffic
        /\ Sends => ~Underway /\ b2p = <<>>
        /\ Sends => \E r \in Requests : ClientSend(r)
        /\ Takes \/ Thinks \/ Finishes => ClientTask
        /\ Relays => PipeBackend
        /\ Serves => Backend
    BY WaitSteps DEF TrafficInv
  <1>2. CASE Sends
    <2>1. PICK r \in Requests : ClientSend(r)
      BY <1>1, <1>2
    <2>2. /\ sent \in Seq(Msg) /\ Len(sent) \in Nat /\ StepMaySend(r)
          /\ ~Underway /\ b2p = <<>> /\ UNCHANGED <<delivered, b2p, txStatus, bTx>>
          /\ \A i \in 1..Len(delivered) : delivered[i].id <= Len(sent)
      BY <1>1, <1>2, <2>1
         DEF ClientSend, MaySend, IInv, TypeOK, QueuesTyped, proxy, backend, WaitInv, AnswersWaited
    <2>3. /\ Len(sent') = Len(sent) + 1 /\ \A i \in 1..Len(sent) : sent'[i] = sent[i]
      <3>1. PICK m \in Msg : sent' = Append(sent, m)
        BY <1>2 DEF Sends
      <3> QED BY <2>2, <3>1, AppendFacts
    <2>4. Underway'
      <3>1. c2p \in Seq(Msg) /\ \E m \in Msg : c2p' = Append(c2p, m)
        BY <1>2 DEF Sends, IInv, TypeOK, QueuesTyped
      <3>2. Len(c2p') # 0
        BY <3>1, AppendFacts
      <3> QED BY <3>2 DEF Underway
    <2>5. Synced' => Synced
      <3>1. ASSUME NEW k \in 2..Len(sent)
            PROVE  k \in 2..Len(sent') /\ sent'[k] = sent[k] /\ sent'[k - 1] = sent[k - 1]
        <4>1. k \in 1..Len(sent) /\ k - 1 \in 1..Len(sent) /\ k \in 2..Len(sent')
          BY <2>2, <2>3
        <4> QED BY <2>3, <4>1
      <3> QED BY <3>1 DEF Synced
    <2>6. ASSUME Synced', BeginsBatch' PROVE txStatus = bTx
      <3>1. CASE sent = <<>>
        BY <2>2, <2>5, <2>6, <3>1 DEF StatusInv, StatusKnown
      <3>2. CASE sent # <<>>
        <4>1. Newest.id = Len(sent) /\ Len(sent) \in 1..Len(sent)
          BY <2>2, <3>2, UnderwayIsNewest DEF WaitInv, TrafficInv
        <4>2. EndsBatch(Newest)
          <5>1. Len(sent') > 1 /\ Len(sent') - 1 = Len(sent)
            BY <2>2, <2>3, <4>1
          <5> QED BY <2>3, <2>6, <4>1, <5>1 DEF BeginsBatch, Newest
        <4>3. Got(Newest, {"ready"})
          BY <2>2, <3>2, <4>2 DEF StepMaySend, Newest, Answered
        <4>4. Len(sent) \in KindIds(delivered, "ready")
          BY <4>1, <4>3 DEF Got, KindIds
        <4> QED BY <2>2, <2>5, <2>6, <4>4 DEF StatusInv, StatusKnown
      <3> QED BY <3>1, <3>2
    <2>7. StatusKnown'
      BY <2>2, <2>4, <2>6 DEF StatusInv, StatusKnown
    <2>8. StatusTold'
      <3>1. Len(delivered) > 0 => delivered[Len(delivered)].id # Len(sent')
        <4>1. Len(delivered) \in Nat /\ (Len(delivered) > 0 => Len(delivered) \in 1..Len(delivered))
          BY DEF IInv, TypeOK, QueuesTyped
        <4>2. \A i \in 1..Len(delivered) : delivered[i].id # Len(sent')
          BY <2>2, <2>3
        <4> QED BY <4>1, <4>2
      <3> QED BY <2>2, <3>1 DEF StatusTold
    <2> QED BY <2>7, <2>8 DEF StatusInv
  <1>3. CASE Takes \/ Thinks \/ Finishes
    BY <1>1, <1>3, StatusTask
  <1>4. CASE Relays
    BY <1>1, <1>4, StatusRelay
  <1>5. CASE Serves
    <2>1. /\ Underway /\ ~Underway' /\ b2p = <<>>
          /\ UNCHANGED <<delivered, sent, txStatus>>
      <3>1. UNCHANGED txStatus
        BY <1>1, <1>5 DEF Backend, BackendSkips, BackendRejects, BackendPrepares, BackendExecutes,
             BackendQueries, BackendSyncs, BackendCalls, BackendTerminates, proxy
      <3> QED BY <1>1, <1>5, <3>1, OneNext DEF Serves, TrafficInv, WaitInv
    <2>2. \A i \in 1..Len(b2p') : b2p'[i].kind = "ready" => b2p'[i].tx = bTx'
      BY <1>1, <1>5, <2>1, ServerStatus
    <2>3. Len(sent) \notin KindIds(delivered, "ready") /\ sent # <<>>
      BY <2>1, UnderwayUnanswered DEF TrafficInv
    <2>4. KindIds(delivered, "ready")' = KindIds(delivered, "ready")
      BY <2>1
    <2>5. StatusKnown'
      BY <2>1, <2>2, <2>3, <2>4 DEF StatusKnown
    <2>6. StatusTold'
      BY <2>1 DEF StatusInv, StatusTold
    <2> QED BY <2>5, <2>6 DEF StatusInv
  <1> QED BY <1>1, <1>2, <1>3, <1>4, <1>5 DEF Traffic

\* The transaction status in the ReadyForQuery a waiting client got last is
\* the server's, also where the proxy wrote it into the answer to a Query it
\* refused: the status it recorded last is still that of the server when the
\* Query comes behind the end of a batch.
THEOREM StatusToldIsTrue == ASSUME Window = "step" PROVE Spec => []ReadyStatusIsTrue
  <1>1. Init => StatusInv
    BY DEF Init, StatusInv, StatusKnown, StatusTold, Underway
  <1>2. IInv /\ IInv' /\ TrafficInv /\ WaitInv /\ StatusInv /\ [Next]_vars => StatusInv'
    <2> SUFFICES ASSUME IInv, IInv', TrafficInv, WaitInv, StatusInv, [Next]_vars PROVE StatusInv'
      OBVIOUS
    <2>1. CASE Next
      BY <2>1, StatusNext
    <2>2. CASE UNCHANGED vars
      <3>1. UNCHANGED <<sent, delivered, c2p, p2b, b2p, pc, txStatus, bTx>>
        BY <2>2 DEF vars, client, proxy, task, backend
      <3>2. UNCHANGED <<Synced, Underway, BeginsBatch>>
        BY <3>1 DEF Synced, Underway, BeginsBatch
      <3>3. UNCHANGED KindIds(delivered, "ready")
        BY <3>1
      <3> QED BY <3>1, <3>2, <3>3 DEF StatusInv, StatusKnown, StatusTold
    <2> QED BY <2>1, <2>2
  <1>3. IInv /\ TrafficInv /\ WaitInv /\ StatusInv => ReadyStatusIsTrue
    <2> DEFINE n == Len(delivered)
    <2> SUFFICES ASSUME IInv, TrafficInv, WaitInv, StatusInv, n > 0, delivered[n].kind = "ready",
                        delivered[n].id = Len(sent), Synced
                 PROVE  delivered[n].tx = bTx
      BY DEF ReadyStatusIsTrue
    <2>1. n \in 1..Len(delivered)
      BY DEF IInv, TypeOK, QueuesTyped
    <2>2. Len(sent) \in KindIds(delivered, "ready")
      BY <2>1 DEF KindIds
    <2>3. EndsBatch(sent[Len(sent)])
      BY <2>2 DEF TrafficInv, ReadyInv
    <2>4. ~Underway
      BY <2>1, UnderwayUnanswered DEF TrafficInv
    <2>5. b2p = <<>>
      BY <2>1, <2>3 DEF WaitInv, AnswersWaited, Completes
    <2> QED BY <2>2, <2>4, <2>5 DEF StatusInv, StatusKnown, StatusTold
  <1> QED BY <1>1, <1>2, <1>3, WaitInvariance, PTL DEF Spec

(***************************************************************************)
(* The text the server runs is the text that was judged.                   *)
(*                                                                         *)
(* The proxy registers a statement or a portal when it forwards the Parse  *)
(* or Bind, before the server has answered it.  The registries agree all   *)
(* the same where both have an entry: a Parse or Bind that fails leaves    *)
(* the server none, for the client does not use a name that is open.       *)
(***************************************************************************)
\* A message of this type is on its way to the server.
At(type) == p2b # <<>> /\ Newest.type = type

StatementsAgree ==
  \A n \in Names :
    statements[n] # None /\ bStmts[n] # None /\ ~(At("Parse") /\ Newest.name = n)
      => bStmts[n] = statements[n]

PortalsAgree ==
  \A p \in Names :
    portals[p] # None /\ bPortals[p] # None /\ ~(At("Bind") /\ Newest.portal = p)
      => /\ bPortals[p].stmt = portals[p]
         /\ statements[portals[p]] # None => bPortals[p].sql = statements[portals[p]]

\* The named statement of an open portal is there.
PortalsOpen ==
  \A p \in Names :
    bPortals[p] # None /\ bPortals[p].stmt # Unnamed => bStmts[bPortals[p].stmt] # None

\* The client does not prepare or bind a name that is open.
FreshNames ==
  Underway =>
    /\ Newest.type = "Parse" /\ Newest.name # Unnamed => bStmts[Newest.name] = None
    /\ Newest.type = "Bind" /\ Newest.portal # Unnamed => bPortals[Newest.portal] = None

Registered ==
  /\ At("Parse") => statements[Newest.name] = Newest.sql
  /\ At("Bind") => portals[Newest.portal] = Newest.name

\* The text a message makes the server run, as the proxy knows it.
Text(m) == IF m.type = "Query" THEN m.sql ELSE PortalText(m.portal)

\* What the task holds, or has forwarded, was judged by its text, or is about
\* to be refused.
NewestJudged ==
  /\ pc # "read" /\ ~Runs(Newest) => pc = "audit" /\ verdict[Len(sent)] = "BLOCKED_PROTOCOL_GAP"
  /\ (pc # "read" \/ p2b # <<>>) /\ Runs(Newest) =>
       \/ pc = "audit" /\ verdict[Len(sent)] = "BLOCKED_PROTOCOL_GAP"
       \/ judged[Len(sent)] = Text(Newest) /\ Text(Newest) # None

RegistryInv == /\ StatementsAgree /\ PortalsAgree /\ PortalsOpen /\ FreshNames
               /\ Registered /\ NewestJudged

\* The server takes the message.
LEMMA ServerRegistry ==
  ASSUME IInv, SentInv, WaitInv, RegistryInv, Backend
  PROVE  /\ StatementsAgree' /\ PortalsAgree' /\ PortalsOpen'
         /\ \A e \in executed' : e \in executed \/ e.sql = None \/
              (e.id = Len(sent) /\ Runs(Newest) /\ (judged[Len(sent)] = Text(Newest) => e.sql = judged[Len(sent)]))
  <1> DEFINE m == Newest
  <1>1. Serves
    BY ServerIsTraffic
  <1>2. /\ p2b # <<>> /\ Head(p2b) = m /\ m \in Msg /\ m.id = Len(sent) /\ p2b' = <<>>
        /\ UNCHANGED <<statements, portals>>
    <2>1. p2b # <<>> /\ p2b' = Tail(p2b)
      BY <1>1 DEF Serves
    <2>2. Head(p2b) = m /\ m \in Msg /\ m.id = Len(sent) /\ Len(p2b) = 1 /\ p2b \in Seq(Msg)
      BY <2>1, UnderwayIsNewest DEF WaitInv, OneAtATime, Underway, IInv, TypeOK, QueuesTyped
    <2>3. UNCHANGED <<statements, portals>>
      BY DEF Backend, BackendSkips, BackendRejects, BackendPrepares, BackendExecutes,
             BackendQueries, BackendSyncs, BackendCalls, BackendTerminates, proxy
    <2> QED BY <2>1, <2>2, <2>3, ShortQueues
  <1>3. ~At("Parse")' /\ ~At("Bind")'
    BY <1>2 DEF At
  <1>4. /\ m.name \in Names /\ m.portal \in Names /\ m.sql \in SQL /\ m.sql # None
        /\ bStmts \in [Names -> SQL \cup {None}]
        /\ bPortals \in [Names -> [stmt : Names, sql : SQL] \cup {None}]
        /\ Unnamed \in Names
    BY <1>2, NamesAssumption DEF Msg, IInv, TypeOK, BackendTyped
  <1>5. \A x : (At(x) <=> m.type = x)
    BY <1>2 DEF At
  <1>6. /\ m.type = "Parse" /\ m.name # Unnamed => bStmts[m.name] = None
        /\ m.type = "Bind" /\ m.portal # Unnamed => bPortals[m.portal] = None
        /\ m.type = "Parse" => statements[m.name] = m.sql
        /\ m.type = "Bind" => portals[m.portal] = m.name
    BY <1>2, <1>5 DEF RegistryInv, FreshNames, Registered, Underway
  <1>7. /\ \A n \in Names : statements[n] # None /\ bStmts[n] # None /\ ~(m.type = "Parse" /\ m.name = n)
                              => bStmts[n] = statements[n]
        /\ \A p \in Names : portals[p] # None /\ bPortals[p] # None /\ ~(m.type = "Bind" /\ m.portal = p)
                              => /\ bPortals[p].stmt = portals[p]
                                 /\ statements[portals[p]] # None => bPortals[p].sql = statements[portals[p]]
        /\ \A p \in Names : bPortals[p] # None /\ bPortals[p].stmt # Unnamed => bStmts[bPortals[p].stmt] # None
    BY <1>5 DEF RegistryInv, StatementsAgree, PortalsAgree, PortalsOpen
  <1> HIDE DEF m
  \* What has to be shown of the server's registries.
  <1> DEFINE S == \A n \in Names : statements[n] # None /\ bStmts'[n] # None => bStmts'[n] = statements[n]
             P == \A p \in Names : portals[p] # None /\ bPortals'[p] # None
                              => /\ bPortals'[p].stmt = portals[p]
                                 /\ statements[portals[p]] # None => bPortals'[p].sql = statements[portals[p]]
             O == \A p \in Names : bPortals'[p] # None /\ bPortals'[p].stmt # Unnamed
                                     => bStmts'[bPortals'[p].stmt] # None
             E == \A e \in executed' : e \in executed \/ e.sql = None \/
                    (e.id = Len(sent) /\ Runs(m) /\ (judged[Len(sent)] = Text(m) => e.sql = judged[Len(sent)]))
  <1>8. ASSUME S, P, O
        PROVE  StatementsAgree' /\ PortalsAgree' /\ PortalsOpen'
    BY <1>2, <1>3, <1>8 DEF StatementsAgree, PortalsAgree, PortalsOpen
  <1>9. ASSUME bPortals' = Empty PROVE P /\ O
    BY <1>9 DEF Empty
  <1>10. ASSUME bStmts' = DropUnnamed(m) PROVE S /\ \A n \in Names : n # Unnamed => bStmts'[n] = bStmts[n]
    BY <1>4, <1>6, <1>7, <1>10 DEF DropUnnamed
  <1>11. CASE BackendSkips
    <2>1. FALSE
      BY <1>2, <1>11 DEF BackendSkips, WaitInv, SkipInv, Underway, m
    <2> QED BY <2>1
  <1>12. CASE BackendRejects
    <2>1. bStmts' = DropUnnamed(m) /\ bPortals' = Empty /\ UNCHANGED executed
      BY <1>2, <1>12 DEF BackendRejects
    <2> QED BY <1>8, <1>9, <1>10, <2>1 DEF m
  <1>13. CASE BackendPrepares
    <2>1. UNCHANGED executed
      BY <1>13 DEF BackendPrepares
    <2>2. CASE m.type = "Parse"
      <3>1. bStmts' = [bStmts EXCEPT ![m.name] = m.sql] /\ bPortals' = bPortals
        BY <1>2, <1>13, <2>2 DEF BackendPrepares
      <3>2. S
        BY <1>4, <1>6, <1>7, <2>2, <3>1
      <3>3. P
        BY <1>4, <1>7, <2>2, <3>1
      <3>4. O
        BY <1>4, <1>7, <2>2, <3>1
      <3> QED BY <1>8, <2>1, <3>2, <3>3, <3>4
    <2>3. CASE m.type = "Bind"
      <3>1. /\ bStmts' = bStmts /\ bStmts[m.name] # None
            /\ bPortals' = [bPortals EXCEPT ![m.portal] = [stmt |-> m.name, sql |-> bStmts[m.name]]]
        BY <1>2, <1>13, <2>3 DEF BackendPrepares, Rejects, CannotRun
      <3>2. S
        BY <1>4, <1>7, <2>3, <3>1
      <3>3. P
        BY <1>4, <1>6, <1>7, <2>3, <3>1
      <3>4. O
        BY <1>4, <1>7, <2>3, <3>1
      <3> QED BY <1>8, <2>1, <3>2, <3>3, <3>4
    <2>4. CASE m.type = "CloseS"
      <3>1. bStmts' = [bStmts EXCEPT ![m.name] = None] /\ bPortals' = ClosedWith(m.name)
        BY <1>2, <1>13, <2>4 DEF BackendPrepares
      <3>2. S
        BY <1>4, <1>7, <2>4, <3>1
      <3>3. P
        BY <1>4, <1>7, <2>4, <3>1 DEF ClosedWith
      <3>4. O
        BY <1>4, <1>7, <2>4, <3>1 DEF ClosedWith
      <3> QED BY <1>8, <2>1, <3>2, <3>3, <3>4
    <2>5. CASE m.type \in {"CloseP", "Describe"}
      <3>1. bStmts' = bStmts /\ (bPortals' = [bPortals EXCEPT ![m.portal] = None] \/ bPortals' = bPortals)
        BY <1>2, <1>13, <2>5 DEF BackendPrepares
      <3>2. S
        BY <1>4, <1>7, <2>5, <3>1
      <3>3. P
        BY <1>4, <1>7, <2>5, <3>1
      <3>4. O
        BY <1>4, <1>7, <2>5, <3>1
      <3> QED BY <1>8, <2>1, <3>2, <3>3, <3>4
    <2> QED BY <1>2, <1>13, <2>2, <2>3, <2>4, <2>5 DEF BackendPrepares
  <1>14. CASE BackendExecutes
    <2>1. /\ bStmts' = bStmts /\ (bPortals' = Empty \/ bPortals' = bPortals) /\ m.type = "Execute"
          /\ executed' = executed \cup {[id |-> m.id, sql |-> PortalSql(m.portal)]}
          /\ PortalSql(m.portal) # None
      BY <1>2, <1>14 DEF BackendExecutes, Rejects, CannotRun
    <2>2. S
      BY <1>7, <2>1
    <2>3. P /\ O
      BY <1>7, <1>9, <2>1
    <2>4. ASSUME judged[Len(sent)] = Text(m) PROVE PortalSql(m.portal) = judged[Len(sent)]
      <3>1. Text(m) # None
        BY <1>2, <1>5, <2>1, <2>4 DEF RegistryInv, NewestJudged, Runs, m, WaitInv, OneAtATime
      <3>2. portals[m.portal] # None /\ Text(m) = statements[portals[m.portal]] /\ Text(m) # None
        BY <2>1, <3>1 DEF Text, PortalText
      <3>3. bPortals[m.portal] # None /\ PortalSql(m.portal) = bPortals[m.portal].sql
        BY <2>1 DEF PortalSql
      <3> QED BY <1>4, <1>7, <2>1, <2>4, <3>2, <3>3
    <2>5. E
      BY <1>2, <2>1, <2>4 DEF Runs
    <2> QED BY <1>8, <2>2, <2>3, <2>5 DEF m
  <1>15. CASE BackendQueries
    <2>1. /\ bStmts' = DropUnnamed(m) /\ (bPortals' = Empty \/ bPortals' = [bPortals EXCEPT ![Unnamed] = None])
          /\ m.type = "Query" /\ executed' = executed \cup {[id |-> m.id, sql |-> m.sql]}
      BY <1>2, <1>15 DEF BackendQueries
    <2>2. S /\ \A n \in Names : n # Unnamed => bStmts'[n] = bStmts[n]
      BY <1>10, <2>1
    <2>3. P
      BY <1>4, <1>7, <1>9, <2>1
    <2>4. O
      BY <1>4, <1>7, <1>9, <2>1, <2>2
    <2>5. E
      BY <1>2, <2>1 DEF Runs, Text
    <2> QED BY <1>8, <2>2, <2>3, <2>4, <2>5 DEF m
  <1>16. CASE BackendSyncs
    <2>1. bStmts' = bStmts /\ (bPortals' = Empty \/ bPortals' = bPortals) /\ m.type = "Sync" /\ UNCHANGED executed
      BY <1>2, <1>16 DEF BackendSyncs
    <2>2. S
      BY <1>7, <2>1
    <2>3. P /\ O
      BY <1>7, <1>9, <2>1
    <2> QED BY <1>8, <2>1, <2>2, <2>3
  <1>17. CASE BackendCalls
    <2>1. /\ bStmts' = bStmts /\ (bPortals' = Empty \/ bPortals' = bPortals)
          /\ executed' = executed \cup {[id |-> m.id, sql |-> None]}
          /\ m.type = "Function"
      BY <1>2, <1>17 DEF BackendCalls
    <2>2. S
      BY <1>7, <2>1
    <2>3. P /\ O
      BY <1>7, <1>9, <2>1
    <2> QED BY <1>8, <2>1, <2>2, <2>3
  <1>18. CASE BackendTerminates
    <2>1. UNCHANGED <<bStmts, bPortals, executed>>
      BY <1>18 DEF BackendTerminates, backend
    <2>2. m.type = "Terminate"
      BY <1>2, <1>18 DEF BackendTerminates
    <2>3. S /\ P /\ O
      BY <1>7, <2>1, <2>2
    <2> QED BY <1>8, <2>1, <2>3
  <1> QED BY <1>11, <1>12, <1>13, <1>14, <1>15, <1>16, <1>17, <1>18 DEF Backend

\* Entries leave the proxy's registries, none comes in: they still agree.
LEMMA ProxyForgets ==
  ASSUME IInv, StatementsAgree, PortalsAgree, p2b = <<>> \/ UNCHANGED p2b, UNCHANGED <<sent, bStmts, bPortals>>,
         \A n \in Names : statements'[n] \in {statements[n], None},
         \A p \in Names : portals'[p] \in {portals[p], None},
         ~At("Parse")', ~At("Bind")'
  PROVE  StatementsAgree' /\ PortalsAgree'
  <1>1. ~At("Parse") /\ ~At("Bind")
    BY DEF At, Newest
  <1>2. \A p \in Names : portals[p] # None => portals[p] \in Names
    BY DEF IInv, TypeOK, StateTyped
  <1>3. StatementsAgree'
    BY <1>1 DEF StatementsAgree
  <1>4. PortalsAgree'
    BY <1>1, <1>2 DEF PortalsAgree
  <1> QED BY <1>3, <1>4

\* A Parse is registered.
LEMMA ParseRegistered ==
  ASSUME IInv, WaitInv, RegistryInv, p2b = <<>>, UNCHANGED <<sent, bStmts, bPortals>>,
         Newest \in Msg, Newest.type = "Parse", Underway, p2b' = <<Newest>>,
         statements' = RegisterStatement(statements, Newest.name, Newest.sql),
         portals' = PortalsAfterParse(portals, Newest.name)
  PROVE  StatementsAgree' /\ PortalsAgree' /\ Registered'
  <1> DEFINE m == Newest
  <1>1. m' = m /\ At("Parse")' /\ ~At("Bind")' /\ ~At("Parse") /\ ~At("Bind")
    BY DEF At, Newest
  <1>2. /\ m.name \in Names /\ m.sql \in SQL /\ m.sql # None /\ Unnamed \in Names
        /\ statements \in [Names -> SQL \cup {None}] /\ portals \in [Names -> Names \cup {None}]
        /\ bPortals \in [Names -> [stmt : Names, sql : SQL] \cup {None}]
    BY NamesAssumption DEF Msg, IInv, TypeOK, StateTyped, BackendTyped
  <1>3. m.name # Unnamed => bStmts[m.name] = None
    BY DEF RegistryInv, FreshNames
  <1>4. /\ \A n \in Names : statements[n] # None /\ bStmts[n] # None => bStmts[n] = statements[n]
        /\ \A p \in Names : portals[p] # None /\ bPortals[p] # None
                              => /\ bPortals[p].stmt = portals[p]
                                 /\ statements[portals[p]] # None => bPortals[p].sql = statements[portals[p]]
        /\ \A p \in Names : bPortals[p] # None /\ bPortals[p].stmt # Unnamed => bStmts[bPortals[p].stmt] # None
    BY <1>1 DEF RegistryInv, StatementsAgree, PortalsAgree, PortalsOpen
  <1>5. m.type # "Bind" /\ m.type = "Parse"
    OBVIOUS
  <1>6. /\ statements'[m.name] = m.sql
        /\ \A n \in Names : n # m.name => statements'[n] = statements[n]
    BY <1>2 DEF RegisterStatement
  <1>7. \A p \in Names : \/ portals'[p] = None
                         \/ portals'[p] = portals[p] /\ (m.name = Unnamed => portals[p] # Unnamed)
    BY <1>2 DEF PortalsAfterParse, DropPortalsOf
  <1>8. \A p \in Names : portals[p] # None => portals[p] \in Names
    BY <1>2
  <1> HIDE DEF m
  <1>9. StatementsAgree'
    <2>1. ASSUME NEW n \in Names, n # m.name, statements'[n] # None, bStmts'[n] # None
          PROVE  bStmts'[n] = statements'[n]
      BY <1>4, <1>6, <2>1
    <2> QED BY <1>1, <2>1 DEF StatementsAgree, m
  <1>10. ASSUME NEW p \in Names, portals'[p] # None, bPortals'[p] # None
         PROVE  /\ bPortals'[p].stmt = portals'[p]
                /\ statements'[portals'[p]] # None => bPortals'[p].sql = statements'[portals'[p]]
    <2>1. portals'[p] = portals[p] /\ (m.name = Unnamed => portals[p] # Unnamed) /\ bPortals[p] # None
      BY <1>7, <1>10
    <2>2. bPortals[p].stmt = portals[p] /\ portals[p] \in Names
      BY <1>4, <1>8, <1>10, <2>1
    <2>3. portals[p] # m.name
      BY <1>3, <1>4, <2>1, <2>2
    <2> QED BY <1>4, <1>6, <1>10, <2>1, <2>2, <2>3
  <1>11. PortalsAgree'
    BY <1>10 DEF PortalsAgree
  <1>12. Registered'
    BY <1>1, <1>6 DEF Registered, m
  <1> QED BY <1>9, <1>11, <1>12

\* A Bind is registered.
LEMMA BindRegistered ==
  ASSUME IInv, WaitInv, RegistryInv, p2b = <<>>, UNCHANGED <<sent, bStmts, bPortals, statements>>,
         Newest \in Msg, Newest.type = "Bind", Underway, p2b' = <<Newest>>,
         portals' = RegisterPortal(portals, Newest.portal, Newest.name)
  PROVE  StatementsAgree' /\ PortalsAgree' /\ Registered'
  <1> DEFINE m == Newest
  <1>1. m' = m /\ At("Bind")' /\ ~At("Parse")' /\ ~At("Parse") /\ ~At("Bind")
    BY DEF At, Newest
  <1>2. /\ m.name \in Names /\ m.portal \in Names
        /\ portals \in [Names -> Names \cup {None}]
    BY DEF Msg, IInv, TypeOK, StateTyped
  <1>3. portals'[m.portal] = m.name /\ \A p \in Names : p # m.portal => portals'[p] = portals[p]
    BY <1>2 DEF RegisterPortal
  <1>4. StatementsAgree'
    BY <1>1 DEF RegistryInv, StatementsAgree
  <1>5. PortalsAgree'
    <2>1. \A p \in Names : portals[p] # None /\ bPortals[p] # None
                              => /\ bPortals[p].stmt = portals[p]
                                 /\ statements[portals[p]] # None => bPortals[p].sql = statements[portals[p]]
      BY <1>1 DEF RegistryInv, PortalsAgree
    <2>2. ASSUME NEW p \in Names, p # m.portal, portals'[p] # None, bPortals'[p] # None
          PROVE  /\ bPortals'[p].stmt = portals'[p]
                 /\ statements'[portals'[p]] # None => bPortals'[p].sql = statements'[portals'[p]]
      <3>1. portals'[p] = portals[p]
        BY <1>3, <2>2
      <3> QED BY <2>1, <2>2, <3>1
    <2> QED BY <1>1, <2>2 DEF PortalsAgree, m
  <1>6. Registered'
    BY <1>1, <1>3 DEF Registered
  <1> QED BY <1>4, <1>5, <1>6

\* A message is inspected by the text the proxy knows.
LEMMA InspectJudges ==
  ASSUME IInv, NEW m \in Msg, NEW sql \in SQL, Inspect(m, sql)
  PROVE  judged'[m.id] = sql
  <1>1. m.id \in Ids /\ judged \in [Ids -> SQL \cup {None}]
    BY DEF Msg, IInv, TypeOK, TaskTyped
  <1>2. \E v : Judge(m, v, sql)
    BY DEF Inspect, EvaluateAndDecide
  <1> QED BY <1>1, <1>2 DEF Judge

\* A gap is refused in every mode but the permissive one.
LEMMA GapRefused ==
  ASSUME IInv, NEW m \in Msg, ProtocolGap(m), Mode # "permissive"
  PROVE  pc' = "audit" /\ verdict'[m.id] = "BLOCKED_PROTOCOL_GAP"
  <1>1. m.id \in Ids /\ verdict \in [Ids -> Verdicts]
    BY DEF Msg, IInv, TypeOK, TaskTyped
  <1> QED BY <1>1 DEF ProtocolGap, Judge, EvaluateProtocolGap

\* A step of the client's task leaves the two registries in agreement, and
\* what it holds or forwards judged by its text.
LEMMA TaskRegistry ==
  ASSUME IInv, SentInv, WaitInv, RegistryInv, ClientTask, Mode # "permissive"
  PROVE  RegistryInv'
  <1> DEFINE m == Newest
             n == Len(sent)
  <1>1. UNCHANGED <<sent, bStmts, bPortals>> /\ Underway
    BY DEF ClientTask, SkipUntilSync, SyncAfterError, TerminateAfterError, HandleOther, HandleMalformed, HandleSimpleQuery,
           HandleParse, HandleBind, HandleClose, HandleExecute, EstimateDone, UserDecides, AuditWritten,
           Reading, client, backend, Underway
  <1>2. /\ m' = m /\ n' = n /\ m \in Msg /\ m.id = n /\ n \in Ids
        /\ m.name \in Names /\ m.portal \in Names /\ m.sql \in SQL /\ m.sql # None
    <2>1. m' = m /\ n' = n
      BY <1>1 DEF Newest
    <2>2. m \in Msg /\ m.id = n /\ n \in Ids
      BY <1>1, UnderwayIsNewest DEF WaitInv
    <2> QED BY <2>1, <2>2, NamesAssumption DEF Msg
  <1>3. /\ p2b = <<>> /\ Append(p2b, m) = <<m>>
        /\ pc = "read" /\ c2p # <<>> => Head(c2p) = m
        /\ pc # "read" => cur[1] = m
    <2>1. p2b = <<>>
      <3>1. pc # "read" \/ c2p # <<>>
        BY DEF ClientTask, SkipUntilSync, SyncAfterError, TerminateAfterError, HandleOther, HandleMalformed, HandleSimpleQuery,
               HandleParse, HandleBind, HandleClose, HandleExecute, EstimateDone, UserDecides, AuditWritten,
               Reading
      <3> QED BY <3>1 DEF WaitInv, OneAtATime
    <2>2. Append(p2b, m) = <<m>>
      BY <1>2, <2>1, ShortQueues DEF IInv, TypeOK, QueuesTyped
    <2> QED BY <2>1, <2>2, UnderwayIsNewest DEF WaitInv
  <1>4. FreshNames' /\ PortalsOpen'
    <2>1. FreshNames'
      <3>1. /\ m.type = "Parse" /\ m.name # Unnamed => bStmts[m.name] = None
            /\ m.type = "Bind" /\ m.portal # Unnamed => bPortals[m.portal] = None
        BY <1>1 DEF RegistryInv, FreshNames
      <3> QED BY <1>1, <1>2, <3>1 DEF FreshNames
    <2>2. PortalsOpen'
      BY <1>1 DEF RegistryInv, PortalsOpen
    <2> QED BY <2>1, <2>2
  <1>5. /\ statements \in [Names -> SQL \cup {None}] /\ portals \in [Names -> Names \cup {None}]
        /\ judged \in [Ids -> SQL \cup {None}]
    BY DEF IInv, TypeOK, StateTyped, TaskTyped
  \* The registries lose entries at most.
  <1>6. ASSUME \A s \in Names : statements'[s] \in {statements[s], None},
               \A p \in Names : portals'[p] \in {portals[p], None},
               p2b' # <<>> => m.type \notin {"Parse", "Bind"}, NewestJudged'
        PROVE  RegistryInv'
    <2>1. ~At("Parse")' /\ ~At("Bind")'
      BY <1>2, <1>6 DEF At
    <2>2. Registered'
      BY <2>1 DEF Registered
    <2>3. StatementsAgree' /\ PortalsAgree'
      BY <1>1, <1>3, <1>6, <2>1, ProxyForgets DEF RegistryInv
    <2> QED BY <1>4, <1>6, <2>2, <2>3 DEF RegistryInv
  \* Nothing is held or forwarded any more.
  <1>7. ASSUME UNCHANGED <<statements, portals, p2b>>, pc' = "read"
        PROVE  RegistryInv'
    <2>1. NewestJudged'
      BY <1>3, <1>7 DEF NewestJudged
    <2> QED BY <1>3, <1>6, <1>7, <2>1
  \* A message that runs nothing is passed on.
  <1>8. ASSUME ~Runs(m), pc' = "read"
        PROVE  NewestJudged'
    BY <1>2, <1>8 DEF NewestJudged, Runs
  \* The message cannot be inspected.
  <1>9. ASSUME UNCHANGED <<statements, portals, p2b>>, ProtocolGap(m)
        PROVE  RegistryInv'
    <2>1. pc' = "audit" /\ verdict'[n] = "BLOCKED_PROTOCOL_GAP"
      BY <1>2, <1>9, GapRefused
    <2>2. NewestJudged'
      BY <1>2, <2>1 DEF NewestJudged
    <2> QED BY <1>3, <1>6, <1>9, <2>2
  \* It is judged, or was.
  <1>10. ASSUME UNCHANGED <<statements, portals>>, Runs(m), judged'[n] = Text(m), Text(m) # None
         PROVE  RegistryInv'
    <2>1. Runs(m)'
      BY <1>2, <1>10 DEF Runs
    <2>2. Text(m)' = Text(m)
      BY <1>2, <1>10 DEF Text, PortalText
    <2>3. judged'[n'] = Text(m)' /\ Text(m)' # None
      BY <1>2, <1>10, <2>2
    <2>4. NewestJudged'
      BY <2>1, <2>3 DEF NewestJudged
    <2> QED BY <1>6, <1>10, <2>4 DEF Runs
  <1>11. pc # "read" =>
           \/ pc = "audit" /\ verdict[n] = "BLOCKED_PROTOCOL_GAP"
           \/ Runs(m) /\ judged[n] = Text(m) /\ Text(m) # None
    BY DEF RegistryInv, NewestJudged
  <1> HIDE DEF m, n
  <1>12. CASE SkipUntilSync
    BY <1>7, <1>12 DEF SkipUntilSync, Reading, proxy, task
  <1>13. CASE SyncAfterError \/ TerminateAfterError \/ HandleOther
    <2>1. m.type \in Unread /\ pc' = "read" /\ UNCHANGED <<statements, portals>>
      BY <1>3, <1>13 DEF SyncAfterError, TerminateAfterError, HandleOther, Reading, task, proxy, Unread
    <2> QED BY <1>6, <1>8, <2>1 DEF Runs, Unread
  <1>14. CASE HandleMalformed
    BY <1>3, <1>9, <1>14 DEF HandleMalformed, Reading, proxy
  <1>15. CASE HandleSimpleQuery
    <2>1. m.type = "Query" /\ Inspect(m, m.sql) /\ UNCHANGED <<statements, portals>>
      BY <1>3, <1>15 DEF HandleSimpleQuery, Reading, proxy
    <2>2. judged'[m.id] = m.sql
      BY <1>2, <2>1, InspectJudges
    <2> QED BY <1>2, <1>10, <2>1, <2>2 DEF Runs, Text
  <1>16. CASE HandleParse
    <2>1. m.type = "Parse" /\ pc = "read" /\ c2p # <<>>
      BY <1>3, <1>16 DEF HandleParse, Reading
    <2>2. \/ /\ statements' = RegisterStatement(statements, m.name, m.sql)
             /\ portals' = PortalsAfterParse(portals, m.name)
             /\ p2b' = <<m>> /\ pc' = "read"
          \/ ProtocolGap(m) /\ UNCHANGED <<statements, portals, p2b>>
      BY <1>3, <1>16, <2>1 DEF HandleParse, task
    <2>3. ASSUME statements' = RegisterStatement(statements, m.name, m.sql),
                 portals' = PortalsAfterParse(portals, m.name), p2b' = <<m>>, pc' = "read"
          PROVE  RegistryInv'
      <3>1. StatementsAgree' /\ PortalsAgree' /\ Registered'
        BY <1>1, <1>2, <1>3, <2>1, <2>3, ParseRegistered DEF m
      <3>2. NewestJudged'
        BY <1>8, <2>1, <2>3 DEF Runs
      <3> QED BY <1>4, <3>1, <3>2 DEF RegistryInv
    <2> QED BY <1>9, <2>2, <2>3
  <1>17. CASE HandleBind
    <2>1. m.type = "Bind" /\ pc = "read" /\ c2p # <<>> /\ UNCHANGED statements
      BY <1>3, <1>17 DEF HandleBind, Reading
    <2>2. \/ /\ portals' = RegisterPortal(portals, m.portal, m.name)
             /\ p2b' = <<m>> /\ pc' = "read"
          \/ ProtocolGap(m) /\ UNCHANGED <<portals, p2b>>
      BY <1>3, <1>17, <2>1 DEF HandleBind, task
    <2>3. ASSUME portals' = RegisterPortal(portals, m.portal, m.name), p2b' = <<m>>, pc' = "read"
          PROVE  RegistryInv'
      <3>1. StatementsAgree' /\ PortalsAgree' /\ Registered'
        BY <1>1, <1>2, <1>3, <2>1, <2>3, BindRegistered DEF m
      <3>2. NewestJudged'
        BY <1>8, <2>1, <2>3 DEF Runs
      <3> QED BY <1>4, <3>1, <3>2 DEF RegistryInv
    <2> QED BY <1>9, <2>1, <2>2, <2>3
  <1>18. CASE HandleClose
    <2>1. /\ m.type \in {"CloseS", "CloseP"} /\ pc' = "read"
          /\ \/ /\ statements' = CloseStatement(statements, m.name)
                /\ portals' = CloseStatementPortals(portals, m.name)
             \/ portals' = ClosePortal(portals, m.portal) /\ UNCHANGED statements
      BY <1>3, <1>18 DEF HandleClose, Reading, task
    <2>2. /\ \A s \in Names : statements'[s] \in {statements[s], None}
          /\ \A p \in Names : portals'[p] \in {portals[p], None}
      BY <1>5, <2>1 DEF CloseStatement, CloseStatementPortals, ClosePortal, DropPortalsOf
    <2> QED BY <1>6, <1>8, <2>1, <2>2 DEF Runs
  <1>19. CASE HandleExecute
    <2>1. m.type = "Execute" /\ Text(m) = PortalText(m.portal) /\ UNCHANGED <<statements, portals>>
      BY <1>3, <1>19 DEF HandleExecute, Reading, proxy, Text
    <2>2. \/ ProtocolGap(m) /\ UNCHANGED p2b
          \/ Text(m) # None /\ Inspect(m, Text(m))
          \/ Text(m) # None /\ EvaluateAndDecide(m, Text(m), NoRows, TRUE)
      BY <1>3, <1>19, <2>1 DEF HandleExecute, Reading
    <2>3. ASSUME Text(m) # None PROVE Text(m) \in SQL
      BY <1>2, <1>5, <2>1, <2>3 DEF PortalText
    <2>4. CASE Text(m) # None /\ Inspect(m, Text(m))
      <3>1. judged'[m.id] = Text(m)
        BY <1>2, <2>3, <2>4, InspectJudges
      <3> QED BY <1>2, <1>10, <2>1, <2>4, <3>1 DEF Runs
    <2>5. CASE Text(m) # None /\ EvaluateAndDecide(m, Text(m), NoRows, TRUE)
      <3>1. judged' = [judged EXCEPT ![m.id] = Text(m)]
        BY <2>5 DEF EvaluateAndDecide, Judge
      <3>2. judged'[n] = Text(m)
        BY <1>2, <1>5, <3>1
      <3> QED BY <1>10, <2>1, <2>5, <3>2 DEF Runs
    <2> QED BY <1>9, <2>1, <2>2, <2>4, <2>5
  <1>20. CASE EstimateDone
    <2>1. pc = "estimate" /\ UNCHANGED <<statements, portals>> /\ judged' = [judged EXCEPT ![m.id] = judged[m.id]]
      BY <1>3, <1>20 DEF EstimateDone, EvaluateAndDecide, Judge, proxy
    <2>2. judged'[n] = judged[n]
      BY <1>2, <1>5, <2>1
    <2> QED BY <1>10, <1>11, <2>1, <2>2
  <1>21. CASE UserDecides
    <2>1. pc = "confirm" /\ UNCHANGED <<statements, portals, judged>>
      BY <1>21 DEF UserDecides, proxy
    <2> QED BY <1>10, <1>11, <2>1
  <1>22. CASE AuditWritten
    <2>1. /\ pc = "audit" /\ pc' = "read" /\ UNCHANGED <<statements, portals, judged>>
          /\ verdict[n] \in LetThrough \/ UNCHANGED p2b
      BY <1>2, <1>3, <1>22 DEF AuditWritten, Passes
    <2>2. ASSUME verdict[n] \in LetThrough PROVE verdict[n] # "BLOCKED_PROTOCOL_GAP"
      BY <2>2 DEF LetThrough
    <2> QED BY <1>7, <1>10, <1>11, <2>1, <2>2
  <1> QED BY <1>12, <1>13, <1>14, <1>15, <1>16, <1>17, <1>18, <1>19, <1>20, <1>21, <1>22 DEF ClientTask

\* Every step keeps the registries in agreement.
LEMMA RegistryNext ==
  ASSUME IInv, SentInv, WaitInv, RegistryInv, Window = "step", Mode # "permissive", Next
  PROVE  RegistryInv'
  <1>1. /\ Traffic /\ (Sends => ~Underway /\ b2p = <<>>)
        /\ Sends => \E r \in Requests : ClientSend(r)
        /\ Takes \/ Thinks \/ Finishes => ClientTask
        /\ Relays => PipeBackend
        /\ Serves => Backend
    BY WaitSteps
  <1>2. /\ Relays => ~Underway
        /\ Serves => ~Underway'
        /\ ~Sends => UNCHANGED sent /\ Newest' = Newest /\ (Underway' => Underway)
    BY <1>1, OneNext DEF WaitInv
  <1>3. CASE Takes \/ Thinks \/ Finishes
    BY <1>1, <1>3, TaskRegistry
  <1>4. CASE Sends
    <2>1. PICK r \in Requests : ClientSend(r)
      BY <1>1, <1>4
    <2>2. /\ ~Underway /\ UNCHANGED <<p2b, statements, portals, pc, bStmts, bPortals>>
          /\ p2b = <<>> /\ pc = "read"
      BY <1>1, <1>4, <2>1 DEF ClientSend, proxy, task, backend, Underway
    <2>3. /\ r.type = "Parse" /\ r.name # Unnamed => bStmts[r.name] = None
          /\ r.type = "Bind" /\ r.portal # Unnamed => bPortals[r.portal] = None
      BY <2>1 DEF ClientSend, MaySend, StepMaySend
    <2>4. Newest' = Number(r, Len(sent) + 1)
      <3>1. sent \in Seq(Msg) /\ Len(sent) \in Nat /\ Len(sent) + 1 \in Ids
        BY <2>1, BoundAssumption DEF IInv, TypeOK, QueuesTyped, ClientSend, Ids
      <3>2. Number(r, Len(sent) + 1) \in Msg
        BY <3>1, RequestsAssumption DEF Number, Msg, Request
      <3>3. sent' = Append(sent, Number(r, Len(sent) + 1))
        BY <2>1 DEF ClientSend
      <3> QED BY <3>1, <3>2, <3>3, AppendFacts DEF Newest
    <2>5. FreshNames'
      BY <2>2, <2>3, <2>4 DEF FreshNames, Number
    <2>6. StatementsAgree' /\ PortalsAgree' /\ PortalsOpen'
      BY <2>2 DEF RegistryInv, StatementsAgree, PortalsAgree, PortalsOpen, At
    <2>7. Registered' /\ NewestJudged'
      BY <2>2 DEF Registered, NewestJudged, At
    <2> QED BY <2>5, <2>6, <2>7 DEF RegistryInv
  <1>5. CASE Relays
    <2>1. /\ PipeBackend /\ ~Underway /\ p2b = <<>> /\ pc = "read"
          /\ UNCHANGED <<sent, p2b, statements, pc, bStmts, bPortals>>
          /\ \E tx : portals' \in {portals, PortalsAtReady(portals, tx)}
      BY <1>1, <1>2, <1>5 DEF PipeBackend, Underway, client, task, backend
    <2>2. \A p \in Names : portals'[p] \in {portals[p], None}
      BY <2>1 DEF PortalsAtReady, Empty
    <2>3. ~At("Parse")' /\ ~At("Bind")'
      BY <2>1 DEF At
    <2>4. StatementsAgree' /\ PortalsAgree'
      BY <2>1, <2>2, <2>3, ProxyForgets DEF RegistryInv
    <2>5. PortalsOpen'
      BY <2>1 DEF RegistryInv, PortalsOpen
    <2>6. ~Underway' /\ p2b' = <<>> /\ pc' = "read"
      BY <1>2, <1>5, <2>1 DEF Underway, Relays
    <2>7. FreshNames' /\ Registered' /\ NewestJudged'
      BY <2>3, <2>6 DEF FreshNames, Registered, NewestJudged
    <2> QED BY <2>4, <2>5, <2>7 DEF RegistryInv
  <1>6. CASE Serves
    <2>1. StatementsAgree' /\ PortalsAgree' /\ PortalsOpen'
      BY <1>1, <1>6, ServerRegistry
    <2>2. ~Underway' /\ p2b' = <<>> /\ pc' = "read"
      BY <1>2, <1>6 DEF Underway
    <2>3. FreshNames' /\ Registered' /\ NewestJudged'
      BY <2>2 DEF FreshNames, Registered, NewestJudged, At
    <2> QED BY <2>1, <2>3 DEF RegistryInv
  <1> QED BY <1>1, <1>3, <1>4, <1>5, <1>6 DEF Traffic

\* What the server runs in a step was judged by its text, and the judgement
\* of what it ran before stays.
LEMMA ExecutedNext ==
  ASSUME IInv, SentInv, WaitInv, RegistryInv, ExecutedIsJudged, Next
  PROVE  ExecutedIsJudged'
  <1>1. ASSUME NEW e \in executed, e.sql # None
        PROVE  verdict'[e.id] # "ALLOWED_PROTOCOL_GAP" => judged'[e.id] = e.sql
    <2>1. UNCHANGED vars \/ GateStep
      BY NextInv
    <2>2. OlderKept \/ UNCHANGED <<verdict, judged>>
      BY <2>1 DEF GateStep, Offers, Holds, Stays, Leaves, Arrives, vars, task
    <2>3. e.id \in Ids /\ e.id <= Left
      <3>1. e.id \in 1..Left /\ Left \in Nat
        BY Counts
      <3>2. e.id \in Ids
        BY DEF IInv, TypeOK, BackendTyped
      <3> QED BY <3>1, <3>2
    <2>4. verdict'[e.id] = verdict[e.id] /\ judged'[e.id] = judged[e.id]
      BY <2>2, <2>3 DEF OlderKept
    <2> QED BY <1>1, <2>4 DEF ExecutedIsJudged
  <1>2. ASSUME NEW e \in executed', e \notin executed, e.sql # None PROVE judged'[e.id] = e.sql
    <2>1. Backend
      BY <1>2 DEF Next, ClientSend, PipeBackend, ClientTask, SkipUntilSync, SyncAfterError, TerminateAfterError, HandleOther,
                  HandleMalformed, HandleSimpleQuery, HandleParse, HandleBind, HandleClose, HandleExecute,
                  EstimateDone, UserDecides, AuditWritten, backend
    <2>2. e.id = Len(sent) /\ Runs(Newest) /\ (judged[Len(sent)] = Text(Newest) => e.sql = judged[Len(sent)])
      BY <1>2, <2>1, ServerRegistry
    <2>3. p2b # <<>> /\ pc = "read" /\ UNCHANGED judged
      <3>1. p2b # <<>> /\ UNCHANGED judged
        BY <2>1, ServerIsTraffic DEF Serves, Backend, BackendSkips, BackendRejects, BackendPrepares,
               BackendExecutes, BackendQueries, BackendSyncs, BackendCalls, BackendTerminates, task
      <3> QED BY <3>1 DEF WaitInv, OneAtATime
    <2>4. judged[Len(sent)] = Text(Newest)
      BY <2>2, <2>3 DEF RegistryInv, NewestJudged
    <2> QED BY <2>2, <2>3, <2>4
  <1> QED BY <1>1, <1>2 DEF ExecutedIsJudged

\* A client that waits, and does not prepare or bind a name that is open, has
\* run for it what the proxy judged, whatever the server rejects, the proxy
\* refuses or a limit keeps out of the registries.  Both hypotheses are
\* needed: a client that sends ahead may give a name a new meaning before the
\* server has answered, and in permissive mode a Parse that exceeds the limits
\* is forwarded while the registry keeps the old text of its name.
THEOREM WhatRunsWasJudged ==
  ASSUME Window = "step", Mode # "permissive"
  PROVE  Spec => []ExecutedIsJudged
  <1> DEFINE J == RegistryInv /\ ExecutedIsJudged
  <1>1. Init => J
    <2> SUFFICES ASSUME Init PROVE J
      OBVIOUS
    <2>1. /\ statements = Empty /\ portals = Empty /\ bStmts = Empty /\ bPortals = Empty
          /\ c2p = <<>> /\ p2b = <<>> /\ pc = "read" /\ executed = {}
      BY DEF Init
    <2> QED BY <2>1 DEF RegistryInv, StatementsAgree, PortalsAgree, PortalsOpen, FreshNames, Registered,
                        NewestJudged, ExecutedIsJudged, Underway, At, Empty
  <1>2. IInv /\ TrafficInv /\ WaitInv /\ J /\ [Next]_vars => J'
    <2> SUFFICES ASSUME IInv, TrafficInv, WaitInv, J, [Next]_vars PROVE J'
      OBVIOUS
    <2>1. CASE Next
      BY <2>1, RegistryNext, ExecutedNext DEF TrafficInv
    <2>2. CASE UNCHANGED vars
      <3>1. UNCHANGED <<sent, c2p, p2b, pc, statements, portals, verdict, judged, bStmts, bPortals, executed>>
        BY <2>2 DEF vars, client, proxy, task, backend
      <3>2. UNCHANGED <<Newest, Underway>>
        BY <3>1 DEF Newest, Underway
      <3>3. RegistryInv'
        BY <3>1, <3>2 DEF RegistryInv, StatementsAgree, PortalsAgree, PortalsOpen, FreshNames, Registered,
                          NewestJudged, At, Text, PortalText, Runs
      <3> QED BY <3>1, <3>3 DEF ExecutedIsJudged
    <2> QED BY <2>1, <2>2
  <1>3. J => ExecutedIsJudged
    OBVIOUS
  <1> QED BY <1>1, <1>2, <1>3, WaitInvariance, PTL DEF Spec

-----------------------------------------------------------------------------
(***************************************************************************)
(* The limits of the registries.  The proxy adds up the bytes of both      *)
(* dictionaries, takes off the entry that is replaced and adds the new     *)
(* one; that the result is the sum afterwards is a fact about sums.        *)
(***************************************************************************)
\* The two sums of StateBytes, and what they add up.
StatementSum(st) == MapThenSumSet(LAMBDA n : StatementBytes(n, st[n]), Entries(st))
PortalSum(po)    == MapThenSumSet(LAMBDA n : PortalBytes(n, po[n]), Entries(po))
StatementWeights(st) == [n \in Entries(st) |-> StatementBytes(n, st[n])]
PortalWeights(po)    == [n \in Entries(po) |-> PortalBytes(n, po[n])]

StatementDict == [Names -> SQL \cup {None}]
PortalDict    == [Names -> Names \cup {None}]

\* The sum over the statements is the weight of their entries.
LEMMA StatementsWeigh ==
  ASSUME NEW st \in StatementDict, IsFiniteSet(Entries(st))
  PROVE  /\ StatementWeights(st) \in [Entries(st) -> Nat]
         /\ Weighs(Entries(st), StatementWeights(st), StatementSum(st)) /\ StatementSum(st) \in Nat
  <1>0. PICK S, w : S = Entries(st) /\ w = StatementWeights(st)
    OBVIOUS
  <1>1. \A n \in S : st[n] \in SQL /\ n \in Names
    BY <1>0 DEF Entries, StatementDict
  <1>2. w \in [S -> Nat] /\ \A n \in S : w[n] = StatementBytes(n, st[n])
    BY <1>0, <1>1, BytesAssumption DEF StatementWeights, StatementBytes
  <1> DEFINE Sum(g, t) == IF t = {} THEN 0 ELSE StatementBytes(OneOf(t), st[OneOf(t)]) + g[t \ {OneOf(t)}]
             Solves(g) == g = [t \in SUBSET S |-> Sum(g, t)]
             iter == CHOOSE g : Solves(g)
  <1>3. PICK it \in [SUBSET S -> Nat] : SumsUp(it, S, w)
    BY <1>0, <1>2, SumExists
  <1>4. \A t \in SUBSET S : t # {} => w[OneOf(t)] = StatementBytes(OneOf(t), st[OneOf(t)])
    BY <1>2 DEF OneOf
  <1>5. \A t \in SUBSET S : it[t] = Sum(it, t)
    BY <1>3, <1>4 DEF SumsUp
  <1>6. Solves(it)
    <2> HIDE DEF Sum
    <2> QED BY <1>3, <1>5
  <1>7. Solves(iter)
    <2> HIDE DEF Solves
    <2> QED BY <1>6, Zenon DEF iter
  <1>8. \A t \in SUBSET S : iter[t] = Sum(iter, t)
    <2> HIDE DEF Sum, iter
    <2> QED BY <1>7
  <1>9. SumsUp(iter, S, w)
    <2> HIDE DEF iter
    <2> QED BY <1>4, <1>8 DEF SumsUp
  <1>10. StatementSum(st) = iter[S]
    BY <1>0, Zenon DEF StatementSum, MapThenSumSet, MapThenFoldSet, OneOf
  <1>11. Weighs(S, w, StatementSum(st))
    <2> HIDE DEF iter
    <2> QED BY <1>9, <1>10 DEF Weighs
  <1>12. StatementSum(st) \in Nat
    BY <1>0, <1>2, <1>11, WeightFacts
  <1> QED BY <1>0, <1>2, <1>11, <1>12

\* The sum over the portals is the weight of their entries.
LEMMA PortalsWeigh ==
  ASSUME NEW po \in PortalDict, IsFiniteSet(Entries(po))
  PROVE  /\ PortalWeights(po) \in [Entries(po) -> Nat]
         /\ Weighs(Entries(po), PortalWeights(po), PortalSum(po)) /\ PortalSum(po) \in Nat
  <1>0. PICK S, w : S = Entries(po) /\ w = PortalWeights(po)
    OBVIOUS
  <1>1. \A n \in S : po[n] \in Names /\ n \in Names
    BY <1>0 DEF Entries, PortalDict
  <1>2. w \in [S -> Nat] /\ \A n \in S : w[n] = PortalBytes(n, po[n])
    BY <1>0, <1>1, BytesAssumption DEF PortalWeights, PortalBytes
  <1> DEFINE Sum(g, t) == IF t = {} THEN 0 ELSE PortalBytes(OneOf(t), po[OneOf(t)]) + g[t \ {OneOf(t)}]
             Solves(g) == g = [t \in SUBSET S |-> Sum(g, t)]
             iter == CHOOSE g : Solves(g)
  <1>3. PICK it \in [SUBSET S -> Nat] : SumsUp(it, S, w)
    BY <1>0, <1>2, SumExists
  <1>4. \A t \in SUBSET S : t # {} => w[OneOf(t)] = PortalBytes(OneOf(t), po[OneOf(t)])
    BY <1>2 DEF OneOf
  <1>5. \A t \in SUBSET S : it[t] = Sum(it, t)
    BY <1>3, <1>4 DEF SumsUp
  <1>6. Solves(it)
    <2> HIDE DEF Sum
    <2> QED BY <1>3, <1>5
  <1>7. Solves(iter)
    <2> HIDE DEF Solves
    <2> QED BY <1>6, Zenon DEF iter
  <1>8. \A t \in SUBSET S : iter[t] = Sum(iter, t)
    <2> HIDE DEF Sum, iter
    <2> QED BY <1>7
  <1>9. SumsUp(iter, S, w)
    <2> HIDE DEF iter
    <2> QED BY <1>4, <1>8 DEF SumsUp
  <1>10. PortalSum(po) = iter[S]
    BY <1>0, Zenon DEF PortalSum, MapThenSumSet, MapThenFoldSet, OneOf
  <1>11. Weighs(S, w, PortalSum(po))
    <2> HIDE DEF iter
    <2> QED BY <1>9, <1>10 DEF Weighs
  <1>12. PortalSum(po) \in Nat
    BY <1>0, <1>2, <1>11, WeightFacts
  <1> QED BY <1>0, <1>2, <1>11, <1>12

\* Entries are only taken away: the registry has no more of them, and their
\* bytes do not grow.
LEMMA FewerStatements ==
  ASSUME NEW st \in StatementDict, IsFiniteSet(Entries(st)), NEW new \in StatementDict,
         \A n \in Names : new[n] = None \/ new[n] = st[n]
  PROVE  /\ IsFiniteSet(Entries(new)) /\ Cardinality(Entries(new)) <= Cardinality(Entries(st))
         /\ StatementSum(new) <= StatementSum(st)
  <1>0. PICK S, w, R, v : S = Entries(st) /\ w = StatementWeights(st) /\ R = Entries(new) /\ v = StatementWeights(new)
    OBVIOUS
  <1>1. R \in SUBSET S /\ \A n \in R : v[n] = w[n]
    BY <1>0 DEF Entries, StatementWeights
  <1>2. IsFiniteSet(R) /\ Cardinality(R) <= Cardinality(S)
    BY <1>0, <1>1, FS_Subset
  <1>3. w \in [S -> Nat] /\ Weighs(S, w, StatementSum(st))
    BY <1>0, StatementsWeigh
  <1>4. v \in [R -> Nat] /\ Weighs(R, v, StatementSum(new))
    BY <1>0, <1>2, StatementsWeigh
  <1>5. StatementSum(new) <= StatementSum(st)
    BY <1>0, <1>1, <1>3, <1>4, WeightOfFewer
  <1> QED BY <1>0, <1>2, <1>5

\* One entry is added or replaced.
LEMMA StatementRegistered ==
  ASSUME NEW st \in StatementDict, IsFiniteSet(Entries(st)), NEW name \in Names, NEW sql \in SQL,
         NEW new, new = RegisterStatement(st, name, sql)
  PROVE  /\ new \in StatementDict /\ IsFiniteSet(Entries(new))
         /\ Cardinality(Entries(new)) = Cardinality(Entries(st)) + (IF st[name] # None THEN 0 ELSE 1)
         /\ StatementSum(new) = StatementSum(st) - (IF st[name] # None THEN StatementBytes(name, st[name]) ELSE 0)
                                + StatementBytes(name, sql)
  <1>0. PICK S, w, R, v : S = Entries(st) /\ w = StatementWeights(st) /\ R = Entries(new) /\ v = StatementWeights(new)
    OBVIOUS
  <1>1. new \in StatementDict /\ new[name] = sql /\ \A n \in Names : n # name => new[n] = st[n]
    BY DEF RegisterStatement, StatementDict
  <1>2. R = S \cup {name} /\ (name \in S <=> st[name] # None)
    BY <1>0, <1>1, NamesAssumption DEF Entries
  <1>3. IsFiniteSet(R) /\ Cardinality(R) = Cardinality(S) + (IF st[name] # None THEN 0 ELSE 1)
    <2>1. IsFiniteSet(S) /\ Cardinality(S) \in Nat
      BY <1>0, FS_CardinalityType
    <2>2. IsFiniteSet(R) /\ Cardinality(R) = (IF name \in S THEN Cardinality(S) ELSE Cardinality(S) + 1)
      BY <1>2, <2>1, FS_AddElement
    <2> QED BY <1>2, <2>1, <2>2
  <1>4. w \in [S -> Nat] /\ Weighs(S, w, StatementSum(st))
    BY <1>0, StatementsWeigh
  <1>5. v \in [R -> Nat] /\ Weighs(R, v, StatementSum(new))
    BY <1>0, <1>1, <1>3, StatementsWeigh
  <1>6. /\ v[name] = StatementBytes(name, sql) /\ (name \in S => w[name] = StatementBytes(name, st[name]))
        /\ \A n \in S \ {name} : v[n] = w[n]
    <2>1. \A n \in S : n \in Names
      BY <1>0 DEF Entries
    <2> QED BY <1>0, <1>1, <1>2, <2>1 DEF StatementWeights
  <1>7. StatementSum(new) = StatementSum(st) - (IF name \in S THEN w[name] ELSE 0) + v[name]
    <2>1. IsFiniteSet(S)
      BY <1>0
    <2> QED BY ONLY <1>2, <1>4, <1>5, <1>6, <2>1, WeightOfUpdate
  <1>8. (IF name \in S THEN w[name] ELSE 0) = (IF st[name] # None THEN StatementBytes(name, st[name]) ELSE 0)
    BY <1>2, <1>6
  <1> QED BY <1>0, <1>1, <1>3, <1>6, <1>7, <1>8

\* Entries are only taken away: the same for the portals.
LEMMA FewerPortals ==
  ASSUME NEW po \in PortalDict, IsFiniteSet(Entries(po)), NEW new \in PortalDict,
         \A n \in Names : new[n] = None \/ new[n] = po[n]
  PROVE  /\ IsFiniteSet(Entries(new)) /\ Cardinality(Entries(new)) <= Cardinality(Entries(po))
         /\ PortalSum(new) <= PortalSum(po)
  <1>0. PICK S, w, R, v : S = Entries(po) /\ w = PortalWeights(po) /\ R = Entries(new) /\ v = PortalWeights(new)
    OBVIOUS
  <1>1. R \in SUBSET S /\ \A n \in R : v[n] = w[n]
    BY <1>0 DEF Entries, PortalWeights
  <1>2. IsFiniteSet(R) /\ Cardinality(R) <= Cardinality(S)
    BY <1>0, <1>1, FS_Subset
  <1>3. w \in [S -> Nat] /\ Weighs(S, w, PortalSum(po))
    BY <1>0, PortalsWeigh
  <1>4. v \in [R -> Nat] /\ Weighs(R, v, PortalSum(new))
    BY <1>0, <1>2, PortalsWeigh
  <1>5. PortalSum(new) <= PortalSum(po)
    BY <1>0, <1>1, <1>3, <1>4, WeightOfFewer
  <1> QED BY <1>0, <1>2, <1>5

\* One portal is added or replaced.
LEMMA PortalRegistered ==
  ASSUME NEW po \in PortalDict, IsFiniteSet(Entries(po)), NEW name \in Names, NEW stmt \in Names,
         NEW new, new = RegisterPortal(po, name, stmt)
  PROVE  /\ new \in PortalDict /\ IsFiniteSet(Entries(new))
         /\ Cardinality(Entries(new)) = Cardinality(Entries(po)) + (IF po[name] # None THEN 0 ELSE 1)
         /\ PortalSum(new) = PortalSum(po) - (IF po[name] # None THEN PortalBytes(name, po[name]) ELSE 0)
                                + PortalBytes(name, stmt)
  <1>0. PICK S, w, R, v : S = Entries(po) /\ w = PortalWeights(po) /\ R = Entries(new) /\ v = PortalWeights(new)
    OBVIOUS
  <1>1. new \in PortalDict /\ new[name] = stmt /\ \A n \in Names : n # name => new[n] = po[n]
    BY DEF RegisterPortal, PortalDict
  <1>2. R = S \cup {name} /\ (name \in S <=> po[name] # None)
    BY <1>0, <1>1, NamesAssumption DEF Entries
  <1>3. IsFiniteSet(R) /\ Cardinality(R) = Cardinality(S) + (IF po[name] # None THEN 0 ELSE 1)
    <2>1. IsFiniteSet(S) /\ Cardinality(S) \in Nat
      BY <1>0, FS_CardinalityType
    <2>2. IsFiniteSet(R) /\ Cardinality(R) = (IF name \in S THEN Cardinality(S) ELSE Cardinality(S) + 1)
      BY <1>2, <2>1, FS_AddElement
    <2> QED BY <1>2, <2>1, <2>2
  <1>4. w \in [S -> Nat] /\ Weighs(S, w, PortalSum(po))
    BY <1>0, PortalsWeigh
  <1>5. v \in [R -> Nat] /\ Weighs(R, v, PortalSum(new))
    BY <1>0, <1>1, <1>3, PortalsWeigh
  <1>6. /\ v[name] = PortalBytes(name, stmt) /\ (name \in S => w[name] = PortalBytes(name, po[name]))
        /\ \A n \in S \ {name} : v[n] = w[n]
    <2>1. \A n \in S : n \in Names
      BY <1>0 DEF Entries
    <2> QED BY <1>0, <1>1, <1>2, <2>1 DEF PortalWeights
  <1>7. PortalSum(new) = PortalSum(po) - (IF name \in S THEN w[name] ELSE 0) + v[name]
    <2>1. IsFiniteSet(S)
      BY <1>0
    <2> QED BY ONLY <1>2, <1>4, <1>5, <1>6, <2>1, WeightOfUpdate
  <1>8. (IF name \in S THEN w[name] ELSE 0) = (IF po[name] # None THEN PortalBytes(name, po[name]) ELSE 0)
    BY <1>2, <1>6
  <1> QED BY <1>0, <1>1, <1>3, <1>6, <1>7, <1>8

\* The limits of a session, with what makes them inductive: the registries are
\* finite.
WithinLimits(st, po) ==
  /\ IsFiniteSet(Entries(st)) /\ Cardinality(Entries(st)) <= MaxItems
  /\ IsFiniteSet(Entries(po)) /\ Cardinality(Entries(po)) <= MaxItems
  /\ StateBytes(st, po) <= MaxBytes

\* The bytes of a session are the two sums.
LEMMA StateBytesFacts ==
  ASSUME NEW st \in StatementDict, NEW po \in PortalDict, IsFiniteSet(Entries(st)), IsFiniteSet(Entries(po))
  PROVE  /\ StateBytes(st, po) = StatementSum(st) + PortalSum(po)
         /\ StatementSum(st) \in Nat /\ PortalSum(po) \in Nat
         /\ Cardinality(Entries(st)) \in Nat /\ Cardinality(Entries(po)) \in Nat
  <1>1. StateBytes(st, po) = StatementSum(st) + PortalSum(po)
    BY Zenon DEF StateBytes, StatementSum, PortalSum
  <1> QED BY <1>1, StatementsWeigh, PortalsWeigh, FS_CardinalityType

\* Taking entries away keeps the limits.
LEMMA LimitsFewer ==
  ASSUME NEW st \in StatementDict, NEW po \in PortalDict, WithinLimits(st, po),
         NEW ns \in StatementDict, NEW np \in PortalDict,
         \A n \in Names : ns[n] = None \/ ns[n] = st[n], \A n \in Names : np[n] = None \/ np[n] = po[n]
  PROVE  WithinLimits(ns, np)
  <1>1. IsFiniteSet(Entries(st)) /\ IsFiniteSet(Entries(po))
    BY DEF WithinLimits
  <1>2. /\ IsFiniteSet(Entries(ns)) /\ Cardinality(Entries(ns)) <= Cardinality(Entries(st))
        /\ StatementSum(ns) <= StatementSum(st)
    BY <1>1, FewerStatements
  <1>3. /\ IsFiniteSet(Entries(np)) /\ Cardinality(Entries(np)) <= Cardinality(Entries(po))
        /\ PortalSum(np) <= PortalSum(po)
    BY <1>1, FewerPortals
  <1>4. /\ StateBytes(st, po) = StatementSum(st) + PortalSum(po)
        /\ StatementSum(st) \in Nat /\ PortalSum(po) \in Nat
        /\ Cardinality(Entries(st)) \in Nat /\ Cardinality(Entries(po)) \in Nat
    BY <1>1, StateBytesFacts
  <1>5. /\ StateBytes(ns, np) = StatementSum(ns) + PortalSum(np)
        /\ StatementSum(ns) \in Nat /\ PortalSum(np) \in Nat
        /\ Cardinality(Entries(ns)) \in Nat /\ Cardinality(Entries(np)) \in Nat
    BY <1>2, <1>3, StateBytesFacts
  <1> QED BY <1>2, <1>3, <1>4, <1>5, LimitsAssumption DEF WithinLimits

\* What register_statement accepts keeps the limits.
LEMMA LimitsStatement ==
  ASSUME NEW st \in StatementDict, NEW po \in PortalDict, WithinLimits(st, po),
         NEW name \in Names, NEW sql \in SQL, CanRegisterStatement(st, po, name, sql),
         NEW new, new = RegisterStatement(st, name, sql)
  PROVE  new \in StatementDict /\ WithinLimits(new, po)
  <1>0. PICK old, add : /\ old = IF st[name] # None THEN StatementBytes(name, st[name]) ELSE 0
                        /\ add = StatementBytes(name, sql)
    OBVIOUS
  <1>1. IsFiniteSet(Entries(st)) /\ IsFiniteSet(Entries(po))
    BY DEF WithinLimits
  <1>2. /\ new \in StatementDict /\ IsFiniteSet(Entries(new))
        /\ Cardinality(Entries(new)) = Cardinality(Entries(st)) + (IF st[name] # None THEN 0 ELSE 1)
        /\ StatementSum(new) = StatementSum(st) - old + add
    BY <1>0, <1>1, StatementRegistered
  <1>3. /\ StateBytes(st, po) = StatementSum(st) + PortalSum(po)
        /\ StatementSum(st) \in Nat /\ PortalSum(po) \in Nat /\ Cardinality(Entries(st)) \in Nat
    BY <1>1, StateBytesFacts
  <1>4. StateBytes(new, po) = StatementSum(new) + PortalSum(po)
    BY <1>1, <1>2, StateBytesFacts
  <1>5. old \in Nat /\ add \in Nat
    BY <1>0, BytesAssumption DEF StatementBytes, StatementDict
  <1>6. StateBytes(st, po) - old + add <= MaxBytes
    BY <1>0 DEF CanRegisterStatement
  <1>7. StateBytes(new, po) <= MaxBytes
    BY <1>2, <1>3, <1>4, <1>5, <1>6, LimitsAssumption
  <1>8. Cardinality(Entries(new)) <= MaxItems
    BY <1>2, <1>3, LimitsAssumption DEF CanRegisterStatement, WithinLimits
  <1> QED BY <1>1, <1>2, <1>7, <1>8 DEF WithinLimits

\* What register_portal accepts keeps the limits.
LEMMA LimitsPortal ==
  ASSUME NEW st \in StatementDict, NEW po \in PortalDict, WithinLimits(st, po),
         NEW name \in Names, NEW stmt \in Names, CanRegisterPortal(st, po, name, stmt),
         NEW new, new = RegisterPortal(po, name, stmt)
  PROVE  new \in PortalDict /\ WithinLimits(st, new)
  <1>0. PICK old, add : /\ old = IF po[name] # None THEN PortalBytes(name, po[name]) ELSE 0
                        /\ add = PortalBytes(name, stmt)
    OBVIOUS
  <1>1. IsFiniteSet(Entries(st)) /\ IsFiniteSet(Entries(po))
    BY DEF WithinLimits
  <1>2. /\ new \in PortalDict /\ IsFiniteSet(Entries(new))
        /\ Cardinality(Entries(new)) = Cardinality(Entries(po)) + (IF po[name] # None THEN 0 ELSE 1)
        /\ PortalSum(new) = PortalSum(po) - old + add
    BY <1>0, <1>1, PortalRegistered
  <1>3. /\ StateBytes(st, po) = StatementSum(st) + PortalSum(po)
        /\ StatementSum(st) \in Nat /\ PortalSum(po) \in Nat /\ Cardinality(Entries(po)) \in Nat
    BY <1>1, StateBytesFacts
  <1>4. StateBytes(st, new) = StatementSum(st) + PortalSum(new)
    BY <1>1, <1>2, StateBytesFacts
  <1>5. old \in Nat /\ add \in Nat
    BY <1>0, BytesAssumption DEF PortalBytes, PortalDict
  <1>6. StateBytes(st, po) - old + add <= MaxBytes
    BY <1>0 DEF CanRegisterPortal
  <1>7. StateBytes(st, new) <= MaxBytes
    BY <1>2, <1>3, <1>4, <1>5, <1>6, LimitsAssumption
  <1>8. Cardinality(Entries(new)) <= MaxItems
    BY <1>2, <1>3, LimitsAssumption DEF CanRegisterPortal, WithinLimits
  <1> QED BY <1>1, <1>2, <1>7, <1>8 DEF WithinLimits

\* No step exceeds a limit.
LEMMA LimitsNext ==
  ASSUME IInv, WithinLimits(statements, portals), [Next]_vars
  PROVE  WithinLimits(statements, portals)'
  <1>0. PICK st, po, ns, np : st = statements /\ po = portals /\ ns = statements' /\ np = portals'
    OBVIOUS
  <1>1. st \in StatementDict /\ po \in PortalDict /\ ns \in StatementDict /\ np \in PortalDict
    <2>1. IInv'
      BY NextInv
    <2> QED BY <1>0, <2>1 DEF IInv, TypeOK, StateTyped, StatementDict, PortalDict
  <1>2. WithinLimits(st, po)
    BY <1>0
  <1> SUFFICES WithinLimits(ns, np)
    BY <1>0
  <1>3. CASE \A n \in Names : (ns[n] = None \/ ns[n] = st[n]) /\ (np[n] = None \/ np[n] = po[n])
    BY <1>1, <1>2, <1>3, LimitsFewer
  <1>4. CASE ns = st /\ np = po
    BY <1>2, <1>4
  <1>5. CASE HandleParse
    <2>1. PICK m : m = Head(c2p)
      OBVIOUS
    <2>2. c2p # <<>> /\ \/ ns = st /\ np = po
                        \/ /\ CanRegisterStatement(st, po, m.name, m.sql)
                           /\ ns = RegisterStatement(st, m.name, m.sql) /\ np = PortalsAfterParse(po, m.name)
      BY <1>0, <1>5, <2>1 DEF HandleParse, Reading
    <2>3. m \in Msg
      BY <2>1, <2>2, TailFacts DEF IInv, TypeOK, QueuesTyped
    <2>4. m.name \in Names /\ m.sql \in SQL
      BY <2>3 DEF Msg
    <2>5. ASSUME CanRegisterStatement(st, po, m.name, m.sql), ns = RegisterStatement(st, m.name, m.sql),
                 np = PortalsAfterParse(po, m.name)
          PROVE  WithinLimits(ns, np)
      <3>1. WithinLimits(ns, po)
        BY <1>1, <1>2, <2>4, <2>5, LimitsStatement
      <3>2. \A n \in Names : np[n] = None \/ np[n] = po[n]
        BY <2>5 DEF PortalsAfterParse, DropPortalsOf
      <3> QED BY <1>1, <3>1, <3>2, LimitsFewer
    <2> QED BY <1>4, <2>2, <2>5
  <1>6. CASE HandleBind
    <2>1. PICK m : m = Head(c2p)
      OBVIOUS
    <2>2. c2p # <<>> /\ ns = st /\ \/ np = po
                                   \/ /\ CanRegisterPortal(st, po, m.portal, m.name)
                                      /\ np = RegisterPortal(po, m.portal, m.name)
      BY <1>0, <1>6, <2>1 DEF HandleBind, Reading
    <2>3. m \in Msg
      BY <2>1, <2>2, TailFacts DEF IInv, TypeOK, QueuesTyped
    <2>4. m.name \in Names /\ m.portal \in Names
      BY <2>3 DEF Msg
    <2>5. ASSUME CanRegisterPortal(st, po, m.portal, m.name), np = RegisterPortal(po, m.portal, m.name)
          PROVE  WithinLimits(st, np)
      BY <1>1, <1>2, <2>4, <2>5, LimitsPortal
    <2> QED BY <1>4, <2>2, <2>5
  <1>7. CASE HandleClose
    <2>1. PICK m : m = Head(c2p)
      OBVIOUS
    <2>2. \/ ns = CloseStatement(st, m.name) /\ np = CloseStatementPortals(po, m.name)
          \/ np = ClosePortal(po, m.portal) /\ ns = st
      BY <1>0, <1>7, <2>1 DEF HandleClose
    <2>3. \A n \in Names : (ns[n] = None \/ ns[n] = st[n]) /\ (np[n] = None \/ np[n] = po[n])
      BY <1>1, <2>2 DEF CloseStatement, CloseStatementPortals, DropPortalsOf, ClosePortal, StatementDict, PortalDict
    <2> QED BY <1>3, <2>3
  <1>8. CASE PipeBackend
    <2>1. ns = st /\ (np = po \/ np = Empty)
      BY <1>0, <1>8 DEF PipeBackend, PortalsAtReady
    <2> QED BY <1>3, <2>1 DEF Empty
  <1>9. CASE SkipUntilSync \/ SyncAfterError \/ TerminateAfterError \/ HandleOther \/ HandleMalformed
             \/ HandleSimpleQuery \/ HandleExecute \/ EstimateDone \/ UserDecides \/ AuditWritten
    <2>1. UNCHANGED <<statements, portals>>
      BY <1>9 DEF SkipUntilSync, SyncAfterError, TerminateAfterError, HandleOther, HandleMalformed, HandleSimpleQuery, HandleExecute,
                  EstimateDone, UserDecides, AuditWritten, proxy
    <2> QED BY <1>0, <1>4, <2>1
  <1>10. CASE (\E r \in Requests : ClientSend(r)) \/ Backend \/ UNCHANGED vars
    <2>1. UNCHANGED <<statements, portals>>
      BY <1>10 DEF ClientSend, Backend, BackendSkips, BackendRejects, BackendPrepares, BackendExecutes,
                   BackendQueries, BackendSyncs, BackendCalls, BackendTerminates, vars, proxy
    <2> QED BY <1>0, <1>4, <2>1
  <1> QED BY <1>5, <1>6, <1>7, <1>8, <1>9, <1>10 DEF Next, ClientTask

\* The registries never exceed max_items and max_state_bytes, for all limits,
\* names, texts and lengths of a session: the size register_statement and
\* register_portal project is the size afterwards or more.
THEOREM RegistriesAreBounded == Spec => []StateIsBounded
  <1>1. Init => WithinLimits(statements, portals)
    <2> SUFFICES ASSUME Init PROVE WithinLimits(statements, portals)
      OBVIOUS
    <2>0. PICK st, po : st = statements /\ po = portals
      OBVIOUS
    <2>1. st = Empty /\ po = Empty
      BY <2>0 DEF Init
    <2>2. st \in StatementDict /\ po \in PortalDict /\ Entries(st) = {} /\ Entries(po) = {}
      BY <2>1 DEF Empty, StatementDict, PortalDict, Entries
    <2>3. IsFiniteSet({}) /\ Cardinality({}) = 0
      BY FS_EmptySet
    <2>4. StatementSum(st) = 0
      BY <2>2, <2>3, StatementsWeigh, WeightFacts
    <2>5. PortalSum(po) = 0
      BY <2>2, <2>3, PortalsWeigh, WeightFacts
    <2>6. StateBytes(st, po) = 0
      <3>1. IsFiniteSet(Entries(st)) /\ IsFiniteSet(Entries(po))
        BY <2>2, <2>3
      <3>2. StateBytes(st, po) = StatementSum(st) + PortalSum(po)
        BY <2>2, <3>1, StateBytesFacts
      <3> QED BY <2>4, <2>5, <3>2
    <2> QED BY <2>0, <2>2, <2>3, <2>6, LimitsAssumption DEF WithinLimits
  <1>2. IInv /\ WithinLimits(statements, portals) /\ [Next]_vars => WithinLimits(statements, portals)'
    BY LimitsNext
  <1>3. WithinLimits(statements, portals) => StateIsBounded
    BY DEF WithinLimits, StateIsBounded
  <1> QED BY <1>1, <1>2, <1>3, Invariance, PTL DEF Spec

=============================================================================
