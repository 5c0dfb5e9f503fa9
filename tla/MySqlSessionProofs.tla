------------------------- MODULE MySqlSessionProofs --------------------------
(***************************************************************************)
(* Proofs about MySqlSession, for every set of texts and databases, every  *)
(* classification, policy, fail-safe mode, client behaviour and bound.     *)
(*                                                                         *)
(* The argument for the gate is that of PgSessionProofs: a judgement is    *)
(* recorded under the command's number, and the numbers in the queues are  *)
(* in order.  Typing needs more here, because the registry is updated from *)
(* what the server answers and from what the proxy remembers of a command: *)
(* a statement that is being reset or executed must still be registered    *)
(* when the answer or the audit write comes, and the server must not give  *)
(* out more statement ids than there were commands.                        *)
(*                                                                         *)
(* The second part is about answers.  The proxy finds the end of an answer *)
(* by reading it; that this is its end for the server too takes an         *)
(* invariant over the whole way of a command, TrackInv: the session rests, *)
(* weighs a command, has one on its way, or is given the packets of an     *)
(* answer that it will read to the end.  It is stated outside permissive   *)
(* mode, where nothing passes that is not tracked.                         *)
(*                                                                         *)
(* The third part builds on it: the database the estimates are made in,    *)
(* the transaction status the proxy records, for a client that waits the   *)
(* order of its answers, and for any client that each command is answered  *)
(* at most once.                                                           *)
(***************************************************************************)
EXTENDS MySqlSession, Facts

\* The client's socket holds the last commands sent, in order.
QueueNumbered ==
  /\ Len(c2p) <= Len(sent)
  /\ \A i \in 1..Len(c2p) : c2p[i].id = Taken + i

\* The pump works on the command it took last.
CurrentIsLast == pc # "read" => cur[1].id = Taken

\* What was forwarded or run has left the pump, and the server prepares at
\* most one statement per command.
ForwardedIsOlder ==
  /\ \A i \in 1..Len(p2b) : p2b[i].id <= Left
  /\ \A e \in executed : e.id <= Left
  /\ Len(bStmts) + Len(p2b) <= Left

\* The verdicts a command may carry to the audit write.
Final(v) == /\ v \in LetThrough \cup Refused
            /\ v = "ALLOWED_PROTOCOL_GAP" => Mode = "permissive"

\* What the pump knows of the command it is about to finish.
CurrentIsJudged ==
  /\ pc \in {"estimate", "confirm"} => judged[cur[1].id] \in SQL
  /\ pc = "audit" => Final(verdict[cur[1].id])

\* Of what has not left the pump no decision is on record.
Undecided == \A id \in Ids : id > Left => audited[id] = "NONE"

Core == /\ StreamTyped /\ TaskTyped /\ QueueNumbered /\ CurrentIsLast /\ ForwardedIsOlder
        /\ CurrentIsJudged /\ OnlyClearedReachServer /\ Undecided

Judging == pc \in {"estimate", "confirm", "audit"}

\* The statement a RESET or an inspected EXECUTE is about stays registered
\* until the answer or the audit write.
Registered ==
  /\ pendingReset # None => statements[pendingReset] \in Entries
  /\ (Judging /\ cur[1].type = "EXECUTE" /\ judged[cur[1].id] # None) =>
       /\ pendingSql = None
       /\ Target(cur[1]) \in Ids /\ statements[Target(cur[1])] \in Entries

IInv == TypeOK /\ Core /\ Registered

-----------------------------------------------------------------------------
(***************************************************************************)
(* Policy.                                                                 *)
(***************************************************************************)
\* Every command gets one of the three actions.
LEMMA PolicyType ==
  ASSUME NEW c \in Classification, NEW rows \in Int, NEW err \in BOOLEAN,
         NEW cfg \in PolicyConfig
  PROVE  EvaluatePolicy(c, rows, err, cfg).action \in PolicyAction
  BY DEF EvaluatePolicy, Classification, PolicyConfig, PolicyAction, Decide,
         EvaluateRows, EstimateMissing

-----------------------------------------------------------------------------
\* A fresh session satisfies the invariant.
LEMMA InitInv == Init => IInv
  <1> SUFFICES ASSUME Init PROVE IInv
    OBVIOUS
  <1> USE DEF Init
  <1>1. StreamTyped /\ AnswersTyped
    BY BoundsAssumption DEF StreamTyped, AnswersTyped
  <1>2. LifecycleTyped /\ PrepareTyped
    <2>1. LifecycleTyped
      BY TextsAssumption DEF LifecycleTyped
    <2>2. PrepareTyped
      BY DEF PrepareTyped
    <2> QED BY <2>1, <2>2
  <1>3. ResponseTyped /\ RegistryTyped
    <2>1. ResponseTyped
      <3>1. pendingCmd \in BOOLEAN
        OBVIOUS
      <3>2. stage = "initial" /\ columns = 0
        OBVIOUS
      <3> QED BY ONLY <3>1, <3>2 DEF ResponseTyped
    <2>2. RegistryTyped
      BY DEF RegistryTyped
    <2> QED BY <2>1, <2>2
  <1>4. TaskTyped
    BY DEF TaskTyped, Verdicts
  <1>5. ServerTyped
    <2>1. bDb \in Databases
      BY TextsAssumption
    <2>2. bStmts \in Seq(SQL \cup {None}) /\ executed \subseteq [id : Ids, sql : SQL]
      OBVIOUS
    <2> QED BY <2>1, <2>2 DEF ServerTyped
  <1>6. Core
    BY <1>1, <1>4 DEF Core, QueueNumbered, CurrentIsLast, ForwardedIsOlder, CurrentIsJudged,
                      OnlyClearedReachServer, Undecided, Taken, Left
  <1>7. Registered
    BY DEF Registered, Judging
  <1> QED BY <1>1, <1>2, <1>3, <1>4, <1>5, <1>6, <1>7 DEF IInv, TypeOK

-----------------------------------------------------------------------------
(***************************************************************************)
(* Steps of the gate.                                                      *)
(***************************************************************************)
\* Taking the next command off the client's socket.
LEMMA TakeStep ==
  ASSUME StreamTyped, QueueNumbered, c2p # <<>>, c2p' = Tail(c2p), UNCHANGED sent
  PROVE  /\ Head(c2p) \in Message
         /\ Head(c2p).id \in Ids
         /\ Head(c2p).id = Taken + 1
         /\ Taken \in Int
         /\ Taken' = Taken + 1
         /\ c2p' \in Seq(Message)
         /\ QueueNumbered'
  <1>1. c2p \in Seq(Message) /\ sent \in Seq(Message) /\ Len(sent) \in Nat /\ Len(c2p) \in Nat
    BY DEF StreamTyped
  <1>2. /\ c2p' \in Seq(Message) /\ Len(c2p) # 0 /\ Len(c2p') = Len(c2p) - 1
        /\ \A i \in 1..Len(c2p) - 1 : c2p'[i] = c2p[i + 1]
        /\ Head(c2p) \in Message /\ Head(c2p) = c2p[1]
    BY <1>1, TailFacts
  <1>3. Head(c2p).id \in Ids
    BY <1>2 DEF Message
  <1>4. Taken \in Int /\ Taken' = Taken + 1
    BY <1>1, <1>2 DEF Taken
  <1>5. Head(c2p).id = Taken + 1
    BY <1>1, <1>2 DEF QueueNumbered
  <1>6. QueueNumbered'
    <2>1. Len(c2p') <= Len(sent')
      BY <1>1, <1>2 DEF QueueNumbered
    <2>2. ASSUME NEW i \in 1..Len(c2p') PROVE c2p'[i].id = Taken' + i
      <3>1. i \in 1..Len(c2p) - 1 /\ i + 1 \in 1..Len(c2p)
        BY <1>1, <1>2
      <3>2. c2p'[i].id = Taken + (i + 1)
        BY <1>2, <3>1 DEF QueueNumbered
      <3> QED BY <3>1, <3>2, <1>4
    <2> QED BY <2>1, <2>2 DEF QueueNumbered
  <1> QED BY <1>2, <1>3, <1>4, <1>5, <1>6

\* The command the pump works on, as a value.
LEMMA CurrentTyped ==
  ASSUME TaskTyped, pc # "read"
  PROVE  cur[1] \in Message /\ cur[1].id \in Ids /\ cur = <<cur[1]>>
  <1>1. cur \in Seq(Message) /\ Len(cur) = 1
    BY DEF TaskTyped
  <1>2. cur[1] \in Message /\ cur = <<cur[1]>>
    BY <1>1
  <1>3. cur[1].id \in Ids
    BY <1>2 DEF Message
  <1> QED BY <1>2, <1>3

\* A step that judges only younger commands keeps the clearance of those that
\* have left the pump, and decides none of those that stay.
OlderKept ==
  /\ Left \in Int /\ Left' \in Int /\ Left <= Left'
  /\ \A id \in Ids : id <= Left => /\ verdict'[id] = verdict[id]
                                   /\ audited'[id] = audited[id]
  /\ \A id \in Ids : id > Left' => audited'[id] = audited[id]

\* What a step is for the gate.  Nothing leaves the pump; or one command does,
\* forwarded or not; or the server takes one.
Holds == OlderKept /\ Left' = Left /\ UNCHANGED <<p2b, executed, bStmts>>

Leaves ==
  /\ OlderKept /\ Left + 1 \in Ids /\ Left' = Left + 1 /\ UNCHANGED <<executed, bStmts>>
  /\ \/ \E m \in Message : /\ m.id = Left + 1 /\ p2b' = Append(p2b, m)
                           /\ Runs(m) => DecisionOf(Left)' = "pass"
                           /\ DecisionOf(Left)' # "refuse"
     \/ UNCHANGED p2b /\ DecisionOf(Left)' # "pass"

Arrives ==
  /\ p2b # <<>> /\ p2b' = Tail(p2b) /\ UNCHANGED <<sent, c2p, task>>
  /\ bStmts' \in Seq(SQL \cup {None}) /\ Len(bStmts') <= Len(bStmts) + 1
  /\ \/ UNCHANGED executed
     \/ /\ Runs(Head(p2b))
        /\ \E q : executed' = executed \cup {[id |-> Head(p2b).id, sql |-> q]}

GateStep == Holds \/ Leaves \/ Arrives

\* What has not left the pump is open.
LEMMA UndecidedIsOpen ==
  ASSUME Undecided, NEW id \in Ids, id > Left
  PROVE  DecisionOf(id) = "open"
  <1>1. audited[id] = "NONE"
    BY DEF Undecided
  <1>2. id \notin Cleared /\ audited[id] \notin Refused
    BY <1>1 DEF Cleared, LetThrough, Refused
  <1> QED BY <1>2 DEF DecisionOf

\* A clearance survives a step that does not touch the command's entries.
LEMMA ClearedKept ==
  ASSUME NEW id \in Cleared, verdict'[id] = verdict[id], audited'[id] = audited[id]
  PROVE  id \in Cleared'
  BY DEF Cleared

\* No step of the gate records a decision early or takes a clearance back.
LEMMA GateKept ==
  ASSUME Core, ServerTyped, GateStep
  PROVE  /\ p2b' \in Seq(Message)
         /\ ForwardedIsOlder' /\ OnlyClearedReachServer' /\ Undecided'
  <1> USE DEF Core
  <1>1. /\ p2b \in Seq(Message) /\ Len(p2b) \in Nat /\ executed \subseteq [id : Ids, sql : SQL]
        /\ bStmts \in Seq(SQL \cup {None}) /\ Len(bStmts) \in Nat
        /\ Left \in Int
    BY DEF StreamTyped, ServerTyped, Left, Taken
  <1>2. ASSUME NEW i \in 1..Len(p2b)
        PROVE  /\ p2b[i] \in Message /\ p2b[i].id \in Ids /\ p2b[i].id \in Int /\ p2b[i].id <= Left
               /\ Runs(p2b[i]) => p2b[i].id \in Cleared
    <2>1. p2b[i] \in Message
      BY <1>1
    <2>2. p2b[i].id \in Ids /\ p2b[i].id \in Int
      BY <2>1, BoundsAssumption DEF Message, Ids
    <2> QED BY <2>1, <2>2 DEF ForwardedIsOlder, OnlyClearedReachServer
  <1>3. ASSUME NEW e \in executed
        PROVE  e.id \in Ids /\ e.id \in Int /\ e.id <= Left /\ e.id \in Cleared
    BY <1>1, BoundsAssumption DEF ForwardedIsOlder, OnlyClearedReachServer, Ids
  <1>4. ASSUME OlderKept, NEW id \in Cleared, id \in Int, id <= Left
        PROVE  id \in Cleared' /\ id <= Left'
    BY <1>4, ClearedKept DEF OlderKept, Cleared
  <1>5. ASSUME OlderKept PROVE Undecided'
    <2>1. ASSUME NEW id \in Ids, id > Left' PROVE audited'[id] = "NONE"
      <3>1. id > Left
        BY <1>5, <2>1, BoundsAssumption DEF OlderKept, Ids
      <3> QED BY <1>5, <2>1, <3>1 DEF Undecided, OlderKept
    <2> QED BY <2>1 DEF Undecided
  <1>6. CASE Holds
    <2>1. OlderKept /\ Left' = Left /\ UNCHANGED <<p2b, executed, bStmts>>
      BY <1>6 DEF Holds
    <2>2. ForwardedIsOlder'
      BY <2>1 DEF ForwardedIsOlder
    <2>3. OnlyClearedReachServer'
      BY <1>2, <1>3, <1>4, <2>1 DEF OnlyClearedReachServer, Runs
    <2> QED BY <1>1, <1>5, <2>1, <2>2, <2>3
  <1>7. CASE Leaves
    <2>1. OlderKept /\ Left + 1 \in Ids /\ Left' = Left + 1 /\ UNCHANGED <<executed, bStmts>>
      BY <1>7 DEF Leaves
    <2>2. \A e \in executed' : e.id <= Left' /\ e.id \in Cleared'
      BY <1>3, <1>4, <2>1
    <2>3. CASE UNCHANGED p2b
      <3>1. ForwardedIsOlder'
        BY <1>1, <1>2, <2>1, <2>2, <2>3 DEF ForwardedIsOlder
      <3>2. OnlyClearedReachServer'
        BY <1>2, <1>4, <2>1, <2>2, <2>3 DEF OnlyClearedReachServer, Runs
      <3> QED BY <1>1, <1>5, <2>1, <2>3, <3>1, <3>2
    <2>4. ASSUME NEW m \in Message, m.id = Left + 1, p2b' = Append(p2b, m),
                 Runs(m) => DecisionOf(Left)' = "pass"
          PROVE  p2b' \in Seq(Message) /\ ForwardedIsOlder' /\ OnlyClearedReachServer'
      <3>1. /\ p2b' \in Seq(Message) /\ Len(p2b') = Len(p2b) + 1
            /\ \A i \in 1..Len(p2b) : p2b'[i] = p2b[i]
            /\ p2b'[Len(p2b) + 1] = m
        BY <1>1, <2>4, AppendFacts
      <3>2. Runs(m) => m.id \in Cleared'
        BY <2>1, <2>4 DEF DecisionOf
      <3>3. ASSUME NEW i \in 1..Len(p2b')
            PROVE  p2b'[i].id <= Left' /\ (Runs(p2b'[i]) => p2b'[i].id \in Cleared')
        <4>1. CASE i = Len(p2b) + 1
          BY <1>1, <2>1, <2>4, <3>1, <3>2, <4>1
        <4>2. CASE i \in 1..Len(p2b)
          <5>1. p2b'[i] = p2b[i]
            BY <3>1, <4>2
          <5>2. /\ p2b[i].id \in Int /\ p2b[i].id <= Left
                /\ Runs(p2b[i]) => p2b[i].id \in Cleared
            BY <1>2, <4>2
          <5>3. p2b[i].id <= Left'
            BY <1>1, <2>1, <5>2
          <5>4. Runs(p2b[i]) => p2b[i].id \in Cleared'
            BY <1>4, <2>1, <5>2
          <5> QED BY <5>1, <5>3, <5>4
        <4> QED BY <1>1, <3>1, <4>1, <4>2
      <3>4. Len(bStmts') + Len(p2b') <= Left'
        BY <1>1, <2>1, <3>1 DEF ForwardedIsOlder
      <3> QED BY <2>2, <3>1, <3>3, <3>4 DEF ForwardedIsOlder, OnlyClearedReachServer, Runs
    <2> QED BY <1>5, <1>7, <2>1, <2>3, <2>4 DEF Leaves
  <1>8. CASE Arrives
    <2>1. /\ p2b' \in Seq(Message) /\ Len(p2b) \in Nat \ {0}
          /\ Len(p2b') = Len(p2b) - 1 /\ Head(p2b) = p2b[1]
          /\ \A i \in 1..Len(p2b) - 1 : p2b'[i] = p2b[i + 1]
      BY <1>1, <1>8, TailFacts DEF Arrives
    <2>2. /\ Left' = Left /\ Cleared' = Cleared /\ UNCHANGED audited
      BY <1>8 DEF Arrives, Left, Taken, Cleared, task
    <2>3. ASSUME NEW i \in 1..Len(p2b')
          PROVE  p2b'[i].id <= Left /\ (Runs(p2b'[i]) => p2b'[i].id \in Cleared)
      <3>1. i + 1 \in 1..Len(p2b) /\ p2b'[i] = p2b[i + 1]
        BY <2>1
      <3> QED BY <1>2, <3>1
    <2>4. ASSUME NEW e \in executed'
          PROVE  e.id <= Left /\ e.id \in Cleared
      <3>1. CASE e \in executed
        BY <1>3, <3>1
      <3>2. CASE Runs(Head(p2b)) /\ e.id = Head(p2b).id
        <4>1. 1 \in 1..Len(p2b)
          BY <2>1
        <4> QED BY <1>2, <2>1, <3>2, <4>1
      <3> QED BY <1>8, <3>1, <3>2 DEF Arrives
    <2>5. Len(bStmts') + Len(p2b') <= Left'
      <3>1. Len(bStmts') \in Nat /\ Len(bStmts') <= Len(bStmts) + 1
        BY <1>8 DEF Arrives
      <3> QED BY <1>1, <2>1, <2>2, <3>1 DEF ForwardedIsOlder
    <2> QED BY <2>1, <2>2, <2>3, <2>4, <2>5
            DEF ForwardedIsOlder, OnlyClearedReachServer, Runs, Undecided
  <1> QED BY <1>6, <1>7, <1>8 DEF GateStep

\* The parts of the type invariant a step does not touch.
LEMMA TypesKept ==
  ASSUME TypeOK
  PROVE  /\ UNCHANGED <<database, lifecycle, txActive, closing, open>>
              => LifecycleTyped' /\ PrepareTyped'
         /\ UNCHANGED <<pendingSql, pendingId, metadata>> => PrepareTyped'
         /\ UNCHANGED response => ResponseTyped'
         /\ UNCHANGED registry => RegistryTyped'
         /\ UNCHANGED server => ServerTyped'
         /\ UNCHANGED <<delivered, b2p>> => AnswersTyped'
  <1>1. UNCHANGED <<pendingSql, pendingId, metadata>> => PrepareTyped'
    BY DEF TypeOK, PrepareTyped
  <1>2. UNCHANGED <<database, lifecycle, txActive, closing, open>>
          => LifecycleTyped' /\ PrepareTyped'
    BY <1>1 DEF TypeOK, LifecycleTyped, lifecycle
  <1>3. UNCHANGED response => ResponseTyped'
    BY DEF TypeOK, ResponseTyped, response
  <1>4. UNCHANGED registry => RegistryTyped'
    BY DEF TypeOK, RegistryTyped, registry
  <1>5. UNCHANGED server => ServerTyped'
    BY DEF TypeOK, ServerTyped, server
  <1>6. UNCHANGED <<delivered, b2p>> => AnswersTyped'
    BY DEF TypeOK, AnswersTyped
  <1> QED BY <1>1, <1>2, <1>3, <1>4, <1>5, <1>6

\* A command that needs no judgement is taken, and refused or forwarded.
LEMMA PassStep ==
  ASSUME Core, ServerTyped, c2p # <<>>, c2p' = Tail(c2p), pc = "read", UNCHANGED task,
         UNCHANGED <<sent, executed, bStmts>>,
         \/ UNCHANGED p2b
         \/ p2b' = Append(p2b, Head(c2p)) /\ ~Runs(Head(c2p))
  PROVE  Core' /\ GateStep
  <1> USE DEF Core
  <1>1. /\ Head(c2p) \in Message /\ Head(c2p).id \in Ids /\ Head(c2p).id = Taken + 1
        /\ Taken \in Int /\ Taken' = Taken + 1 /\ c2p' \in Seq(Message) /\ QueueNumbered'
    BY TakeStep
  <1>2. UNCHANGED <<pc, cur, verdict, judged, audited>>
    BY DEF task
  <1>3. OlderKept /\ Left = Taken /\ Left' = Left + 1 /\ Left + 1 \in Ids
    BY <1>1, <1>2 DEF OlderKept, Left
  <1>4. Leaves
    <2>1. DecisionOf(Left)' = DecisionOf(Left + 1)
      BY <1>2, <1>3 DEF DecisionOf, Cleared
    <2>2. DecisionOf(Left + 1) = "open"
      BY <1>1, <1>3, UndecidedIsOpen
    <2> QED BY <1>1, <1>3, <2>1, <2>2 DEF Leaves
  <1>5. p2b' \in Seq(Message) /\ ForwardedIsOlder' /\ OnlyClearedReachServer' /\ Undecided'
    BY <1>4, GateKept DEF GateStep
  <1>6. StreamTyped'
    BY <1>1, <1>5 DEF StreamTyped
  <1>7. TaskTyped' /\ CurrentIsLast' /\ CurrentIsJudged'
    BY <1>2 DEF TaskTyped, CurrentIsLast, CurrentIsJudged
  <1> QED BY <1>1, <1>4, <1>5, <1>6, <1>7 DEF GateStep

\* The judgement of a command that has just been taken, or is being worked
\* on: its record changes and no older one.
JudgesCurrent(m, v, q) ==
  /\ v \in Verdicts /\ q \in SQL \cup {None}
  /\ Judge(m, v, q)
  /\ cur' = <<m>>
  /\ pc' \in {"estimate", "confirm", "audit"}
  /\ pc' \in {"estimate", "confirm"} => q \in SQL
  /\ pc' = "audit" => Final(v)
  /\ v = "ALLOWED_PROTOCOL_GAP" => Mode = "permissive"

\* A judgement of the current command keeps the task well formed and touches
\* the entries of no other command.
LEMMA JudgementTyped ==
  ASSUME TaskTyped, NEW m \in Message, NEW v, NEW q, JudgesCurrent(m, v, q), UNCHANGED audited
  PROVE  /\ TaskTyped' /\ CurrentIsJudged' /\ cur'[1] = m /\ judged'[m.id] = q
         /\ \A id \in Ids : id # m.id => verdict'[id] = verdict[id]
  <1>1. m.id \in Ids
    BY DEF Message
  <1>2. /\ verdict' \in [Ids -> Verdicts] /\ judged' \in [Ids -> SQL \cup {None}]
        /\ verdict'[m.id] = v /\ judged'[m.id] = q
        /\ \A id \in Ids : id # m.id => verdict'[id] = verdict[id]
    BY <1>1 DEF TaskTyped, JudgesCurrent, Judge
  <1>3. cur' \in Seq(Message) /\ Len(cur') = 1 /\ cur'[1] = m
    BY DEF JudgesCurrent
  <1>4. TaskTyped'
    BY <1>2, <1>3 DEF TaskTyped, JudgesCurrent
  <1>5. CurrentIsJudged'
    BY <1>2, <1>3 DEF CurrentIsJudged, JudgesCurrent
  <1> QED BY <1>2, <1>3, <1>4, <1>5

\* A protocol gap and a policy decision are such judgements.
LEMMA GapJudges ==
  ASSUME NEW m, NEW sql \in SQL \cup {None}, ProtocolGap(m, sql)
  PROVE  \E v : JudgesCurrent(m, v, sql)
  <1> DEFINE v == IF EvaluateProtocolGap(Mode) = "ALLOW" THEN "ALLOWED_PROTOCOL_GAP"
                                                         ELSE "BLOCKED_PROTOCOL_GAP"
  <1>1. v \in Verdicts /\ Final(v) /\ (v = "ALLOWED_PROTOCOL_GAP" => Mode = "permissive")
    BY DEF Verdicts, Final, LetThrough, Refused, EvaluateProtocolGap
  <1>2. Judge(m, v, sql) /\ pc' = "audit" /\ cur' = <<m>>
    BY DEF ProtocolGap
  <1> HIDE DEF v
  <1>3. JudgesCurrent(m, v, sql)
    BY <1>1, <1>2 DEF JudgesCurrent
  <1> QED BY <1>3

\* EvaluateAndDecide judges the command, whatever the estimate.
LEMMA PolicyJudges ==
  ASSUME NEW m, NEW sql \in SQL, NEW rows \in Int, NEW err \in BOOLEAN,
         EvaluateAndDecide(m, sql, rows, err)
  PROVE  \E v : JudgesCurrent(m, v, sql)
  <1> DEFINE action == EvaluatePolicy(Class[sql], rows, err, Config).action
             v == CASE action = "ALLOW"   -> "ALLOWED"
                    [] action = "BLOCK"   -> "BLOCKED_BY_POLICY"
                    [] action = "CONFIRM" -> "PENDING"
  <1>1. action \in PolicyAction
    <2>1. Class[sql] \in Classification
      BY TextsAssumption
    <2> QED BY <2>1, PolicyType, ConfigAssumption
  <1>2. /\ Judge(m, v, sql)
        /\ pc' = IF action = "CONFIRM" THEN "confirm" ELSE "audit"
        /\ cur' = <<m>>
    BY DEF EvaluateAndDecide
  <1> HIDE DEF action
  <1>3. v \in Verdicts /\ (action # "CONFIRM" => Final(v)) /\ v # "ALLOWED_PROTOCOL_GAP"
    BY <1>1 DEF PolicyAction, Verdicts, Final, LetThrough, Refused
  <1> HIDE DEF v
  <1>4. JudgesCurrent(m, v, sql)
    BY <1>2, <1>3 DEF JudgesCurrent
  <1> QED BY <1>4

\* So is an inspection, whether it ends at once or waits for an estimate.
LEMMA InspectJudges ==
  ASSUME NEW m, NEW sql \in SQL, Inspect(m, sql)
  PROVE  \E v : JudgesCurrent(m, v, sql)
  <1>1. CASE Judge(m, "PENDING", sql) /\ pc' = "estimate" /\ cur' = <<m>>
    <2>1. JudgesCurrent(m, "PENDING", sql)
      BY <1>1 DEF JudgesCurrent, Verdicts
    <2> QED BY <2>1
  <1>2. CASE EvaluateAndDecide(m, sql, NoRows, FALSE)
    <2>1. NoRows \in Int
      BY DEF NoRows
    <2> QED BY <1>2, <2>1, PolicyJudges
  <1> QED BY <1>1, <1>2 DEF Inspect

\* A command is taken and its handler suspends, with a judgement or to wait
\* for the answer to the PREPARE before it.
LEMMA SuspendStep ==
  ASSUME Core, ServerTyped, c2p # <<>>, c2p' = Tail(c2p), pc = "read",
         \/ \E v, q : JudgesCurrent(Head(c2p), v, q)
         \/ pc' = "wait" /\ cur' = <<Head(c2p)>> /\ UNCHANGED <<verdict, judged>>,
         UNCHANGED <<sent, p2b, audited, executed, bStmts>>
  PROVE  Core' /\ GateStep
  <1> USE DEF Core
  <1> DEFINE m == Head(c2p)
  <1>1. /\ m \in Message /\ m.id \in Ids /\ m.id = Taken + 1
        /\ Taken \in Int /\ Taken' = Taken + 1 /\ c2p' \in Seq(Message) /\ QueueNumbered'
    BY TakeStep
  <1>2. \/ \E v, q : JudgesCurrent(m, v, q)
        \/ pc' = "wait" /\ cur' = <<m>> /\ UNCHANGED <<verdict, judged>>
    OBVIOUS
  <1> HIDE DEF m
  <1>3. /\ TaskTyped' /\ CurrentIsJudged' /\ cur'[1] = m /\ pc' # "read"
        /\ \A id \in Ids : id # m.id => verdict'[id] = verdict[id]
    <2>1. ASSUME NEW v, NEW q, JudgesCurrent(m, v, q)
          PROVE  /\ TaskTyped' /\ CurrentIsJudged' /\ cur'[1] = m /\ pc' # "read"
                 /\ \A id \in Ids : id # m.id => verdict'[id] = verdict[id]
      <3>1. pc' # "read"
        BY <2>1 DEF JudgesCurrent
      <3> QED BY <1>1, <2>1, <3>1, JudgementTyped
    <2>2. CASE pc' = "wait" /\ cur' = <<m>> /\ UNCHANGED <<verdict, judged>>
      <3>1. cur' \in Seq(Message) /\ Len(cur') = 1 /\ cur'[1] = m
        BY <1>1, <2>2
      <3> QED BY <2>2, <3>1 DEF TaskTyped, CurrentIsJudged
    <2> QED BY <1>2, <2>1, <2>2
  <1>4. OlderKept /\ Left' = Left
    <2>1. Left = Taken /\ Left' = Taken
      BY <1>1, <1>3 DEF Left
    <2>2. \A id \in Ids : id <= Left => id # m.id
      BY <1>1, <2>1, BoundsAssumption DEF Ids
    <2> QED BY <1>1, <1>3, <2>1, <2>2 DEF OlderKept
  <1>5. Holds
    BY <1>4 DEF Holds
  <1>6. p2b' \in Seq(Message) /\ ForwardedIsOlder' /\ OnlyClearedReachServer' /\ Undecided'
    BY <1>5, GateKept DEF GateStep
  <1>7. StreamTyped'
    BY <1>1, <1>6 DEF StreamTyped
  <1>8. CurrentIsLast'
    BY <1>1, <1>3 DEF CurrentIsLast
  <1> QED BY <1>1, <1>3, <1>5, <1>6, <1>7, <1>8 DEF GateStep

\* The command the pump works on is judged, or judged again.
LEMMA RejudgeStep ==
  ASSUME Core, ServerTyped, pc # "read", \E v, q : JudgesCurrent(cur[1], v, q),
         UNCHANGED <<sent, c2p, p2b, audited, executed, bStmts>>
  PROVE  Core' /\ GateStep
  <1> USE DEF Core
  <1> DEFINE m == cur[1]
  <1>1. /\ m \in Message /\ m.id \in Ids /\ m.id = Taken /\ Taken' = Taken /\ Taken \in Int
    BY CurrentTyped DEF CurrentIsLast, Taken, StreamTyped
  <1>2. PICK v, q : JudgesCurrent(m, v, q)
    OBVIOUS
  <1> HIDE DEF m
  <1>3. /\ TaskTyped' /\ CurrentIsJudged' /\ cur'[1] = m /\ pc' # "read"
        /\ \A id \in Ids : id # m.id => verdict'[id] = verdict[id]
    <2>1. pc' # "read"
      BY <1>2 DEF JudgesCurrent
    <2> QED BY <1>1, <1>2, <2>1, JudgementTyped
  <1>4. OlderKept /\ Left' = Left
    <2>1. Left = Taken - 1 /\ Left' = Taken - 1
      BY <1>1, <1>3 DEF Left
    <2>2. \A id \in Ids : id <= Left => id # m.id
      BY <1>1, <2>1, BoundsAssumption DEF Ids
    <2> QED BY <1>1, <1>3, <2>1, <2>2 DEF OlderKept
  <1>5. Holds
    BY <1>4 DEF Holds
  <1>6. p2b' \in Seq(Message) /\ ForwardedIsOlder' /\ OnlyClearedReachServer' /\ Undecided'
    BY <1>5, GateKept DEF GateStep
  <1>7. StreamTyped' /\ QueueNumbered'
    BY <1>1, <1>6 DEF StreamTyped, QueueNumbered
  <1>8. CurrentIsLast'
    BY <1>1, <1>3 DEF CurrentIsLast
  <1> QED BY <1>3, <1>5, <1>6, <1>7, <1>8 DEF GateStep

\* The command the pump worked on is done with: refused without an audit
\* event, or audited and forwarded or refused.
LEMMA FinishStep ==
  ASSUME Core, ServerTyped, pc # "read", pc' = "read", cur' = <<>>,
         UNCHANGED <<sent, c2p, verdict, judged, executed, bStmts>>,
         \/ UNCHANGED <<p2b, audited>>
         \/ /\ pc = "audit" /\ audited' = [audited EXCEPT ![cur[1].id] = verdict[cur[1].id]]
            /\ \/ verdict[cur[1].id] \in LetThrough /\ p2b' = Append(p2b, cur[1])
               \/ verdict[cur[1].id] \in Refused /\ UNCHANGED p2b
  PROVE  Core' /\ GateStep
  <1> USE DEF Core
  <1> DEFINE m == cur[1]
  <1>1. /\ m \in Message /\ m.id \in Ids /\ m.id = Taken /\ Taken' = Taken /\ Taken \in Int
    BY CurrentTyped DEF CurrentIsLast, Taken, StreamTyped
  <1>2. /\ pc = "audit" => Final(verdict[m.id])
        /\ \/ UNCHANGED <<p2b, audited>>
           \/ /\ pc = "audit" /\ audited' = [audited EXCEPT ![m.id] = verdict[m.id]]
              /\ \/ verdict[m.id] \in LetThrough /\ p2b' = Append(p2b, m)
                 \/ verdict[m.id] \in Refused /\ UNCHANGED p2b
    BY DEF CurrentIsJudged
  <1> HIDE DEF m
  <1>3. Left = m.id - 1 /\ Left' = m.id /\ Left + 1 = m.id
    BY <1>1 DEF Left
  <1>4. /\ audited' \in [Ids -> Verdicts]
        /\ \A id \in Ids : id # m.id => audited'[id] = audited[id]
        /\ audited' # audited => audited'[m.id] = verdict[m.id] /\ pc = "audit"
    BY <1>1, <1>2 DEF TaskTyped
  <1>5. OlderKept
    <2>1. \A id \in Ids : id <= Left => id # m.id
      BY <1>1, <1>3, BoundsAssumption DEF Ids
    <2>2. \A id \in Ids : id > Left' => id # m.id
      BY <1>1, <1>3, BoundsAssumption DEF Ids
    <2> QED BY <1>1, <1>3, <1>4, <2>1, <2>2 DEF OlderKept
  <1>6. Leaves
    <2>0. \A v \in LetThrough : v \notin Refused
      BY DEF LetThrough, Refused
    <2>1. CASE UNCHANGED <<p2b, audited>>
      <3>1. audited'[m.id] = "NONE"
        BY <1>1, <1>3, <2>1 DEF Undecided
      <3>2. DecisionOf(Left)' = "open"
        BY <1>3, <3>1 DEF DecisionOf, Cleared, LetThrough, Refused
      <3> QED BY <1>1, <1>3, <1>5, <2>1, <3>2 DEF Leaves
    <2>2. CASE /\ pc = "audit" /\ audited' = [audited EXCEPT ![m.id] = verdict[m.id]]
               /\ verdict[m.id] \in LetThrough /\ p2b' = Append(p2b, m)
      <3>1. audited'[m.id] = verdict[m.id] /\ Final(verdict[m.id])
        BY <1>1, <1>2, <2>2 DEF TaskTyped
      <3>2. m.id \in Cleared'
        BY <1>1, <2>2, <3>1 DEF Cleared, Final
      <3>3. DecisionOf(Left)' = "pass"
        BY <1>3, <3>2 DEF DecisionOf
      <3> QED BY <1>1, <1>3, <1>5, <2>2, <3>3 DEF Leaves
    <2>3. CASE /\ pc = "audit" /\ audited' = [audited EXCEPT ![m.id] = verdict[m.id]]
               /\ verdict[m.id] \in Refused /\ UNCHANGED p2b
      <3>1. m.id \notin Cleared'
        BY <2>0, <2>3 DEF Cleared
      <3>2. DecisionOf(Left)' # "pass"
        BY <1>3, <3>1 DEF DecisionOf
      <3> QED BY <1>1, <1>3, <1>5, <2>3, <3>2 DEF Leaves
    <2> QED BY <1>2, <2>1, <2>2, <2>3
  <1>7. p2b' \in Seq(Message) /\ ForwardedIsOlder' /\ OnlyClearedReachServer' /\ Undecided'
    BY <1>6, GateKept DEF GateStep
  <1>8. StreamTyped' /\ QueueNumbered'
    BY <1>1, <1>7 DEF StreamTyped, QueueNumbered
  <1>9. TaskTyped' /\ CurrentIsLast' /\ CurrentIsJudged'
    BY <1>4 DEF TaskTyped, CurrentIsLast, CurrentIsJudged
  <1> QED BY <1>6, <1>7, <1>8, <1>9 DEF GateStep

\* Steps of the backend pump and of the lifecycle leave the gate alone.
LEMMA PumpStep ==
  ASSUME Core, ServerTyped, UNCHANGED <<sent, c2p, p2b, task, executed, bStmts>>
  PROVE  Core' /\ GateStep
  <1>1. UNCHANGED <<pc, cur, verdict, judged, audited>>
    BY DEF task
  <1>2. Taken' = Taken /\ Left' = Left /\ Cleared' = Cleared /\ Left \in Int
    BY <1>1 DEF Taken, Left, Cleared, Core, StreamTyped
  <1>3. Core'
    BY <1>1, <1>2 DEF Core, StreamTyped, TaskTyped, QueueNumbered, CurrentIsLast,
                      ForwardedIsOlder, CurrentIsJudged, OnlyClearedReachServer, Undecided
  <1>4. Holds
    BY <1>1, <1>2 DEF Holds, OlderKept
  <1> QED BY <1>3, <1>4 DEF GateStep

\* The server takes a message.
LEMMA ServerStep ==
  ASSUME Core, ServerTyped, Arrives
  PROVE  Core' /\ GateStep
  <1> USE DEF Core
  <1>1. p2b' \in Seq(Message) /\ ForwardedIsOlder' /\ OnlyClearedReachServer' /\ Undecided'
    BY GateKept DEF GateStep
  <1>2. UNCHANGED <<sent, c2p, pc, cur, verdict, judged, audited>>
    BY DEF Arrives, task
  <1>3. StreamTyped' /\ QueueNumbered'
    BY <1>1, <1>2 DEF StreamTyped, QueueNumbered, Taken
  <1>4. TaskTyped' /\ CurrentIsLast' /\ CurrentIsJudged'
    BY <1>2 DEF TaskTyped, CurrentIsLast, CurrentIsJudged, Taken
  <1> QED BY <1>1, <1>3, <1>4 DEF GateStep

-----------------------------------------------------------------------------
(***************************************************************************)
(* The invariant is preserved by each action.                              *)
(***************************************************************************)
\* The client sends a command.
LEMMA ClientSendInv ==
  ASSUME IInv, NEW r \in Requests, ClientSend(r)
  PROVE  IInv' /\ GateStep
  <1> USE DEF IInv
  <1> DEFINE m == [type |-> r.type, wf |-> r.wf, stmt |-> r.stmt, bound |-> r.bound,
                   sql |-> r.sql, db |-> r.db, id |-> Len(sent) + 1]
  <1>1. /\ sent \in Seq(Message) /\ c2p \in Seq(Message)
        /\ Len(sent) \in Nat /\ Len(c2p) \in Nat /\ Len(sent) < MaxSent
        /\ sent' = Append(sent, m) /\ c2p' = Append(c2p, m)
    BY DEF Core, StreamTyped, ClientSend
  <1>2. m \in Message /\ m.id = Len(sent) + 1
    BY <1>1, BoundsAssumption, RequestsAssumption DEF Message, Request, Ids
  <1> HIDE DEF m
  <1>3. /\ sent' \in Seq(Message) /\ Len(sent') = Len(sent) + 1
        /\ c2p' \in Seq(Message) /\ Len(c2p') = Len(c2p) + 1
        /\ \A i \in 1..Len(c2p) : c2p'[i] = c2p[i]
        /\ c2p'[Len(c2p) + 1] = m
    BY <1>1, <1>2, AppendFacts
  <1>4. Taken' = Taken /\ Taken \in Int
    BY <1>1, <1>3 DEF Taken
  <1>5. QueueNumbered'
    <2>1. Len(c2p') <= Len(sent')
      BY <1>1, <1>3 DEF Core, QueueNumbered
    <2>2. ASSUME NEW i \in 1..Len(c2p') PROVE c2p'[i].id = Taken' + i
      <3>1. CASE i = Len(c2p) + 1
        BY <1>1, <1>2, <1>3, <1>4, <3>1 DEF Taken
      <3>2. CASE i \in 1..Len(c2p)
        BY <1>3, <1>4, <3>2 DEF Core, QueueNumbered
      <3> QED BY <1>1, <1>3, <3>1, <3>2
    <2> QED BY <2>1, <2>2 DEF QueueNumbered
  <1>6. /\ UNCHANGED <<delivered, p2b, b2p, pc, cur, verdict, judged, audited, bStmts, executed>>
        /\ UNCHANGED <<statements, lastId, pendingSql, pendingReset>>
    BY DEF ClientSend, task, server, lifecycle, registry
  <1>7. Left' = Left /\ Left \in Int
    BY <1>4, <1>6 DEF Left
  <1>8. Holds
    BY <1>6, <1>7 DEF Holds, OlderKept
  <1>9. ServerTyped
    BY DEF TypeOK
  <1>10. p2b' \in Seq(Message) /\ ForwardedIsOlder' /\ OnlyClearedReachServer' /\ Undecided'
    BY <1>8, <1>9, GateKept DEF GateStep
  <1>11. StreamTyped'
    BY <1>1, <1>3, <1>10, BoundsAssumption DEF StreamTyped
  <1>12. TaskTyped' /\ CurrentIsLast' /\ CurrentIsJudged'
    BY <1>4, <1>6 DEF Core, TaskTyped, CurrentIsLast, CurrentIsJudged
  <1>13. Core'
    BY <1>5, <1>10, <1>11, <1>12 DEF Core
  <1>14. Registered'
    BY <1>6 DEF Registered, Judging, Target
  <1>15. /\ AnswersTyped' /\ LifecycleTyped' /\ PrepareTyped' /\ ResponseTyped'
         /\ RegistryTyped' /\ ServerTyped'
    BY TypesKept DEF ClientSend
  <1> QED BY <1>8, <1>11, <1>12, <1>13, <1>14, <1>15 DEF TypeOK, GateStep

\* An invariant step: what the gate does, and the rest of the types.
LEMMA Combine ==
  ASSUME Core' /\ GateStep, Registered', AnswersTyped', LifecycleTyped', PrepareTyped',
         ResponseTyped', RegistryTyped', ServerTyped'
  PROVE  IInv' /\ GateStep
  BY DEF IInv, TypeOK, Core

\* Refusals and made-up answers are error packets.
LEMMA ErrorTyped ==
  ASSUME AnswersTyped, NEW m \in Message, UNCHANGED b2p,
         delivered' = Append(delivered, ErrorPacket(m))
  PROVE  AnswersTyped'
  <1>1. ErrorPacket(m) \in Packet
    BY DEF ErrorPacket, Packet, Message
  <1> HIDE DEF ErrorPacket
  <1> QED BY <1>1, AppendFacts DEF AnswersTyped

\* Commands that are forwarded or refused without a judgement.
LEMMA PassingInv ==
  ASSUME IInv,
         \/ BlockedByPending \/ HandleInitDb \/ HandleQuit \/ HandlePing \/ HandlePrepare
         \/ HandleClose \/ HandleReset \/ HandleStateError
  PROVE  IInv' /\ GateStep
  <1> USE DEF IInv
  <1> DEFINE m == Head(c2p)
  <1>1. /\ c2p # <<>> /\ c2p' = Tail(c2p) /\ pc = "read"
        /\ UNCHANGED <<sent, b2p, database, txActive, open, task, server, response>>
    BY DEF BlockedByPending, HandleInitDb, HandleQuit, HandlePing, HandlePrepare,
           HandleClose, HandleReset, HandleStateError, Command
  <1>2. m \in Message /\ m.stmt \in Ids \cup {LAST} /\ m.db \in Databases /\ m.sql \in SQL
    <2>1. m \in Message
      BY <1>1, TailFacts DEF Core, StreamTyped
    <2> QED BY <2>1 DEF Message
  <1>3. ResponseTyped' /\ ServerTyped' /\ UNCHANGED <<executed, bStmts>>
    BY <1>1, TypesKept DEF server
  <1>4. ASSUME UNCHANGED p2b \/ (p2b' = Append(p2b, m) /\ ~Runs(m))
        PROVE  Core' /\ GateStep
    BY <1>1, <1>3, <1>4, PassStep DEF TypeOK
  <1>5. ASSUME pendingReset' # None => statements'[pendingReset'] \in Entries PROVE Registered'
    BY <1>1, <1>5 DEF Registered, Judging, task
  <1>6. ASSUME UNCHANGED <<lifecycle, registry, p2b, closing>>, StateError(m)
        PROVE  IInv' /\ GateStep
    <2>1. AnswersTyped'
      BY <1>1, <1>2, <1>6, ErrorTyped DEF StateError, TypeOK
    <2>2. LifecycleTyped' /\ PrepareTyped' /\ RegistryTyped'
      BY <1>1, <1>6, TypesKept
    <2>3. Registered'
      BY <1>5, <1>6 DEF Registered, lifecycle, registry
    <2> QED BY <1>3, <1>4, <1>6, <2>1, <2>2, <2>3, Combine
  <1>7. CASE BlockedByPending
    BY <1>6, <1>7 DEF BlockedByPending
  <1>8. CASE HandleStateError
    BY <1>6, <1>8 DEF HandleStateError
  <1>9. CASE HandleInitDb
    <2>1. /\ p2b' = Append(p2b, m) /\ ~Runs(m) /\ pendingDb' = m.db
          /\ UNCHANGED <<delivered, pendingSql, pendingId, metadata, pendingPing, pendingReset,
                         registry, closing>>
      BY <1>9 DEF HandleInitDb, Forward, Command, Runs
    <2>2. LifecycleTyped'
      BY <1>1, <1>2, <2>1 DEF TypeOK, LifecycleTyped
    <2>3. AnswersTyped' /\ PrepareTyped' /\ RegistryTyped'
      BY <1>1, <2>1, TypesKept
    <2>4. Registered'
      BY <1>5, <2>1 DEF Registered, registry
    <2> QED BY <1>3, <1>4, <2>1, <2>2, <2>3, <2>4, Combine
  <1>10. CASE HandleQuit
    <2>1. /\ p2b' = Append(p2b, m) /\ ~Runs(m) /\ closing' = TRUE
          /\ UNCHANGED <<delivered, lifecycle, registry>>
      BY <1>10 DEF HandleQuit, Forward, Command, Runs
    <2>2. LifecycleTyped'
      BY <1>1, <2>1 DEF TypeOK, LifecycleTyped, lifecycle
    <2>3. AnswersTyped' /\ PrepareTyped' /\ RegistryTyped'
      BY <1>1, <2>1, TypesKept DEF lifecycle
    <2>4. Registered'
      BY <1>5, <2>1 DEF Registered, registry, lifecycle
    <2> QED BY <1>3, <1>4, <2>1, <2>2, <2>3, <2>4, Combine
  <1>11. CASE HandlePing
    <2>1. /\ p2b' = Append(p2b, m) /\ ~Runs(m) /\ pendingPing' = TRUE
          /\ UNCHANGED <<delivered, pendingDb, pendingSql, pendingId, metadata, pendingReset,
                         registry, closing>>
      BY <1>11 DEF HandlePing, Forward, Command, Runs
    <2>2. LifecycleTyped'
      BY <1>1, <2>1 DEF TypeOK, LifecycleTyped
    <2>3. AnswersTyped' /\ PrepareTyped' /\ RegistryTyped'
      BY <1>1, <2>1, TypesKept
    <2>4. Registered'
      BY <1>5, <2>1 DEF Registered, registry
    <2> QED BY <1>3, <1>4, <2>1, <2>2, <2>3, <2>4, Combine
  <1>12. CASE HandlePrepare
    <2>1. /\ p2b' = Append(p2b, m) /\ ~Runs(m)
          /\ pendingSql' = m.sql /\ pendingId' = None /\ metadata' = <<>> /\ prepFailed' = FALSE
          /\ UNCHANGED <<delivered, pendingDb, pendingPing, pendingReset, statements, lastId,
                         closing>>
      BY <1>12 DEF HandlePrepare, Forward, Command, Runs
    <2>2. LifecycleTyped' /\ PrepareTyped' /\ RegistryTyped'
      <3>1. LifecycleTyped'
        BY <1>1, <2>1 DEF TypeOK, LifecycleTyped
      <3>2. PrepareTyped'
        BY <1>2, <2>1 DEF PrepareTyped
      <3>3. RegistryTyped'
        BY <2>1 DEF TypeOK, RegistryTyped
      <3> QED BY <3>1, <3>2, <3>3
    <2>3. AnswersTyped'
      BY <1>1, <2>1, TypesKept
    <2>4. Registered'
      BY <1>5, <2>1 DEF Registered
    <2> QED BY <1>3, <1>4, <2>1, <2>2, <2>3, <2>4, Combine
  <1>13. CASE HandleClose
    <2>1. /\ p2b' = Append(p2b, m) /\ ~Runs(m) /\ m.type = "CLOSE" /\ MayDispatch(m)
          /\ statements' = [i \in Ids |-> IF i = m.stmt THEN None ELSE statements[i]]
          /\ lastId' = IF lastId = m.stmt THEN None ELSE lastId
          /\ UNCHANGED <<delivered, lifecycle, prepFailed, closing>>
      BY <1>13 DEF HandleClose, Forward, Command, Runs
    <2>2. LifecycleTyped' /\ PrepareTyped' /\ AnswersTyped'
      BY <1>1, <2>1, TypesKept
    <2>3. RegistryTyped'
      BY <2>1 DEF TypeOK, RegistryTyped
    <2>4. pendingReset' = None
      BY <2>1 DEF MayDispatch, HasPending, PipelinedExecute, lifecycle
    <2> QED BY <1>3, <1>4, <1>5, <2>1, <2>2, <2>3, <2>4, Combine
  <1>14. CASE HandleReset
    <2>1. /\ p2b' = Append(p2b, m) /\ ~Runs(m) /\ Known(m.stmt) /\ pendingReset' = m.stmt
          /\ UNCHANGED <<delivered, pendingDb, pendingSql, pendingId, metadata, pendingPing,
                         registry, closing>>
      BY <1>14 DEF HandleReset, Forward, Command, Runs
    <2>2. m.stmt \in Ids /\ statements[m.stmt] \in Entries
      BY <1>2, <2>1 DEF Known, TypeOK, RegistryTyped
    <2>3. LifecycleTyped'
      BY <1>1, <2>1, <2>2 DEF TypeOK, LifecycleTyped
    <2>4. AnswersTyped' /\ PrepareTyped' /\ RegistryTyped'
      BY <1>1, <2>1, TypesKept
    <2>5. Registered'
      BY <1>5, <2>1, <2>2 DEF registry
    <2> QED BY <1>3, <1>4, <2>1, <2>3, <2>4, <2>5, Combine
  <1> QED BY <1>7, <1>8, <1>9, <1>10, <1>11, <1>12, <1>13, <1>14

\* The tracking of an answer starts over or ends.
LEMMA TrackingReset ==
  ASSUME BeginCommandResponse \/ FailCommandForward
  PROVE  ResponseTyped'
  <1>1. pendingCmd' \in BOOLEAN
    BY DEF BeginCommandResponse, FailCommandForward
  <1>2. stage' = "initial" /\ columns' = 0
    BY DEF BeginCommandResponse, FailCommandForward
  <1> QED BY ONLY <1>1, <1>2 DEF ResponseTyped

\* An EXECUTE is judged on the text its statement is registered with, or is a
\* gap that names no text.
LEMMA ExecuteJudges ==
  ASSUME TypeOK, NEW m \in Message, ExecuteStatement(m)
  PROVE  /\ ResponseTyped'
         /\ \E v, q : /\ JudgesCurrent(m, v, q)
                      /\ q # None => Target(m) \in Ids /\ statements[Target(m)] \in Entries
  <1> DEFINE s == IF Target(m) = None THEN None ELSE statements[Target(m)]
  <1>1. CASE ProtocolGap(m, None) /\ UNCHANGED response
    <2>1. \E v : JudgesCurrent(m, v, None)
      BY <1>1, GapJudges
    <2> QED BY <1>1, <2>1, TypesKept
  <1>2. CASE /\ s # None /\ BeginCommandResponse
             /\ \/ ProtocolGap(m, s.sql)
                \/ Inspect(m, s.sql)
                \/ EvaluateAndDecide(m, s.sql, NoRows, TRUE)
    <2>1. Target(m) \in Ids
      <3>1. m.stmt \in Ids \cup {LAST}
        BY DEF Message
      <3> QED BY <1>2, <3>1 DEF Target, TypeOK, RegistryTyped
    <2>2. statements[Target(m)] \in Entries /\ s = statements[Target(m)]
      BY <1>2, <2>1 DEF TypeOK, RegistryTyped
    <2>3. s.sql \in SQL
      BY <2>2 DEF Entries
    <2> HIDE DEF s
    <2>4. NoRows \in Int
      BY DEF NoRows
    <2>5. \E v : JudgesCurrent(m, v, s.sql)
      BY <1>2, <2>3, <2>4, GapJudges, InspectJudges, PolicyJudges
    <2> QED BY <1>2, <2>1, <2>2, <2>5, TrackingReset
  <1> QED BY <1>1, <1>2 DEF ExecuteStatement

\* Commands that are judged, or wait for the PREPARE before them.
LEMMA JudgingInv ==
  ASSUME IInv, HandleProtocolGap \/ HandleQuery \/ HandleExecute
  PROVE  IInv' /\ GateStep
  <1> USE DEF IInv
  <1> DEFINE m == Head(c2p)
  <1>1. /\ c2p # <<>> /\ c2p' = Tail(c2p) /\ pc = "read"
        /\ UNCHANGED <<sent, delivered, p2b, b2p, database, lifecycle, registry, txActive,
                       closing, open, audited, server>>
    BY DEF HandleProtocolGap, HandleQuery, HandleExecute, Command
  <1>2. m \in Message /\ m.sql \in SQL
    <2>1. m \in Message
      BY <1>1, TailFacts DEF Core, StreamTyped
    <2> QED BY <2>1 DEF Message
  <1>3. /\ ServerTyped' /\ UNCHANGED <<executed, bStmts>>
        /\ AnswersTyped' /\ LifecycleTyped' /\ PrepareTyped' /\ RegistryTyped'
    BY <1>1, TypesKept DEF server
  <1>4. UNCHANGED <<pendingReset, pendingSql, statements, lastId>>
    BY <1>1 DEF lifecycle, registry
  <1> HIDE DEF m
  <1>5. ASSUME NEW v, NEW q, JudgesCurrent(m, v, q), ResponseTyped',
               (m.type = "EXECUTE" /\ q # None) =>
                  /\ pendingSql = None
                  /\ Target(m) \in Ids /\ statements[Target(m)] \in Entries
        PROVE  IInv' /\ GateStep
    <2>1. Core' /\ GateStep
      BY <1>1, <1>3, <1>5, SuspendStep DEF TypeOK, m
    <2>2. cur'[1] = m /\ judged'[m.id] = q
      BY <1>1, <1>2, <1>5, JudgementTyped DEF Core
    <2>3. Registered'
      BY <1>4, <1>5, <2>2 DEF Registered, Target
    <2> QED BY <1>3, <1>5, <2>1, <2>3, Combine
  <1>6. CASE HandleProtocolGap
    <2>1. ProtocolGap(m, None) /\ UNCHANGED response
      BY <1>6 DEF HandleProtocolGap, m
    <2>2. PICK v : JudgesCurrent(m, v, None)
      BY <2>1, GapJudges
    <2>3. ResponseTyped'
      BY <2>1, TypesKept
    <2> QED BY <1>5, <2>2, <2>3
  <1>7. CASE HandleQuery
    <2>1. m.type = "QUERY" /\ BeginCommandResponse /\ Inspect(m, m.sql)
      BY <1>7 DEF HandleQuery, Command, m
    <2>2. PICK v : JudgesCurrent(m, v, m.sql)
      BY <1>2, <2>1, InspectJudges
    <2>3. ResponseTyped'
      BY <2>1, TrackingReset
    <2> QED BY <1>5, <2>1, <2>2, <2>3
  <1>8. CASE HandleExecute
    <2>1. m.type = "EXECUTE" /\ MayDispatch(m)
      BY <1>8 DEF HandleExecute, Command, m
    <2>2. CASE pc' = "wait" /\ cur' = <<m>> /\ UNCHANGED <<verdict, judged, response>>
      <3>1. Core' /\ GateStep
        BY <1>1, <1>3, <2>2, SuspendStep DEF TypeOK, m
      <3>2. ResponseTyped'
        BY <2>2, TypesKept
      <3>3. Registered'
        BY <1>4, <2>2 DEF Registered, Judging
      <3> QED BY <1>3, <3>1, <3>2, <3>3, Combine
    <2>3. CASE ~PipelinedExecute(m) /\ ExecuteStatement(m)
      <3>1. pendingSql = None
        BY <2>1, <2>3 DEF MayDispatch, HasPending
      <3>2. ResponseTyped'
        BY <1>2, <2>3, ExecuteJudges
      <3>3. PICK v, q : /\ JudgesCurrent(m, v, q)
                        /\ q # None => Target(m) \in Ids /\ statements[Target(m)] \in Entries
        BY <1>2, <2>3, ExecuteJudges
      <3> QED BY <1>5, <3>1, <3>2, <3>3
    <2> QED BY <1>8, <2>2, <2>3 DEF HandleExecute, m
  <1> QED BY <1>6, <1>7, <1>8

\* The handler goes on: after the PREPARE, the estimate or the confirmation.
LEMMA ResumingInv ==
  ASSUME IInv, ResumeExecute \/ EstimateDone \/ UserDecides
  PROVE  IInv' /\ GateStep
  <1> USE DEF IInv
  <1> DEFINE m == cur[1]
  <1>1. /\ pc \in {"wait", "estimate", "confirm"}
        /\ UNCHANGED <<sent, c2p, p2b, b2p, database, lifecycle, registry, txActive,
                       closing, open, audited, server>>
    BY DEF ResumeExecute, EstimateDone, UserDecides
  <1>2. m \in Message /\ m.id \in Ids /\ cur = <<m>> /\ TaskTyped /\ ServerTyped
    BY <1>1, CurrentTyped DEF Core, TypeOK
  <1>3. /\ ServerTyped' /\ UNCHANGED <<executed, bStmts>>
        /\ LifecycleTyped' /\ PrepareTyped' /\ RegistryTyped'
    BY <1>1, TypesKept DEF server
  <1>4. UNCHANGED <<pendingReset, pendingSql, statements, lastId>>
    BY <1>1 DEF lifecycle, registry
  <1> HIDE DEF m
  <1>5. ASSUME NEW v, NEW q, JudgesCurrent(m, v, q), ResponseTyped', UNCHANGED delivered,
               (m.type = "EXECUTE" /\ q # None) =>
                  /\ pendingSql = None
                  /\ Target(m) \in Ids /\ statements[Target(m)] \in Entries
        PROVE  IInv' /\ GateStep
    <2>1. Core' /\ GateStep
      BY <1>1, <1>2, <1>3, <1>5, RejudgeStep DEF m
    <2>2. cur'[1] = m /\ judged'[m.id] = q
      BY <1>1, <1>2, <1>5, JudgementTyped
    <2>3. Registered'
      BY <1>4, <1>5, <2>2 DEF Registered, Target
    <2>4. AnswersTyped'
      BY <1>1, <1>5, TypesKept
    <2> QED BY <1>3, <1>5, <2>1, <2>3, <2>4, Combine
  <1>6. CASE ResumeExecute
    <2>1. pc = "wait" /\ pendingSql = None
      BY <1>6 DEF ResumeExecute
    <2>2. CASE StateError(m) /\ pc' = "read" /\ cur' = <<>> /\ UNCHANGED <<verdict, judged, response>>
      <3>1. Core' /\ GateStep
        BY <1>1, <1>2, <1>3, <2>1, <2>2, FinishStep
      <3>2. AnswersTyped'
        BY <1>1, <1>2, <2>2, ErrorTyped DEF StateError, TypeOK
      <3>3. ResponseTyped'
        BY <2>2, TypesKept
      <3>4. Registered'
        BY <1>4, <2>2 DEF Registered, Judging
      <3> QED BY <1>3, <3>1, <3>2, <3>3, <3>4, Combine
    <2>3. CASE ExecuteStatement(m) /\ UNCHANGED delivered
      <3>1. ResponseTyped'
        BY <1>2, <2>3, ExecuteJudges
      <3>2. PICK v, q : /\ JudgesCurrent(m, v, q)
                        /\ q # None => Target(m) \in Ids /\ statements[Target(m)] \in Entries
        BY <1>2, <2>3, ExecuteJudges
      <3> QED BY <1>5, <2>1, <2>3, <3>1, <3>2
    <2> QED BY <1>6, <2>2, <2>3 DEF ResumeExecute, m
  <1>7. ASSUME pc \in {"estimate", "confirm"}
        PROVE  /\ judged[m.id] \in SQL
               /\ m.type = "EXECUTE" => /\ pendingSql = None
                                        /\ Target(m) \in Ids /\ statements[Target(m)] \in Entries
    <2>1. judged[m.id] \in SQL
      BY <1>7 DEF Core, CurrentIsJudged, m
    <2>2. judged[m.id] # None
      BY <2>1, TextsAssumption
    <2> QED BY <1>7, <2>1, <2>2 DEF Registered, Judging, m
  <1>8. CASE EstimateDone
    <2>1. pc = "estimate" /\ UNCHANGED <<delivered, response>>
      BY <1>8 DEF EstimateDone
    <2>2. PICK rows \in RowCounts \cup {NoRows} :
            EvaluateAndDecide(m, judged[m.id], rows, rows = NoRows)
      BY <1>8 DEF EstimateDone, m
    <2>3. rows \in Int /\ (rows = NoRows) \in BOOLEAN
      BY ConfigAssumption DEF NoRows
    <2>4. PICK v : JudgesCurrent(m, v, judged[m.id])
      BY <1>7, <2>1, <2>2, <2>3, PolicyJudges
    <2>5. ResponseTyped'
      BY <2>1, TypesKept
    <2> QED BY <1>5, <1>7, <2>1, <2>4, <2>5
  <1>9. CASE UserDecides
    <2>1. /\ pc = "confirm" /\ pc' = "audit" /\ UNCHANGED <<delivered, response, cur, judged>>
      BY <1>9 DEF UserDecides
    <2>2. PICK v \in {"APPROVED_BY_USER", "BLOCKED_BY_USER"} :
            verdict' = [verdict EXCEPT ![m.id] = v]
      BY <1>9 DEF UserDecides, m
    <2>3. v \in Verdicts /\ Final(v)
      BY <2>2 DEF Verdicts, Final, LetThrough, Refused
    <2>4. judged' = [judged EXCEPT ![m.id] = judged[m.id]]
      BY <1>2, <2>1 DEF TaskTyped
    <2>5. JudgesCurrent(m, v, judged[m.id])
      BY <1>2, <1>7, <2>1, <2>2, <2>3, <2>4 DEF JudgesCurrent, Judge
    <2>6. ResponseTyped'
      BY <2>1, TypesKept
    <2> QED BY <1>5, <1>7, <2>1, <2>5, <2>6
  <1> QED BY <1>6, <1>8, <1>9

\* A change of an entry keeps the registry and its statements.
LEMMA EntryUpdate ==
  ASSUME RegistryTyped, NEW t \in Ids, NEW e \in Entries, NEW f,
         f = [statements EXCEPT ![t] = e]
  PROVE  /\ f \in [Ids -> Entries \cup {None}]
         /\ \A i \in Ids : statements[i] \in Entries => f[i] \in Entries
  BY DEF RegistryTyped

\* Setting the two marks of a registered statement is such a change.
LEMMA MarksUpdate ==
  ASSUME RegistryTyped, NEW t \in Ids, statements[t] \in Entries, NEW a \in BOOLEAN
  PROVE  /\ [statements EXCEPT ![t].types = a, ![t].long = FALSE] \in [Ids -> Entries \cup {None}]
         /\ \A i \in Ids : statements[i] \in Entries =>
              [statements EXCEPT ![t].types = a, ![t].long = FALSE][i] \in Entries
  <1> DEFINE e == [[statements[t] EXCEPT !.types = a] EXCEPT !.long = FALSE]
             f == [statements EXCEPT ![t].types = a, ![t].long = FALSE]
  <1>1. e \in Entries
    BY DEF Entries
  <1>2. f = [statements EXCEPT ![t] = e]
    BY DEF RegistryTyped
  <1> HIDE DEF e, f
  <1>3. f \in [Ids -> Entries \cup {None}] /\ \A i \in Ids : statements[i] \in Entries => f[i] \in Entries
    BY <1>1, <1>2, EntryUpdate
  <1> QED BY <1>3 DEF f

\* What the registry keeps of a forwarded command: no statement comes or goes.
LEMMA AfterForwardTyped ==
  ASSUME RegistryTyped, NEW m \in Message,
         (m.type = "EXECUTE" /\ judged[m.id] # None) =>
            Target(m) \in Ids /\ statements[Target(m)] \in Entries
  PROVE  /\ AfterForward(m) \in [Ids -> Entries \cup {None}]
         /\ \A i \in Ids : statements[i] \in Entries => AfterForward(m)[i] \in Entries
  <1>1. CASE m.type = "EXECUTE" /\ judged[m.id] # None
    <2> DEFINE t == Target(m)
    <2>1. t \in Ids /\ statements[t] \in Entries
      BY <1>1
    <2>2. AfterForward(m) = [statements EXCEPT ![t].types = TRUE, ![t].long = FALSE]
      BY <1>1 DEF AfterForward
    <2> HIDE DEF t
    <2> DEFINE f == [statements EXCEPT ![t].types = TRUE, ![t].long = FALSE]
    <2>3. /\ f \in [Ids -> Entries \cup {None}]
          /\ \A i \in Ids : statements[i] \in Entries => f[i] \in Entries
      BY <2>1, MarksUpdate, Zenon
    <2> QED BY <2>2, <2>3, Zenon
  <1>2. CASE ~(m.type = "EXECUTE" /\ judged[m.id] # None)
    <2>1. CASE m.type = "LONGDATA" /\ m.wf /\ Known(m.stmt)
      <3>1. m.stmt \in Ids
        BY <2>1 DEF Known, Message
      <3>2. statements[m.stmt] \in Entries
        BY <2>1, <3>1 DEF Known, RegistryTyped
      <3>3. \/ AfterForward(m) = statements
            \/ AfterForward(m) = [statements EXCEPT ![m.stmt].long = TRUE]
        BY <1>2, <2>1 DEF AfterForward
      <3> DEFINE e == [statements[m.stmt] EXCEPT !.long = TRUE]
      <3>4. e \in Entries
        BY <3>2 DEF Entries
      <3>5. \/ AfterForward(m) = statements
            \/ AfterForward(m) = [statements EXCEPT ![m.stmt] = e]
        BY <3>3
      <3> HIDE DEF e
      <3> QED BY <3>1, <3>4, <3>5, EntryUpdate DEF RegistryTyped
    <2>2. CASE ~(m.type = "LONGDATA" /\ m.wf /\ Known(m.stmt))
      <3>1. AfterForward(m) = statements
        BY <1>2, <2>2 DEF AfterForward
      <3> QED BY <3>1 DEF RegistryTyped
    <2> QED BY <2>1, <2>2
  <1> QED BY <1>1, <1>2

\* The audit event is written and the command forwarded or refused.
LEMMA AuditInv ==
  ASSUME IInv, AuditWritten
  PROVE  IInv' /\ GateStep
  <1> USE DEF IInv
  <1> DEFINE m == cur[1]
  <1>1. /\ pc = "audit" /\ pc' = "read" /\ cur' = <<>>
        /\ audited' = [audited EXCEPT ![m.id] = verdict[m.id]]
        /\ \/ /\ verdict[m.id] \in LetThrough /\ p2b' = Append(p2b, m)
              /\ statements' = AfterForward(m) /\ UNCHANGED <<delivered, response>>
           \/ /\ verdict[m.id] \in Refused /\ UNCHANGED <<p2b, statements>>
              /\ delivered' = Append(delivered, ErrorPacket(m)) /\ AfterRefusal(m)
        /\ UNCHANGED <<sent, c2p, b2p, database, lifecycle, lastId, prepFailed, txActive,
                       closing, open, verdict, judged, server>>
    BY DEF AuditWritten, Forward
  <1>2. m \in Message /\ RegistryTyped /\ AnswersTyped /\ ServerTyped
    BY <1>1, CurrentTyped DEF TypeOK
  <1>3. ServerTyped' /\ LifecycleTyped' /\ PrepareTyped' /\ UNCHANGED <<executed, bStmts>>
    BY <1>1, TypesKept DEF server
  <1>4. Core' /\ GateStep
    BY <1>1, <1>2, <1>3, FinishStep
  <1>5. (m.type = "EXECUTE" /\ judged[m.id] # None) =>
          Target(m) \in Ids /\ statements[Target(m)] \in Entries
    BY <1>1 DEF Registered, Judging
  <1>6. UNCHANGED pendingReset /\ pendingReset \in Ids \cup {None}
    BY <1>1 DEF lifecycle, TypeOK, LifecycleTyped
  <1> HIDE DEF m
  <1>7. RegistryTyped' /\ Registered'
    <2>1. /\ statements' \in [Ids -> Entries \cup {None}]
          /\ \A i \in Ids : statements[i] \in Entries => statements'[i] \in Entries
      BY <1>1, <1>2, <1>5, AfterForwardTyped DEF RegistryTyped
    <2>2. RegistryTyped'
      BY <1>1, <1>2, <2>1 DEF RegistryTyped
    <2>3. Registered'
      BY <1>1, <1>6, <2>1 DEF Registered, Judging
    <2> QED BY <2>2, <2>3
  <1>8. AnswersTyped' /\ ResponseTyped'
    <2>1. CASE UNCHANGED <<delivered, response>>
      BY <1>1, <2>1, TypesKept
    <2>2. CASE delivered' = Append(delivered, ErrorPacket(m)) /\ AfterRefusal(m)
      <3>1. ResponseTyped'
        BY <2>2, TypesKept, TrackingReset DEF AfterRefusal
      <3> QED BY <1>1, <1>2, <2>2, <3>1, ErrorTyped
    <2> QED BY <1>1, <2>1, <2>2
  <1> QED BY <1>3, <1>4, <1>7, <1>8, Combine

-----------------------------------------------------------------------------
(***************************************************************************)
(* The backend pump.                                                       *)
(***************************************************************************)
\* Copies of a value make a sequence.
LEMMA CopiesTyped ==
  ASSUME NEW S, NEW x \in S, NEW n \in Nat
  PROVE  Copies(x, n) \in Seq(S)
  <1>1. Copies(x, n) \in [1..n -> S]
    BY DEF Copies
  <1> QED BY <1>1, SeqDef

\* A packet is taken and relayed, or closes the connection.
LEMMA RelayTyped ==
  ASSUME TypeOK, Packets, NEW fits \in BOOLEAN, Relay(Head(b2p), fits)
  PROVE  AnswersTyped' /\ open' \in BOOLEAN /\ Head(b2p) \in Packet
  <1>1. b2p \in Seq(Packet) /\ delivered \in Seq(Packet)
    BY DEF TypeOK, AnswersTyped
  <1>2. b2p' \in Seq(Packet) /\ Head(b2p) \in Packet
    BY <1>1, TailFacts DEF Packets
  <1>3. delivered' \in Seq(Packet)
    <2>1. Append(delivered, Head(b2p)) \in Seq(Packet)
      BY <1>1, <1>2, AppendFacts
    <2> QED BY <1>1, <2>1 DEF Relay
  <1>4. open' \in BOOLEAN
    BY DEF Relay
  <1> QED BY <1>2, <1>3, <1>4 DEF AnswersTyped

\* The packets expected behind PREPARE_OK.
LEMMA MetadataTyped ==
  ASSUME NEW sql \in SQL
  PROVE  MetadataKinds(sql) \in Seq({"definition", "eof"})
  <1> DEFINE K == {"definition", "eof"}
             tail(n) == IF n > 0 /\ ~DeprecateEof THEN <<"eof">> ELSE <<>>
             section(n) == Copies("definition", n) \o tail(n)
  <1>1. Parameters[sql] \in Nat /\ Columns[sql] \in Nat
    BY TextsAssumption
  <1>2. ASSUME NEW n \in Nat PROVE section(n) \in Seq(K)
    <2>1. tail(n) \in Seq(K)
      <3>1. <<"eof">> \in Seq(K) /\ <<>> \in Seq(K)
        OBVIOUS
      <3> QED BY <3>1, Zenon
    <2>2. Copies("definition", n) \in Seq(K)
      BY CopiesTyped
    <2> HIDE DEF tail, K
    <2> QED BY <2>1, <2>2, ConcatType
  <1>3. MetadataKinds(sql) = section(Parameters[sql]) \o section(Columns[sql])
    BY DEF MetadataKinds
  <1> HIDE DEF section, K
  <1>4. MetadataKinds(sql) \in Seq(K)
    BY <1>1, <1>2, <1>3, ConcatType
  <1> QED BY <1>4 DEF K

\* The tracker counts the column definitions down to the end of the metadata.
LEMMA TrackTyped ==
  ASSUME ResponseTyped, NEW p \in Packet, Track(p)
  PROVE  ResponseTyped'
  <1>1. CASE BeginCommandResponse \/ FailCommandForward
    BY <1>1, TrackingReset
  <1>2. CASE UNCHANGED response
    BY <1>2 DEF ResponseTyped, response
  <1>3. CASE AwaitRows /\ UNCHANGED pendingCmd
    <2>1. pendingCmd' \in BOOLEAN
      BY <1>3 DEF ResponseTyped
    <2>2. stage' \in {"rows", "metadata_eof"} /\ columns' = 0
      BY <1>3 DEF AwaitRows
    <2> QED BY ONLY <2>1, <2>2 DEF ResponseTyped
  <1>4. CASE stage' = "metadata" /\ columns' = p.n /\ p.n > 0 /\ UNCHANGED pendingCmd
    <2>1. pendingCmd' \in BOOLEAN
      BY <1>4 DEF ResponseTyped
    <2>2. p.n \in Nat
      BY DEF Packet
    <2> QED BY ONLY <1>4, <2>1, <2>2 DEF ResponseTyped
  <1>5. CASE /\ stage = "metadata" /\ columns # 1 /\ columns' = columns - 1
             /\ UNCHANGED <<stage, pendingCmd>>
    <2>1. pendingCmd' \in BOOLEAN
      BY <1>5 DEF ResponseTyped
    <2>2. columns \in Nat /\ columns > 0
      BY <1>5 DEF ResponseTyped
    <2> QED BY ONLY <1>5, <2>1, <2>2 DEF ResponseTyped
  <1>6. CASE stage = "metadata_eof" /\ stage' = "rows" /\ UNCHANGED <<pendingCmd, columns>>
    <2>1. pendingCmd' \in BOOLEAN
      BY <1>6 DEF ResponseTyped
    <2>2. columns \in Nat /\ ~(columns > 0)
      BY <1>6 DEF ResponseTyped
    <2> QED BY ONLY <1>6, <2>1, <2>2 DEF ResponseTyped
  <1> QED BY <1>1, <1>2, <1>3, <1>4, <1>5, <1>6 DEF Track, FinishOrContinue

\* Each step of the backend pump keeps the invariant.
LEMMA BackendPumpInv ==
  ASSUME IInv, BackendPump
  PROVE  IInv' /\ GateStep
  <1> USE DEF IInv
  <1> DEFINE p == Head(b2p)
  <1>1. /\ Packets
        /\ UNCHANGED <<sent, c2p, p2b, closing, task, server>>
    BY DEF BackendPump, PingAnswered, ResetAnswered, DatabaseAnswered, PrepareFails,
           PrepareAccepted, MetadataArrives, CommandAnswered, UntrackedAnswer
  <1>2. \E fits \in BOOLEAN : Relay(p, fits)
    <2>1. CASE PingAnswered \/ ResetAnswered \/ DatabaseAnswered
      <3>1. Relay(p, p.marker \in {"ok", "err"})
        BY <2>1 DEF PingAnswered, ResetAnswered, DatabaseAnswered
      <3>2. (p.marker \in {"ok", "err"}) \in BOOLEAN
        OBVIOUS
      <3> QED BY <3>1, <3>2, Zenon
    <2>2. CASE PrepareFails \/ UntrackedAnswer
      <3>1. Relay(p, TRUE)
        BY <2>2 DEF PrepareFails, UntrackedAnswer
      <3> QED BY <3>1, Zenon
    <2>3. CASE PrepareAccepted
      <3> DEFINE fits == p.marker = "ok" /\ p.stmt # None
                         /\ (p.stmt # None => HasCapacity(p.stmt, pendingSql))
      <3>1. Relay(p, fits)
        BY <2>3 DEF PrepareAccepted
      <3>2. fits \in BOOLEAN
        OBVIOUS
      <3> QED BY <3>1, <3>2, Zenon
    <2>4. CASE MetadataArrives
      <3>1. Relay(p, Head(metadata) = "eof" => p.marker = "eof")
        BY <2>4 DEF MetadataArrives
      <3>2. (Head(metadata) = "eof" => p.marker = "eof") \in BOOLEAN
        OBVIOUS
      <3> QED BY <3>1, <3>2, Zenon
    <2>5. CASE CommandAnswered
      <3>1. Relay(p, Acceptable(p))
        BY <2>5 DEF CommandAnswered
      <3>2. Acceptable(p) \in BOOLEAN
        BY DEF Acceptable
      <3> QED BY <3>1, <3>2, Zenon
    <2> QED BY <2>1, <2>2, <2>3, <2>4, <2>5 DEF BackendPump
  <1>3. AnswersTyped' /\ open' \in BOOLEAN /\ p \in Packet
    BY <1>1, <1>2, RelayTyped
  <1>4. ServerTyped' /\ ServerTyped /\ UNCHANGED <<executed, bStmts>>
    BY <1>1, TypesKept DEF server, TypeOK
  <1>5. Core' /\ GateStep
    BY <1>1, <1>4, PumpStep
  <1>6. /\ UNCHANGED <<pc, cur, judged, closing>>
        /\ pendingReset \in Ids \cup {None}
        /\ Judging /\ cur[1].type = "EXECUTE" /\ judged[cur[1].id] # None =>
             pendingSql = None /\ Target(cur[1]) \in Ids /\ statements[Target(cur[1])] \in Entries
        /\ pendingReset # None => statements[pendingReset] \in Entries
    BY <1>1 DEF task, Registered, TypeOK, LifecycleTyped
  <1>7. StatusOf(p) \in BOOLEAN /\ p.tx \in BOOLEAN /\ txActive \in BOOLEAN
    <2>1. p.tx \in BOOLEAN
      BY <1>3 DEF Packet
    <2>2. txActive \in BOOLEAN
      BY DEF TypeOK, LifecycleTyped
    <2> QED BY <2>1, <2>2 DEF StatusOf
  <1> HIDE DEF p
  <1>8. ASSUME pendingReset' \in {None, pendingReset}, UNCHANGED <<lastId, pendingSql>>,
               \A i \in Ids : statements[i] \in Entries => statements'[i] \in Entries
        PROVE  Registered'
    BY <1>6, <1>8 DEF Registered, Judging, Target
  <1>9. CASE PingAnswered
    <2>1. /\ txActive' = StatusOf(p) /\ pendingPing' = FALSE
          /\ UNCHANGED <<database, pendingDb, pendingSql, pendingId, metadata, pendingReset,
                         response, registry>>
      BY <1>9 DEF PingAnswered, p
    <2>2. LifecycleTyped'
      BY <1>3, <1>6, <1>7, <2>1 DEF TypeOK, LifecycleTyped
    <2>3. PrepareTyped' /\ ResponseTyped' /\ RegistryTyped'
      BY <2>1, TypesKept
    <2>4. Registered'
      BY <1>8, <2>1 DEF registry
    <2> QED BY <1>3, <1>4, <1>5, <2>2, <2>3, <2>4, Combine
  <1>10. CASE ResetAnswered
    <2>1. /\ txActive' = StatusOf(p) /\ pendingReset # None /\ pendingReset' = None
          /\ statements' = IF p.marker = "ok"
                             THEN [statements EXCEPT ![pendingReset].types = FALSE,
                                                     ![pendingReset].long = FALSE]
                             ELSE statements
          /\ UNCHANGED <<database, pendingDb, pendingSql, pendingId, metadata, pendingPing,
                         response, lastId, prepFailed>>
      BY <1>10 DEF ResetAnswered, p
    <2>2. LifecycleTyped'
      BY <1>3, <1>6, <1>7, <2>1 DEF TypeOK, LifecycleTyped
    <2>3. PrepareTyped' /\ ResponseTyped'
      BY <2>1, TypesKept
    <2>4. pendingReset \in Ids /\ statements[pendingReset] \in Entries
      BY <1>6, <2>1
    <2> DEFINE f == [statements EXCEPT ![pendingReset].types = FALSE,
                                       ![pendingReset].long = FALSE]
    <2>5. /\ f \in [Ids -> Entries \cup {None}]
          /\ \A i \in Ids : statements[i] \in Entries => f[i] \in Entries
      <3>1. RegistryTyped
        BY DEF TypeOK
      <3> QED BY <2>4, <3>1, MarksUpdate, Zenon
    <2>6. statements' = f \/ statements' = statements
      BY <2>1
    <2> HIDE DEF f
    <2>7. RegistryTyped'
      BY <2>1, <2>5, <2>6 DEF TypeOK, RegistryTyped
    <2>8. Registered'
      BY <1>8, <2>1, <2>5, <2>6
    <2> QED BY <1>3, <1>4, <1>5, <2>2, <2>3, <2>7, <2>8, Combine
  <1>11. CASE DatabaseAnswered
    <2>1. /\ txActive' = StatusOf(p) /\ pendingDb # None /\ pendingDb' = None
          /\ database' = DatabaseAfter(p)
          /\ UNCHANGED <<pendingSql, pendingId, metadata, pendingPing, pendingReset,
                         response, registry>>
      BY <1>11 DEF DatabaseAnswered, p
    <2>2. database' \in Databases
      BY <2>1 DEF DatabaseAfter, TypeOK, LifecycleTyped
    <2>3. LifecycleTyped'
      BY <1>3, <1>6, <1>7, <2>1, <2>2 DEF TypeOK, LifecycleTyped
    <2>4. PrepareTyped' /\ ResponseTyped' /\ RegistryTyped'
      BY <2>1, TypesKept
    <2>5. Registered'
      BY <1>8, <2>1 DEF registry
    <2> QED BY <1>3, <1>4, <1>5, <2>3, <2>4, <2>5, Combine
  <1>12. ASSUME Preparing, UNCHANGED <<database, pendingDb, pendingPing, pendingReset, response,
                                       txActive>>,
                PrepareTyped', RegistryTyped'
         PROVE  IInv' /\ GateStep
    <2>1. pendingReset' = None /\ pendingSql # None
      BY <1>12 DEF Preparing
    <2>2. Registered'
      BY <1>6, <2>1 DEF Registered, Judging
    <2>3. LifecycleTyped'
      BY <1>3, <1>6, <1>12 DEF TypeOK, LifecycleTyped
    <2>4. ResponseTyped'
      BY <1>12, TypesKept
    <2> QED BY <1>3, <1>4, <1>5, <1>12, <2>2, <2>3, <2>4, Combine
  <1>13. /\ RegistryTyped /\ PrepareTyped
         /\ statements \in [Ids -> Entries \cup {None}] /\ lastId \in Ids \cup {None}
    BY DEF TypeOK, RegistryTyped
  <1>14. ASSUME NEW id \in Ids, FinishPrepare(id), statements' \in [Ids -> Entries \cup {None}]
         PROVE  PrepareTyped' /\ RegistryTyped'
    <2>1. PrepareTyped'
      BY <1>14 DEF FinishPrepare, PrepareTyped
    <2>2. prepFailed' \in BOOLEAN
      BY <1>14 DEF FinishPrepare
    <2>3. RegistryTyped'
      BY <1>14, <2>2 DEF FinishPrepare, RegistryTyped
    <2> QED BY <2>1, <2>3
  <1>15. CASE PrepareFails
    <2>1. PrepareTyped'
      BY <1>15 DEF PrepareFails, FailPrepare, PrepareTyped
    <2>2. statements' \in [Ids -> Entries \cup {None}]
      BY <1>13, <1>15 DEF PrepareFails
    <2>3. RegistryTyped'
      BY <1>15, <2>2 DEF PrepareFails, FailPrepare, RegistryTyped
    <2> QED BY <1>12, <1>15, <2>1, <2>3 DEF PrepareFails
  <1>16. CASE PrepareAccepted
    <2> DEFINE kinds == MetadataKinds(pendingSql)
    <2>1. /\ Preparing /\ pendingSql \in SQL
          /\ UNCHANGED <<database, pendingDb, pendingPing, pendingReset, response, txActive>>
      BY <1>13, <1>16 DEF PrepareAccepted, Preparing, PrepareTyped
    <2>2. CASE UNCHANGED <<statements, pendingSql, pendingId, metadata, lastId, prepFailed>>
      <3>1. PrepareTyped' /\ RegistryTyped'
        BY <2>2, TypesKept DEF registry
      <3> QED BY <1>12, <2>1, <3>1
    <2>3. CASE /\ p.stmt # None
               /\ statements' = [statements EXCEPT ![p.stmt] = Entry(pendingSql)]
               /\ \/ FinishPrepare(p.stmt)
                  \/ /\ kinds # <<>> /\ pendingId' = p.stmt /\ metadata' = kinds
                     /\ UNCHANGED <<pendingSql, lastId, prepFailed>>
      <3>1. p.stmt \in Ids
        BY <1>3, <2>3 DEF Packet
      <3>2. Entry(pendingSql) \in Entries
        BY <2>1 DEF Entry, Entries
      <3>3. statements' \in [Ids -> Entries \cup {None}]
        BY <1>13, <2>3, <3>1, <3>2
      <3>4. kinds \in Seq({"definition", "eof"})
        BY <2>1, MetadataTyped
      <3> HIDE DEF kinds
      <3>5. PrepareTyped' /\ RegistryTyped'
        <4>1. CASE FinishPrepare(p.stmt)
          BY <1>14, <3>1, <3>3, <4>1
        <4>2. CASE /\ kinds # <<>> /\ pendingId' = p.stmt /\ metadata' = kinds
                   /\ UNCHANGED <<pendingSql, lastId, prepFailed>>
          BY <1>13, <2>1, <3>1, <3>3, <3>4, <4>2 DEF PrepareTyped, RegistryTyped
        <4> QED BY <2>3, <4>1, <4>2
      <3> QED BY <1>12, <2>1, <3>5
    <2> QED BY <1>16, <2>2, <2>3 DEF PrepareAccepted, p
  <1>17. CASE MetadataArrives
    <2>1. /\ Preparing /\ pendingId # None /\ UNCHANGED statements
          /\ UNCHANGED <<database, pendingDb, pendingPing, pendingReset, response, txActive>>
          /\ \/ FinishPrepare(pendingId)
             \/ /\ Len(metadata) > 1 /\ metadata' = Tail(metadata)
                /\ UNCHANGED <<pendingSql, pendingId, lastId, prepFailed>>
      BY <1>17 DEF MetadataArrives
    <2>2. pendingId \in Ids
      BY <1>13, <2>1 DEF PrepareTyped
    <2>3. CASE FinishPrepare(pendingId)
      BY <1>12, <1>13, <1>14, <2>1, <2>2, <2>3
    <2>4. CASE /\ Len(metadata) > 1 /\ metadata' = Tail(metadata)
               /\ UNCHANGED <<pendingSql, pendingId, lastId, prepFailed>>
      <3>1. metadata \in Seq({"definition", "eof"})
        BY <1>13 DEF PrepareTyped
      <3>2. Tail(metadata) \in Seq({"definition", "eof"}) /\ Tail(metadata) # <<>>
        <4>1. metadata # <<>>
          BY <2>4, <3>1
        <4> DEFINE t == Tail(metadata)
        <4>2. t \in Seq({"definition", "eof"}) /\ Len(t) = Len(metadata) - 1
          BY <3>1, <4>1, TailFacts
        <4> HIDE DEF t
        <4>3. t # <<>>
          BY <2>4, <3>1, <4>2
        <4> QED BY <4>2, <4>3 DEF t
      <3>3. PrepareTyped' /\ RegistryTyped'
        BY <1>13, <2>1, <2>4, <3>2 DEF PrepareTyped, RegistryTyped
      <3> QED BY <1>12, <2>1, <3>3
    <2> QED BY <2>1, <2>3, <2>4
  <1>18. CASE CommandAnswered
    <2>1. /\ Track(p) /\ txActive' = IF CarriesStatus(p) THEN p.tx ELSE txActive
          /\ UNCHANGED <<database, lifecycle, registry>>
      BY <1>18 DEF CommandAnswered, p
    <2>2. ResponseTyped'
      BY <1>3, <2>1, TrackTyped DEF TypeOK
    <2>3. LifecycleTyped'
      BY <1>3, <1>6, <1>7, <2>1 DEF TypeOK, LifecycleTyped, lifecycle
    <2>4. PrepareTyped' /\ RegistryTyped'
      BY <2>1, TypesKept DEF lifecycle
    <2>5. Registered'
      BY <1>8, <2>1 DEF registry, lifecycle
    <2> QED BY <1>3, <1>4, <1>5, <2>2, <2>3, <2>4, <2>5, Combine
  <1>19. CASE UntrackedAnswer
    <2>1. UNCHANGED <<database, lifecycle, response, registry, txActive>>
      BY <1>19 DEF UntrackedAnswer
    <2>2. LifecycleTyped'
      BY <1>3, <1>6, <2>1 DEF TypeOK, LifecycleTyped, lifecycle
    <2>3. PrepareTyped' /\ ResponseTyped' /\ RegistryTyped'
      BY <2>1, TypesKept DEF lifecycle
    <2>4. Registered'
      BY <1>8, <2>1 DEF registry, lifecycle
    <2> QED BY <1>3, <1>4, <1>5, <2>2, <2>3, <2>4, Combine
  <1> QED BY <1>9, <1>10, <1>11, <1>15, <1>16, <1>17, <1>18, <1>19 DEF BackendPump

-----------------------------------------------------------------------------
(***************************************************************************)
(* The server.                                                             *)
(***************************************************************************)
\* A plain packet, and one packet as an answer.
LEMMA PlainTyped ==
  ASSUME NEW m \in Message, NEW marker \in {"ok", "err", "eof", "data"}, NEW tx \in BOOLEAN
  PROVE  Plain(m, marker, tx) \in Packet /\ <<Plain(m, marker, tx)>> \in Seq(Packet)
  <1>1. ErrorPacket(m) \in Packet
    BY DEF ErrorPacket, Packet, Message
  <1>2. Plain(m, marker, tx) \in Packet
    BY <1>1 DEF Plain, Packet
  <1> QED BY <1>2

\* Marking the last packet of an answer.
LEMMA AnswerTyped ==
  ASSUME TypeOK, NEW packets \in Seq(Packet), Answer(packets), UNCHANGED delivered
  PROVE  AnswersTyped'
  <1> DEFINE marked == MarkLast(packets)
  <1>1. \A i \in 1..Len(packets) : marked[i] \in Packet
    <2>1. ASSUME NEW i \in 1..Len(packets) PROVE marked[i] \in Packet
      <3>1. packets[i] \in Packet /\ (i = Len(packets)) \in BOOLEAN
        OBVIOUS
      <3>2. marked[i] = [packets[i] EXCEPT !.last = (i = Len(packets))]
        BY DEF MarkLast
      <3> QED BY <3>1, <3>2 DEF Packet
    <2> QED BY <2>1
  <1>2. DOMAIN packets = 1..Len(packets) /\ Len(packets) \in Nat
    OBVIOUS
  <1>3. marked = [i \in 1..Len(packets) |-> marked[i]]
    BY <1>2 DEF MarkLast
  <1> HIDE DEF marked
  <1>4. marked \in [1..Len(packets) -> Packet]
    BY <1>1, <1>3
  <1>5. marked \in Seq(Packet)
    BY <1>2, <1>4, SeqDef
  <1>6. b2p' \in Seq(Packet)
    BY <1>5, ConcatType DEF Answer, marked, TypeOK, AnswersTyped
  <1> QED BY <1>6 DEF TypeOK, AnswersTyped

\* One result is a sequence of packets.
LEMMA ResultTyped ==
  ASSUME NEW m \in Message, NEW sql \in SQL, NEW tx \in BOOLEAN, NEW rows \in Nat,
         NEW meta \in BOOLEAN, NEW more \in BOOLEAN
  PROVE  ResultOf(m, sql, tx, rows, meta, more) \in Seq(Packet)
  <1> DEFINE end == [Plain(m, IF Columns[sql] = 0 THEN "ok" ELSE "eof", tx) EXCEPT !.more = more]
             header == [Plain(m, "data", FALSE) EXCEPT !.n = Columns[sql], !.meta = meta]
             definitions == IF meta THEN Copies(Plain(m, "data", FALSE), Columns[sql]) ELSE <<>>
             separator == IF DeprecateEof THEN <<>> ELSE <<Plain(m, "eof", tx)>>
             row == Plain(m, IF m.type = "EXECUTE" THEN "ok" ELSE "data", FALSE)
  <1>1. Columns[sql] \in Nat
    BY TextsAssumption
  <1>2. end \in Packet /\ <<end>> \in Seq(Packet)
    <2>1. Plain(m, IF Columns[sql] = 0 THEN "ok" ELSE "eof", tx) \in Packet
      BY PlainTyped
    <2>2. end \in Packet
      BY <2>1 DEF Packet
    <2> HIDE DEF end
    <2> QED BY <2>2
  <1>3. header \in Packet /\ <<header>> \in Seq(Packet)
    <2>1. Plain(m, "data", FALSE) \in Packet
      BY PlainTyped
    <2>2. header \in Packet
      BY <1>1, <2>1 DEF Packet
    <2> HIDE DEF header
    <2> QED BY <2>2
  <1>4. definitions \in Seq(Packet)
    <2>1. Plain(m, "data", FALSE) \in Packet
      BY PlainTyped
    <2>2. Copies(Plain(m, "data", FALSE), Columns[sql]) \in Seq(Packet)
      BY <1>1, <2>1, CopiesTyped
    <2>3. <<>> \in Seq(Packet)
      OBVIOUS
    <2> QED BY <2>2, <2>3, Zenon
  <1>5. separator \in Seq(Packet)
    <2>1. <<Plain(m, "eof", tx)>> \in Seq(Packet)
      BY PlainTyped
    <2>2. <<>> \in Seq(Packet)
      OBVIOUS
    <2> QED BY <2>1, <2>2, Zenon
  <1>6. Copies(row, rows) \in Seq(Packet)
    <2>1. row \in Packet
      BY PlainTyped
    <2> HIDE DEF row
    <2> QED BY <2>1, CopiesTyped
  <1>7. ResultOf(m, sql, tx, rows, meta, more)
          = IF Columns[sql] = 0 THEN <<end>>
            ELSE <<header>> \o definitions \o separator \o Copies(row, rows) \o <<end>>
    BY DEF ResultOf
  <1> DEFINE hs == <<header>>
             es == <<end>>
             rs == Copies(row, rows)
  <1>8. hs \in Seq(Packet) /\ es \in Seq(Packet) /\ rs \in Seq(Packet)
    BY <1>2, <1>3, <1>6
  <1> HIDE DEF end, header, definitions, separator, row, hs, es, rs
  <1>9. hs \o definitions \o separator \o rs \o es \in Seq(Packet)
    <2>1. hs \o definitions \in Seq(Packet)
      BY <1>4, <1>8, ConcatType
    <2>2. hs \o definitions \o separator \in Seq(Packet)
      BY <1>5, <2>1, ConcatType
    <2>3. hs \o definitions \o separator \o rs \in Seq(Packet)
      BY <1>8, <2>2, ConcatType
    <2> QED BY <1>8, <2>3, ConcatType
  <1> QED BY <1>7, <1>8, <1>9 DEF hs, es, rs

\* So are the results of a command.
LEMMA ResultsTyped ==
  ASSUME NEW m \in Message, NEW sql \in SQL, NEW tx \in BOOLEAN,
         NEW packets \in Results(m, sql, tx)
  PROVE  packets \in Seq(Packet)
  <1> DEFINE metas == IF m.type = "EXECUTE" THEN BOOLEAN ELSE {TRUE}
             single == UNION {{ResultOf(m, sql, tx, rows, meta, FALSE) : rows \in 0..MaxRows} :
                                meta \in metas}
             first == ResultOf(m, sql, tx, 0, TRUE, TRUE)
  <1>0. \A meta \in metas : meta \in BOOLEAN
    BY Zenon
  <1>3. \/ packets \in single
        \/ packets \in {first \o s : s \in single}
    <2>1. Results(m, sql, tx) = IF Class[sql].impact_kind = "batch"
                                  THEN {first \o s : s \in single} ELSE single
      BY DEF Results
    <2> HIDE DEF single
    <2> QED BY <2>1
  <1> HIDE DEF metas
  <1>1. ASSUME NEW s \in single PROVE s \in Seq(Packet)
    <2>1. PICK rows \in 0..MaxRows, meta \in metas : s = ResultOf(m, sql, tx, rows, meta, FALSE)
      BY <1>1
    <2>2. rows \in Nat
      BY BoundsAssumption
    <2> QED BY <1>0, <2>1, <2>2, ResultTyped
  <1>2. first \in Seq(Packet)
    BY ResultTyped
  <1> HIDE DEF single, first
  <1> QED BY <1>1, <1>2, <1>3, ConcatType

\* Each step of the server keeps the invariant.
LEMMA ServerInv ==
  ASSUME IInv, Server
  PROVE  IInv' /\ GateStep
  <1> USE DEF IInv
  <1> DEFINE m == Head(p2b)
  <1>1. /\ p2b # <<>> /\ p2b' = Tail(p2b)
        /\ UNCHANGED <<sent, delivered, c2p, database, lifecycle, response, registry,
                       txActive, closing, open, task>>
    BY DEF Server, ServerRuns, ServerPrepares, ServerFails, ServerAcknowledges,
           ServerResets, ServerTakes,
           Receive
  <1>2. /\ m \in Message /\ m.id \in Ids /\ m.sql \in SQL /\ m.db \in Databases
        /\ m.stmt \in Ids \cup {LAST}
    <2>1. m \in Message
      BY <1>1, TailFacts DEF Core, StreamTyped
    <2> QED BY <2>1 DEF Message
  <1>3. /\ bStmts \in Seq(SQL \cup {None}) /\ Len(bStmts) \in Nat /\ bLast \in Ids \cup {None}
        /\ bDb \in Databases /\ bTx \in BOOLEAN /\ executed \subseteq [id : Ids, sql : SQL]
        /\ moved \in BOOLEAN /\ quiet \in BOOLEAN /\ ServerTyped
    BY DEF TypeOK, ServerTyped
  <1>4. LifecycleTyped' /\ PrepareTyped' /\ ResponseTyped' /\ RegistryTyped'
    BY <1>1, TypesKept
  <1>5. Registered'
    BY <1>1 DEF Registered, Judging, Target, lifecycle, registry, task
  <1> HIDE DEF m
  <1>6. ASSUME AnswersTyped', bStmts' \in Seq(SQL \cup {None}), Len(bStmts') <= Len(bStmts) + 1,
               bLast' \in Ids \cup {None}, bDb' \in Databases, bTx' \in BOOLEAN,
               moved' \in BOOLEAN, quiet' \in BOOLEAN, UNCHANGED executed
        PROVE  IInv' /\ GateStep
    <2>1. ServerTyped'
      BY <1>3, <1>6 DEF ServerTyped
    <2>2. Arrives
      BY <1>1, <1>6 DEF Arrives
    <2>3. Core' /\ GateStep
      BY <1>3, <2>2, ServerStep
    <2> QED BY <1>4, <1>5, <1>6, <2>1, <2>3, Combine
  <1>7. CASE ServerRuns
    <2> DEFINE sql == TextOf(m)
               tx == CASE TxEffect[sql] = "begin" -> TRUE
                       [] TxEffect[sql] = "end"   -> FALSE
                       [] TxEffect[sql] = "none"  -> bTx
    <2>1. /\ m.type \in {"QUERY", "EXECUTE"} /\ sql # None /\ bTx' \in {tx, FALSE}
          /\ moved' = (moved \/ UseDb[sql] # None) /\ quiet' \in BOOLEAN
          /\ bDb' = IF UseDb[sql] = None THEN bDb ELSE UseDb[sql]
          /\ executed' = executed \cup {[id |-> m.id, sql |-> sql]}
          /\ UNCHANGED <<bStmts, bLast>>
      BY <1>7 DEF ServerRuns, Receive, Unsaid, m
    <2>2. PICK packets \in Results(m, sql, tx) :
            \/ Answer(packets)
            \/ Len(packets) > 1 /\ Answer(SubSeq(packets, 1, Len(packets) - 1)
                                            \o <<Plain(m, "err", FALSE)>>)
      BY <1>7 DEF ServerRuns, m
    <2>3. sql \in SQL
      <3>1. ASSUME NEW id \in DOMAIN bStmts PROVE bStmts[id] \in SQL \cup {None}
        BY <1>3
      <3> QED BY <1>2, <2>1, <3>1 DEF TextOf
    <2>4. tx \in BOOLEAN
      <3>1. TxEffect[sql] \in {"begin", "end", "none"}
        BY <2>3, TextsAssumption
      <3> HIDE DEF sql
      <3> QED BY <1>3, <3>1
    <2>5. UseDb[sql] \in Databases \cup {None}
      BY <2>3, TextsAssumption
    <2> HIDE DEF sql, tx
    <2>6. packets \in Seq(Packet)
      BY <1>2, <2>3, <2>4, ResultsTyped
    <2>7. AnswersTyped'
      <3>1. CASE Answer(packets)
        BY <1>1, <2>6, <3>1, AnswerTyped
      <3>2. CASE Len(packets) > 1 /\ Answer(SubSeq(packets, 1, Len(packets) - 1)
                                               \o <<Plain(m, "err", FALSE)>>)
        <4> DEFINE front == SubSeq(packets, 1, Len(packets) - 1)
                   err == <<Plain(m, "err", FALSE)>>
        <4>1. front \in Seq(Packet)
          BY <2>6, <3>2
        <4>2. err \in Seq(Packet)
          BY <1>2, PlainTyped
        <4>3. Answer(front \o err)
          BY <3>2
        <4> HIDE DEF front, err
        <4>4. front \o err \in Seq(Packet)
          BY <4>1, <4>2, ConcatType
        <4> QED BY <1>1, <4>3, <4>4, AnswerTyped
      <3> QED BY <2>2, <3>1, <3>2
    <2>8. ServerTyped'
      <3>1. executed' \subseteq [id : Ids, sql : SQL]
        BY <1>2, <1>3, <2>1, <2>3
      <3>2. bTx' \in BOOLEAN
        BY <2>1, <2>4
      <3>3. bDb' \in Databases
        BY <1>3, <2>1, <2>5
      <3>4. moved' \in BOOLEAN /\ quiet' \in BOOLEAN
        BY <1>3, <2>1
      <3>5. bStmts' \in Seq(SQL \cup {None}) /\ bLast' \in Ids \cup {None}
        BY <1>3, <2>1
      <3> QED BY <3>1, <3>2, <3>3, <3>4, <3>5 DEF ServerTyped
    <2>9. Arrives
      <3>1. Runs(m) /\ \E q : executed' = executed \cup {[id |-> m.id, sql |-> q]}
        BY <2>1 DEF Runs
      <3>2. bStmts' \in Seq(SQL \cup {None}) /\ Len(bStmts') <= Len(bStmts) + 1
        BY <1>3, <2>1
      <3> QED BY <1>1, <3>1, <3>2 DEF Arrives, m
    <2>10. Core' /\ GateStep
      BY <1>3, <2>9, ServerStep
    <2> QED BY <1>4, <1>5, <2>7, <2>8, <2>10, Combine
  <1>8. CASE ServerPrepares
    <2> DEFINE id == Len(bStmts) + 1
               tail(n) == IF n > 0 /\ ~DeprecateEof THEN <<Plain(m, "eof", bTx)>> ELSE <<>>
               section(n) == Copies(Plain(m, "data", FALSE), n) \o tail(n)
               first == [Plain(m, "ok", FALSE) EXCEPT !.stmt = id]
    <2>1. /\ bStmts' = Append(bStmts, m.sql) /\ bLast' = id
          /\ Answer(<<first>> \o section(Parameters[m.sql]) \o section(Columns[m.sql]))
          /\ UNCHANGED <<bDb, bTx, moved, quiet, executed>>
      BY <1>8 DEF ServerPrepares, m
    <2>2. id \in Ids
      <3>1. Len(p2b) \in Nat \ {0} /\ Len(sent) \in Nat /\ Len(c2p) \in Nat /\ Len(sent) <= MaxSent
        BY <1>1 DEF Core, StreamTyped
      <3>2. Len(bStmts) + Len(p2b) <= Left /\ Len(c2p) <= Len(sent)
        BY DEF Core, ForwardedIsOlder, QueueNumbered
      <3>3. Left <= Len(sent)
        BY <3>1 DEF Left, Taken
      <3> QED BY <1>3, <3>1, <3>2, <3>3, BoundsAssumption DEF Ids, Left, Taken
    <2>3. Len(bStmts') <= Len(bStmts) + 1 /\ bStmts' \in Seq(SQL \cup {None})
      BY <1>2, <1>3, <2>1
    <2>4. AnswersTyped'
      <3>1. /\ Plain(m, "ok", FALSE) \in Packet /\ Plain(m, "data", FALSE) \in Packet
            /\ <<Plain(m, "eof", bTx)>> \in Seq(Packet) /\ <<>> \in Seq(Packet)
        <4>1. <<>> \in Seq(Packet)
          OBVIOUS
        <4> QED BY <1>2, <1>3, <4>1, PlainTyped
      <3>2. <<first>> \in Seq(Packet)
        <4>1. first \in Packet
          BY <2>2, <3>1 DEF Packet
        <4> HIDE DEF first
        <4> QED BY <4>1
      <3>3. ASSUME NEW n \in Nat PROVE section(n) \in Seq(Packet)
        <4>1. Copies(Plain(m, "data", FALSE), n) \in Seq(Packet)
          BY <3>1, CopiesTyped
        <4>2. tail(n) \in Seq(Packet)
          BY <3>1, Zenon
        <4> HIDE DEF tail
        <4> QED BY <4>1, <4>2, ConcatType
      <3>4. Parameters[m.sql] \in Nat /\ Columns[m.sql] \in Nat
        BY <1>2, TextsAssumption
      <3> DEFINE fs == <<first>>
                 ps == section(Parameters[m.sql])
                 cs == section(Columns[m.sql])
      <3>5. fs \in Seq(Packet) /\ ps \in Seq(Packet) /\ cs \in Seq(Packet) /\ Answer(fs \o ps \o cs)
        BY <2>1, <3>2, <3>3, <3>4
      <3> HIDE DEF fs, ps, cs
      <3>6. fs \o ps \o cs \in Seq(Packet)
        <4>1. fs \o ps \in Seq(Packet)
          BY <3>5, ConcatType
        <4> QED BY <3>5, <4>1, ConcatType
      <3> QED BY <1>1, <3>5, <3>6, AnswerTyped
    <2> QED BY <1>3, <1>6, <2>1, <2>2, <2>3, <2>4
  <1>9. CASE ServerFails
    <2>1. /\ Answer(<<Plain(m, "err", FALSE)>>)
          /\ bLast' = IF m.type = "PREPARE" THEN None ELSE bLast
          /\ bTx' \in {bTx, FALSE} /\ quiet' \in BOOLEAN
          /\ UNCHANGED <<bStmts, bDb, moved, executed>>
      BY <1>9 DEF ServerFails, Unsaid, m
    <2>2. <<Plain(m, "err", FALSE)>> \in Seq(Packet)
      BY <1>2, PlainTyped
    <2>3. AnswersTyped'
      BY <1>1, <2>1, <2>2, AnswerTyped
    <2>4. /\ bTx' \in BOOLEAN /\ bDb' \in Databases /\ moved' \in BOOLEAN
          /\ bLast' \in Ids \cup {None}
      BY <1>3, <2>1
    <2>5. bStmts' \in Seq(SQL \cup {None}) /\ Len(bStmts') <= Len(bStmts) + 1
      BY <1>3, <2>1
    <2> QED BY <1>6, <2>1, <2>3, <2>4, <2>5
  <1>10. CASE ServerAcknowledges
    <2>1. /\ Answer(<<Plain(m, "ok", bTx)>>)
          /\ bDb' = IF m.type = "INIT_DB" THEN m.db ELSE bDb
          /\ moved' = (moved /\ m.type # "INIT_DB") /\ quiet' = FALSE
          /\ UNCHANGED <<bStmts, bLast, bTx, executed>>
      BY <1>10 DEF ServerAcknowledges, m
    <2>2. <<Plain(m, "ok", bTx)>> \in Seq(Packet)
      BY <1>2, <1>3, PlainTyped
    <2>3. AnswersTyped'
      BY <1>1, <2>1, <2>2, AnswerTyped
    <2>4. /\ bTx' \in BOOLEAN /\ bDb' \in Databases /\ moved' \in BOOLEAN /\ quiet' \in BOOLEAN
          /\ bLast' \in Ids \cup {None}
      BY <1>2, <1>3, <2>1
    <2>5. bStmts' \in Seq(SQL \cup {None}) /\ Len(bStmts') <= Len(bStmts) + 1
      BY <1>3, <2>1
    <2> QED BY <1>6, <2>1, <2>3, <2>4, <2>5
  <1>12. CASE ServerResets
    <2>1. /\ \E tx \in BOOLEAN : Answer(<<Plain(m, "ok", tx)>>)
          /\ bDb' \in Databases /\ bTx' \in BOOLEAN /\ bLast' \in Ids \cup {None}
          /\ moved' \in BOOLEAN /\ quiet' \in BOOLEAN /\ UNCHANGED executed
          /\ bStmts' = bStmts \/ bStmts' = [i \in DOMAIN bStmts |-> None]
      BY <1>3, <1>12 DEF ServerResets, Unsaid, m
    <2>2. PICK tx \in BOOLEAN : Answer(<<Plain(m, "ok", tx)>>)
      BY <2>1
    <2>3. <<Plain(m, "ok", tx)>> \in Seq(Packet)
      BY <1>2, PlainTyped
    <2>4. AnswersTyped'
      BY <1>1, <2>2, <2>3, AnswerTyped
    <2>5. bStmts' \in Seq(SQL \cup {None}) /\ Len(bStmts') <= Len(bStmts) + 1
      <3>1. CASE bStmts' = bStmts
        BY <1>3, <3>1
      <3>2. CASE bStmts' = [i \in DOMAIN bStmts |-> None]
        <4>1. DOMAIN bStmts = 1..Len(bStmts)
          BY <1>3
        <4>2. bStmts' \in [1..Len(bStmts) -> SQL \cup {None}]
          BY <3>2, <4>1
        <4>3. bStmts' \in Seq(SQL \cup {None}) /\ Len(bStmts') = Len(bStmts)
          BY <1>3, <4>2, SeqDef
        <4> QED BY <1>3, <4>3
      <3> QED BY <2>1, <3>1, <3>2
    <2> QED BY <1>6, <2>1, <2>4, <2>5
  <1>11. CASE ServerTakes
    <2>1. UNCHANGED <<b2p, delivered, bDb, bTx, moved, quiet, executed>>
      BY <1>11 DEF ServerTakes
    <2>2. AnswersTyped'
      BY <2>1, TypesKept
    <2>3. \/ UNCHANGED <<bStmts, bLast>>
          \/ /\ m.stmt \in DOMAIN bStmts /\ bStmts' = [bStmts EXCEPT ![m.stmt] = None]
             /\ bLast' = IF bLast = m.stmt THEN None ELSE bLast
      BY <1>11 DEF ServerTakes, m
    <2>4. bStmts' \in Seq(SQL \cup {None}) /\ Len(bStmts') <= Len(bStmts) + 1
      BY <1>3, <2>3
    <2> QED BY <1>3, <1>6, <2>1, <2>2, <2>3, <2>4
  <1> QED BY <1>7, <1>8, <1>9, <1>10, <1>11, <1>12 DEF Server

-----------------------------------------------------------------------------
\* The client pump ends behind a QUIT.
LEMMA ClosingInv ==
  ASSUME IInv, ClientPumpEnds
  PROVE  IInv' /\ GateStep
  <1> USE DEF IInv
  <1>1. /\ open' = FALSE
        /\ UNCHANGED <<sent, delivered, c2p, p2b, b2p, database, lifecycle, response, registry,
                       txActive, closing, task, server>>
    BY DEF ClientPumpEnds
  <1>2. LifecycleTyped'
    BY <1>1 DEF TypeOK, LifecycleTyped, lifecycle
  <1>3. AnswersTyped' /\ PrepareTyped' /\ ResponseTyped' /\ RegistryTyped' /\ ServerTyped'
    BY <1>1, TypesKept DEF lifecycle
  <1>4. Core' /\ GateStep
    BY <1>1, PumpStep DEF server, TypeOK
  <1>5. Registered'
    BY <1>1 DEF Registered, Judging, Target, lifecycle, registry, task
  <1> QED BY <1>2, <1>3, <1>4, <1>5, Combine

\* Every step of a session keeps the invariant.
LEMMA NextInv == IInv /\ [Next]_vars => IInv' /\ (UNCHANGED vars \/ GateStep)
  <1> SUFFICES ASSUME IInv, [Next]_vars PROVE IInv' /\ (UNCHANGED vars \/ GateStep)
    OBVIOUS
  <1>1. CASE \E r \in Requests : ClientSend(r)
    BY <1>1, ClientSendInv
  <1>2. CASE ClientPump
    BY <1>2, PassingInv, JudgingInv, ResumingInv, AuditInv, ClosingInv DEF ClientPump
  <1>3. CASE BackendPump
    BY <1>3, BackendPumpInv
  <1>4. CASE Server
    BY <1>4, ServerInv
  <1>5. CASE UNCHANGED vars
    <2>1. UNCHANGED <<sent, delivered, c2p, p2b, b2p, database, lifecycle, response, registry,
                      txActive, closing, open, task, server>>
      BY <1>5 DEF vars
    <2>2. ServerTyped /\ ServerTyped' /\ UNCHANGED <<executed, bStmts>>
      BY <2>1, TypesKept DEF IInv, TypeOK, server
    <2>3. Core' /\ GateStep
      BY <2>1, <2>2, PumpStep DEF IInv
    <2>4. Registered'
      BY <2>1 DEF IInv, Registered, Judging, Target, lifecycle, registry, task
    <2>5. AnswersTyped' /\ LifecycleTyped' /\ PrepareTyped' /\ ResponseTyped' /\ RegistryTyped'
      BY <2>1, TypesKept DEF IInv
    <2> QED BY <2>2, <2>3, <2>4, <2>5, Combine
  <1> QED BY <1>1, <1>2, <1>3, <1>4, <1>5 DEF Next

\* A step of a session is a step of the gate, or none.
LEMMA GateNext ==
  ASSUME IInv, IInv', UNCHANGED vars \/ GateStep
  PROVE  [Gate!Next]_(Gate!vars)
  <1> USE DEF IInv
  <1> DEFINE ran == {e.id : e \in executed}
  <1>1. Left \in Int
    BY DEF Core, StreamTyped, Left, Taken
  <1>2. p2b \in Seq(Message)
    BY DEF Core, StreamTyped
  <1>3. ASSUME UNCHANGED <<verdict, audited>>
        PROVE  \A id \in Ids : DecisionOf(id)' = DecisionOf(id)
    BY <1>3 DEF DecisionOf, Cleared
  <1>4. ASSUME OlderKept, NEW id \in Ids, id <= Left PROVE DecisionOf(id)' = DecisionOf(id)
    BY <1>4 DEF OlderKept, DecisionOf, Cleared
  <1>5. ASSUME OlderKept, NEW id \in Ids, id > Left' PROVE DecisionOf(id)' = DecisionOf(id)
    <2>1. DecisionOf(id) = "open"
      BY <1>5, UndecidedIsOpen, BoundsAssumption DEF Core, OlderKept, Ids
    <2>2. DecisionOf(id)' = "open"
      <3>1. audited'[id] = "NONE"
        BY <1>5 DEF Core, Undecided
      <3> QED BY <3>1 DEF DecisionOf, Cleared, LetThrough, Refused
    <2> QED BY <2>1, <2>2
  <1>6. CASE UNCHANGED vars
    <2>1. UNCHANGED <<p2b, executed, verdict, judged, audited, sent, c2p, pc>>
      BY <1>6 DEF vars, task, server
    <2>2. UNCHANGED <<Left, p2b, executed>>
      BY <2>1 DEF Left, Taken
    <2> QED BY <1>3, <2>1, <2>2 DEF Gate!vars
  <1>7. CASE Holds
    <2>1. \A id \in Ids : DecisionOf(id)' = DecisionOf(id)
      BY <1>1, <1>4, <1>5, <1>7, BoundsAssumption DEF Holds, Ids
    <2>2. UNCHANGED <<Left, p2b, executed>>
      BY <1>7 DEF Holds
    <2> QED BY <2>1, <2>2 DEF Gate!vars
  <1>8. CASE Leaves
    <2> DEFINE d == DecisionOf(Left)'
    <2>1. OlderKept /\ Left + 1 \in Ids /\ Left' = Left + 1 /\ UNCHANGED executed
      BY <1>8 DEF Leaves
    <2>2. [id \in Ids |-> DecisionOf(id)]' = [[id \in Ids |-> DecisionOf(id)] EXCEPT ![Left + 1] = d]
      <3>1. \A id \in Ids : id # Left + 1 => DecisionOf(id)' = DecisionOf(id)
        BY <1>1, <1>4, <1>5, <2>1, BoundsAssumption DEF Ids
      <3>2. \A id \in Ids : id = Left + 1 => DecisionOf(id)' = d
        BY <2>1
      <3> QED BY <3>1, <3>2
    <2>3. d \in {"pass", "refuse", "open"}
      BY DEF DecisionOf
    <2>4. d = "open" => [id \in Ids |-> DecisionOf(id)]' = [id \in Ids |-> DecisionOf(id)]
      <3>1. DecisionOf(Left + 1) = "open"
        BY <1>1, <2>1, UndecidedIsOpen DEF Core
      <3> QED BY <2>1, <2>2, <3>1
    <2>5. CASE \E m \in Message : /\ m.id = Left + 1 /\ p2b' = Append(p2b, m)
                                  /\ Runs(m) => d = "pass"
                                  /\ d # "refuse"
      <3>1. PICK m \in Message : m.id = Left + 1 /\ p2b' = Append(p2b, m)
        BY <2>5
      <3>2. IdsOf(p2b)' = Append(IdsOf(p2b), Left + 1)
        <4>1. IdsOf(Append(p2b, m)) = Append(IdsOf(p2b), m.id)
          BY <1>2, IdsOfAppend
        <4> QED BY <3>1, <4>1 DEF IdsOf
      <3>3. Gate!Deal /\ Gate!SendOn /\ UNCHANGED ran
        BY <2>1, <3>2 DEF Gate!Deal, Gate!SendOn, IdsOf
      <3>4. CASE d = "pass"
        BY <2>2, <3>3, <3>4 DEF Gate!Next, Gate!Pass, Gate!Decide
      <3>5. CASE d = "open"
        BY <2>4, <3>3, <3>5 DEF Gate!Next, Gate!SendUndecided
      <3> QED BY <2>3, <2>5, <3>4, <3>5
    <2>6. CASE UNCHANGED p2b /\ d # "pass"
      <3>1. Gate!Deal /\ UNCHANGED <<p2b, executed>>
        BY <2>1, <2>6 DEF Gate!Deal
      <3>2. CASE d = "refuse"
        BY <2>2, <3>1, <3>2 DEF Gate!Next, Gate!Refuse, Gate!Decide
      <3>3. CASE d = "open"
        BY <2>4, <3>1, <3>3 DEF Gate!Next, Gate!Discard
      <3> QED BY <2>3, <2>6, <3>2, <3>3
    <2> QED BY <1>8, <2>5, <2>6 DEF Leaves
  <1>9. CASE Arrives
    <2>1. /\ p2b # <<>> /\ p2b' = Tail(p2b)
          /\ UNCHANGED <<sent, c2p, pc, verdict, judged, audited>>
      BY <1>9 DEF Arrives, task
    <2>2. /\ IdsOf(p2b)' = Tail(IdsOf(p2b)) /\ IdsOf(p2b) # <<>>
          /\ Head(IdsOf(p2b)) = Head(p2b).id
      <3>1. IdsOf(Tail(p2b)) = Tail(IdsOf(p2b))
        BY <1>2, <2>1, IdsOfTail
      <3> QED BY <1>2, <2>1, <3>1, IdsOfTail DEF IdsOf
    <2>3. Left' = Left /\ [id \in Ids |-> DecisionOf(id)]' = [id \in Ids |-> DecisionOf(id)]
      BY <1>3, <2>1 DEF Left, Taken
    <2>4. \/ ran' = ran
          \/ Head(p2b).id \in Cleared /\ ran' = ran \cup {Head(p2b).id}
      <3>1. CASE UNCHANGED executed
        BY <3>1
      <3>2. ASSUME Runs(Head(p2b)), NEW q, executed' = executed \cup {[id |-> Head(p2b).id, sql |-> q]}
            PROVE  Head(p2b).id \in Cleared /\ ran' = ran \cup {Head(p2b).id}
        <4>1. Head(p2b) = p2b[1] /\ 1 \in 1..Len(p2b)
          BY <1>2, <2>1, TailFacts
        <4>2. Head(p2b).id \in Cleared
          BY <3>2, <4>1 DEF Core, OnlyClearedReachServer
        <4>3. ran' = ran \cup {Head(p2b).id}
          <5> DEFINE n == [id |-> Head(p2b).id, sql |-> q]
          <5>1. n.id = Head(p2b).id
            OBVIOUS
          <5> HIDE DEF n
          <5> QED BY <3>2, <5>1 DEF n
        <4> QED BY <4>2, <4>3
      <3> QED BY <1>9, <3>1, <3>2 DEF Arrives
    <2>5. Head(p2b).id \in Cleared => [id \in Ids |-> DecisionOf(id)][Head(p2b).id] = "pass"
      BY DEF DecisionOf, Cleared
    <2> HIDE DEF ran
    <2>6. Gate!Serve
      BY <2>2, <2>3, <2>4, <2>5 DEF Gate!Serve, IdsOf, ran
    <2> QED BY <2>6 DEF Gate!Next
  <1> QED BY <1>6, <1>7, <1>8, <1>9 DEF GateStep

\* The invariant holds in every behaviour of a session.
LEMMA Invariance == Spec => []IInv
  <1>1. Init => IInv
    BY InitInv
  <1>2. IInv /\ [Next]_vars => IInv'
    BY NextInv
  <1> QED BY <1>1, <1>2, PTL DEF Spec

\* The queues, the session state, the registry, the response tracker and the
\* server's state keep their types whatever the client sends and however the
\* pumps interleave: no answer or audit write finds its statement gone, and
\* the tracker's column count is positive exactly inside the metadata.
THEOREM SessionTyped == Spec => []TypeOK
  <1>1. IInv => TypeOK
    BY DEF IInv
  <1> QED BY <1>1, Invariance, PTL

\* No QUERY or EXECUTE reaches the server, for any client and any server,
\* before its own judgement let it through and was written to the audit log;
\* what cannot be inspected passes in permissive mode only.
THEOREM SessionGate == Spec => []OnlyClearedReachServer
  <1>1. IInv => OnlyClearedReachServer
    BY DEF IInv, Core
  <1> QED BY <1>1, Invariance, PTL

\* A session implements the gate, for any client, any server and any
\* classification and policy: every command is dealt with once and in order,
\* and the server runs only what was let through, in that order.
THEOREM SessionImplementsGate == Spec => ImplementsGate
  <1>1. Init => Gate!Init
    <2> SUFFICES ASSUME Init PROVE Gate!Init
      OBVIOUS
    <2>1. Left = 0
      BY DEF Init, Left, Taken
    <2>2. \A id \in Ids : DecisionOf(id) = "open"
      BY DEF Init, DecisionOf, Cleared, LetThrough, Refused
    <2>3. [k \in 1..Len(p2b) |-> p2b[k].id] = <<>>
      BY DEF Init
    <2>4. {e.id : e \in executed} = {}
      BY DEF Init
    <2> QED BY <2>1, <2>2, <2>3, <2>4 DEF Gate!Init
  <1>2. IInv /\ IInv' /\ [Next]_vars => [Gate!Next]_(Gate!vars)
    BY NextInv, GateNext
  <1> QED BY <1>1, <1>2, Invariance, PTL DEF Spec, ImplementsGate, Gate!Spec

-----------------------------------------------------------------------------
(***************************************************************************)
(* How the tracker reads an answer.  A place in an answer is the stage with *)
(* the number of column definitions to come.                               *)
(***************************************************************************)
Start == <<"initial", 0>>
Rows  == <<IF DeprecateEof THEN "rows" ELSE "metadata_eof", 0>>

\* The tracker goes from place a to place b at a packet, and the answer goes on.
Goes(a, p, b) ==
  \/ a[1] = "initial" /\ p.marker = "ok" /\ p.more /\ b = Start
  \/ a[1] = "initial" /\ p.marker = "data" /\ p.n > 0 /\ p.meta /\ b = <<"metadata", p.n>>
  \/ a[1] = "initial" /\ p.marker = "data" /\ p.n > 0 /\ ~p.meta /\ b = Rows
  \/ a[1] = "metadata" /\ p.marker # "err" /\ a[2] = 1 /\ b = Rows
  \/ a[1] = "metadata" /\ p.marker # "err" /\ a[2] # 1 /\ b = <<"metadata", a[2] - 1>>
  \/ a[1] = "metadata_eof" /\ p.marker = "eof" /\ b = <<"rows", a[2]>>
  \/ a[1] = "rows" /\ p.marker = "eof" /\ p.more /\ b = Start
  \/ a[1] = "rows" /\ p.marker \in {"ok", "data"} /\ b = a

\* The tracker takes the packet for the end of the answer.
Ends(a, p) ==
  \/ p.marker = "err"
  \/ a[1] = "initial" /\ p.marker = "ok" /\ ~p.more
  \/ a[1] = "rows" /\ p.marker = "eof" /\ ~p.more

\* Some packets take the tracker from place a to place b.
Walks(a, q, b) ==
  \E tr : /\ tr[1] = a /\ tr[Len(q) + 1] = b
          /\ \A i \in 1..Len(q) : Goes(tr[i], q[i], tr[i + 1])

\* The tracker takes exactly the last packet for the end of the answer.
Parses(a, q) ==
  /\ q # <<>>
  /\ \E tr : /\ tr[1] = a
             /\ \A i \in 1..Len(q) - 1 : Goes(tr[i], q[i], tr[i + 1])
             /\ Ends(tr[Len(q)], q[Len(q)])

\* No packets leave the tracker where it is.
LEMMA WalkNone ==
  ASSUME NEW a
  PROVE  Walks(a, <<>>, a)
<1>1. PICK q : q = <<>>
  OBVIOUS
<1>2. Len(q) = 0
  BY <1>1
<1> DEFINE tr == [i \in 1..1 |-> a]
<1>3. tr[1] = a /\ tr[Len(q) + 1] = a /\ \A i \in 1..Len(q) : Goes(tr[i], q[i], tr[i + 1])
  BY <1>2
<1> HIDE DEF tr
<1> QED BY <1>1, <1>3 DEF Walks

\* One packet is a walk of one step.
LEMMA WalkOne ==
  ASSUME NEW a, NEW b, NEW p, Goes(a, p, b)
  PROVE  Walks(a, <<p>>, b)
<1>1. PICK q : q = <<p>>
  OBVIOUS
<1>2. Len(q) = 1 /\ q[1] = p
  BY <1>1
<1> DEFINE tr == [i \in 1..2 |-> IF i = 1 THEN a ELSE b]
<1>3. tr[1] = a /\ tr[2] = b
  OBVIOUS
<1> HIDE DEF tr
<1>4. tr[Len(q) + 1] = b /\ \A i \in 1..Len(q) : Goes(tr[i], q[i], tr[i + 1])
  <2>1. Len(q) + 1 = 2 /\ \A i \in 1..Len(q) : i = 1 /\ i + 1 = 2
    BY <1>2
  <2> QED BY <1>2, <1>3, <2>1
<1> QED BY <1>1, <1>3, <1>4 DEF Walks

\* One walk behind another.
LEMMA WalkConcat ==
  ASSUME NEW q \in Seq(Packet), NEW r \in Seq(Packet), NEW a, NEW b, NEW c,
         Walks(a, q, b), Walks(b, r, c)
  PROVE  Walks(a, q \o r, c)
<1>1. PICK s : s[1] = a /\ s[Len(q) + 1] = b /\ \A i \in 1..Len(q) : Goes(s[i], q[i], s[i + 1])
  BY DEF Walks
<1>2. PICK t : t[1] = b /\ t[Len(r) + 1] = c /\ \A i \in 1..Len(r) : Goes(t[i], r[i], t[i + 1])
  BY DEF Walks
<1> DEFINE w == q \o r
           n == Len(q)
           tr == [i \in 1..(Len(q) + Len(r)) + 1 |-> IF i <= n THEN s[i] ELSE t[i - n]]
<1>3. /\ w \in Seq(Packet) /\ n \in Nat /\ Len(r) \in Nat /\ Len(w) = n + Len(r)
      /\ \A i \in 1..n : w[i] = q[i]
      /\ \A i \in n + 1..n + Len(r) : w[i] = r[i - n]
  BY ConcatFacts
<1> HIDE DEF w
<1>4. \A i \in 1..(n + Len(r)) + 1 : tr[i] = IF i <= n THEN s[i] ELSE t[i - n]
  OBVIOUS
<1> HIDE DEF tr, n
<1>5. tr[1] = a
  <2>1. CASE n = 0
    <3>1. tr[1] = t[1]
      BY <1>3, <1>4, <2>1
    <3> QED BY <1>1, <1>2, <2>1, <3>1 DEF n
  <2>2. CASE n # 0
    BY <1>1, <1>3, <1>4, <2>2
  <2> QED BY <2>1, <2>2
<1>6. tr[Len(w) + 1] = c
  <2>1. Len(w) + 1 \in 1..(n + Len(r)) + 1 /\ ~(Len(w) + 1 <= n) /\ (Len(w) + 1) - n = Len(r) + 1
    BY <1>3
  <2> QED BY <1>2, <1>4, <2>1
<1>7. ASSUME NEW i \in 1..Len(w) PROVE Goes(tr[i], w[i], tr[i + 1])
  <2>0. i \in 1..(n + Len(r)) + 1 /\ i + 1 \in 1..(n + Len(r)) + 1
    BY <1>3
  <2>1. CASE i < n
    <3>1. i \in 1..n /\ i <= n /\ i + 1 <= n
      BY <1>3, <2>1
    <3>2. tr[i] = s[i] /\ tr[i + 1] = s[i + 1] /\ w[i] = q[i]
      BY <1>3, <1>4, <2>0, <3>1
    <3> QED BY <1>1, <3>1, <3>2 DEF n
  <2>2. CASE i = n
    <3>1. i \in 1..n /\ i <= n /\ ~(i + 1 <= n) /\ (i + 1) - n = 1
      BY <1>3, <2>2
    <3>2. tr[i] = s[i] /\ tr[i + 1] = t[1] /\ w[i] = q[i]
      BY <1>3, <1>4, <2>0, <3>1
    <3>3. Goes(s[i], q[i], s[i + 1]) /\ s[i + 1] = b /\ t[1] = b
      BY <1>1, <1>2, <2>2, <3>1 DEF n
    <3> QED BY <3>2, <3>3
  <2>3. CASE i > n
    <3>1. i \in n + 1..n + Len(r) /\ ~(i <= n) /\ ~(i + 1 <= n) /\ (i + 1) - n = (i - n) + 1
          /\ i - n \in 1..Len(r)
      BY <1>3, <2>3
    <3>2. tr[i] = t[i - n] /\ tr[i + 1] = t[(i - n) + 1] /\ w[i] = r[i - n]
      BY <1>3, <1>4, <2>0, <3>1
    <3> QED BY <1>2, <3>1, <3>2
  <2> QED BY <1>3, <2>1, <2>2, <2>3
<1>8. Walks(a, w, c)
  BY <1>5, <1>6, <1>7 DEF Walks
<1> QED BY <1>8 DEF w

\* A walk and a last packet.
LEMMA WalkEnds ==
  ASSUME NEW q \in Seq(Packet), NEW p \in Packet, NEW a, NEW b, Walks(a, q, b), Ends(b, p)
  PROVE  Parses(a, q \o <<p>>)
<1>1. PICK tr : tr[1] = a /\ tr[Len(q) + 1] = b /\ \A i \in 1..Len(q) : Goes(tr[i], q[i], tr[i + 1])
  BY DEF Walks
<1> DEFINE w == q \o <<p>>
<1>2. /\ w \in Seq(Packet) /\ Len(q) \in Nat /\ Len(w) = Len(q) + 1
      /\ \A i \in 1..Len(q) : w[i] = q[i]
      /\ w[Len(q) + 1] = p
  OBVIOUS
<1> HIDE DEF w
<1>3. \A i \in 1..Len(w) - 1 : Goes(tr[i], w[i], tr[i + 1])
  BY <1>1, <1>2
<1>4. w # <<>> /\ Ends(tr[Len(w)], w[Len(w)])
  BY <1>1, <1>2
<1>5. Parses(a, w)
  BY <1>1, <1>3, <1>4 DEF Parses
<1> QED BY <1>5 DEF w

\* The first packet of an answer is its end, or the rest is read from the
\* place the packet leads to.
LEMMA ParseHead ==
  ASSUME NEW q \in Seq(Packet), NEW a, Parses(a, q)
  PROVE  \/ Len(q) = 1 /\ Ends(a, q[1])
         \/ Len(q) > 1 /\ \E b : Goes(a, q[1], b) /\ Parses(b, Tail(q))
<1>1. PICK tr : /\ tr[1] = a
                /\ \A i \in 1..Len(q) - 1 : Goes(tr[i], q[i], tr[i + 1])
                /\ Ends(tr[Len(q)], q[Len(q)])
  BY DEF Parses
<1>2. q # <<>> /\ Len(q) \in Nat \ {0}
  BY TailFacts DEF Parses
<1>3. CASE Len(q) = 1
  BY <1>1, <1>3
<1>4. CASE Len(q) > 1
  <2> DEFINE t == Tail(q)
             s == [i \in 1..Len(q) - 1 |-> tr[i + 1]]
  <2>1. t \in Seq(Packet) /\ Len(t) = Len(q) - 1 /\ \A i \in 1..Len(q) - 1 : t[i] = q[i + 1]
    BY <1>2, TailFacts
  <2>2. \A i \in 1..Len(q) - 1 : s[i] = tr[i + 1]
    OBVIOUS
  <2> HIDE DEF t, s
  <2>3. s[1] = tr[2] /\ 1 \in 1..Len(q) - 1
    BY <1>2, <1>4, <2>2
  <2>4. Goes(a, q[1], tr[2])
    <3>1. 1 + 1 = 2
      OBVIOUS
    <3> QED BY <1>1, <2>3, <3>1
  <2>5. ASSUME NEW i \in 1..Len(t) - 1 PROVE Goes(s[i], t[i], s[i + 1])
    <3>1. i \in 1..Len(q) - 1 /\ i + 1 \in 1..Len(q) - 1
      BY <1>2, <2>1
    <3> QED BY <1>1, <2>1, <2>2, <3>1
  <2>6. Ends(s[Len(t)], t[Len(t)]) /\ t # <<>>
    <3>1. Len(t) \in 1..Len(q) - 1 /\ Len(t) + 1 = Len(q)
      BY <1>2, <1>4, <2>1
    <3>2. s[Len(t)] = tr[Len(q)] /\ t[Len(t)] = q[Len(q)]
      BY <2>1, <2>2, <3>1
    <3>3. t # <<>>
      BY <2>1, <3>1
    <3> QED BY <1>1, <3>2, <3>3
  <2>7. Parses(tr[2], t)
    BY <2>3, <2>5, <2>6 DEF Parses
  <2> QED BY <1>4, <2>4, <2>7 DEF t
<1>5. Len(q) = 1 \/ Len(q) > 1
  <2>1. PICK n : n = Len(q)
    OBVIOUS
  <2>2. n \in Nat \ {0}
    BY <1>2, <2>1
  <2>3. n = 1 \/ n > 1
    BY ONLY <2>2
  <2> QED BY <2>1, <2>3
<1> QED BY <1>3, <1>4, <1>5

\* Which packet is marked as the last one does not matter to the tracker.
LEMMA ParseMarked ==
  ASSUME NEW q \in Seq(Packet), NEW a, Parses(a, q)
  PROVE  /\ MarkLast(q) \in Seq(Packet) /\ Len(MarkLast(q)) = Len(q)
         /\ Parses(a, MarkLast(q))
<1>1. PICK tr : /\ tr[1] = a
                /\ \A i \in 1..Len(q) - 1 : Goes(tr[i], q[i], tr[i + 1])
                /\ Ends(tr[Len(q)], q[Len(q)])
  BY DEF Parses
<1>2. q # <<>> /\ Len(q) \in Nat \ {0} /\ DOMAIN q = 1..Len(q)
  BY TailFacts DEF Parses
<1> DEFINE w == MarkLast(q)
<1>3. ASSUME NEW i \in 1..Len(q)
      PROVE  /\ w[i] \in Packet
             /\ w[i].marker = q[i].marker /\ w[i].n = q[i].n /\ w[i].meta = q[i].meta /\ w[i].more = q[i].more
  <2>1. q[i] \in Packet /\ w[i] = [q[i] EXCEPT !.last = (i = Len(q))] /\ (i = Len(q)) \in BOOLEAN
    BY <1>2 DEF MarkLast
  <2> QED BY <2>1 DEF Packet
<1>4. w = [i \in 1..Len(q) |-> w[i]]
  BY <1>2 DEF MarkLast
<1> HIDE DEF w
<1>5. w \in Seq(Packet) /\ Len(w) = Len(q)
  <2>1. w \in [1..Len(q) -> Packet]
    BY <1>3, <1>4
  <2> QED BY <1>2, <2>1, SeqDef
<1>6. ASSUME NEW i \in 1..Len(w) - 1 PROVE Goes(tr[i], w[i], tr[i + 1])
  <2>1. i \in 1..Len(q) /\ i \in 1..Len(q) - 1
    BY <1>2, <1>5
  <2>2. Goes(tr[i], q[i], tr[i + 1])
    BY <1>1, <2>1
  <2>3. /\ w[i].marker = q[i].marker /\ w[i].n = q[i].n /\ w[i].meta = q[i].meta /\ w[i].more = q[i].more
    BY <1>3, <2>1
  <2> QED BY ONLY <2>2, <2>3, Zenon DEF Goes
<1>7. Ends(tr[Len(w)], w[Len(w)]) /\ w # <<>>
  <2>1. Len(q) \in 1..Len(q)
    BY <1>2
  <2>2. w[Len(q)].marker = q[Len(q)].marker /\ w[Len(q)].more = q[Len(q)].more
    BY <1>3, <2>1
  <2>3. Ends(tr[Len(q)], w[Len(q)])
    BY ONLY <1>1, <2>2, Zenon DEF Ends
  <2> QED BY <1>2, <1>5, <2>3
<1>8. Parses(a, w)
  BY <1>1, <1>6, <1>7 DEF Parses
<1> QED BY <1>5, <1>8 DEF w

\* The elements of a sequence of copies.
LEMMA CopiesFacts ==
  ASSUME NEW x, NEW n \in Nat
  PROVE  Len(Copies(x, n)) = n /\ \A i \in 1..n : Copies(x, n)[i] = x
  BY DEF Copies

\* The rows of a result set.
LEMMA WalkRows ==
  ASSUME NEW p, NEW a, NEW n \in Nat, Goes(a, p, a)
  PROVE  Walks(a, Copies(p, n), a)
<1> DEFINE q == Copies(p, n)
           tr == [i \in 1..n + 1 |-> a]
<1>1. Len(q) = n /\ \A i \in 1..n : q[i] = p
  BY DEF Copies
<1>2. tr[1] = a /\ tr[n + 1] = a /\ \A i \in 1..n : tr[i] = a /\ tr[i + 1] = a
  OBVIOUS
<1> HIDE DEF q, tr
<1>3. Walks(a, q, a)
  BY <1>1, <1>2 DEF Walks
<1> QED BY <1>3 DEF q

\* The column definitions.
LEMMA WalkDefinitions ==
  ASSUME NEW p, NEW n \in Nat \ {0}, p.marker = "data"
  PROVE  Walks(<<"metadata", n>>, Copies(p, n), Rows)
<1> DEFINE q == Copies(p, n)
           tr == [i \in 1..n + 1 |-> IF i = n + 1 THEN Rows ELSE <<"metadata", (n + 1) - i>>]
<1>1. Len(q) = n /\ \A i \in 1..n : q[i] = p
  BY DEF Copies
<1>2. tr[n + 1] = Rows /\ \A i \in 1..n : tr[i] = <<"metadata", (n + 1) - i>>
  OBVIOUS
<1> HIDE DEF q, tr
<1>3. tr[1] = <<"metadata", n>> /\ tr[n + 1] = Rows
  <2>1. 1 \in 1..n /\ (n + 1) - 1 = n
    OBVIOUS
  <2> QED BY <1>2, <2>1
<1>4. ASSUME NEW i \in 1..n PROVE Goes(tr[i], q[i], tr[i + 1])
  <2>1. tr[i] = <<"metadata", (n + 1) - i>>
    BY <1>2
  <2>a. PICK a : a = tr[i]
    OBVIOUS
  <2>2. a[1] = "metadata" /\ a[2] = (n + 1) - i /\ q[i].marker # "err"
    BY <1>1, <2>1, <2>a
  <2>3. CASE i = n
    <3>1. tr[i + 1] = Rows /\ a[2] = 1
      BY <1>2, <2>2, <2>3
    <3> QED BY <2>2, <2>a, <3>1 DEF Goes
  <2>4. CASE i # n
    <3>1. tr[i + 1] = <<"metadata", (n + 1) - (i + 1)>>
      BY <1>2, <2>4
    <3>2. a[2] # 1 /\ (n + 1) - (i + 1) = a[2] - 1
      BY <2>2, <2>4
    <3> QED BY <2>2, <2>a, <3>1, <3>2 DEF Goes
  <2> QED BY <2>3, <2>4
<1>5. Walks(<<"metadata", n>>, q, Rows)
  BY <1>1, <1>3, <1>4 DEF Walks
<1> QED BY <1>5 DEF q

\* The fields of a plain packet.
LEMMA PlainFields ==
  ASSUME NEW m \in Message, NEW marker \in {"ok", "err", "eof", "data"}, NEW tx \in BOOLEAN
  PROVE  /\ Plain(m, marker, tx) \in Packet
         /\ Plain(m, marker, tx).marker = marker /\ Plain(m, marker, tx).more = FALSE
         /\ Plain(m, marker, tx).id = m.id
  BY PlainTyped DEF Plain, ErrorPacket

\* The tracker reads one result of a command up to its last packet, which
\* announces another result or ends the answer.
Reads(q, m, more) ==
  \E w \in Seq(Packet), end \in Packet : \E b :
    /\ q = w \o <<end>> /\ Walks(Start, w, b)
    /\ (more => Goes(b, end, Start)) /\ (~more => Ends(b, end))
    /\ \A i \in 1..Len(w) : w[i].id = m.id
    /\ end.id = m.id

\* So it reads what ResultOf makes.
LEMMA ResultWalks ==
  ASSUME NEW m \in Message, NEW sql \in SQL, NEW tx \in BOOLEAN, NEW rows \in Nat,
         NEW meta \in BOOLEAN, NEW more \in BOOLEAN
  PROVE  Reads(ResultOf(m, sql, tx, rows, meta, more), m, more)
  <1> DEFINE end == [Plain(m, IF Columns[sql] = 0 THEN "ok" ELSE "eof", tx) EXCEPT !.more = more]
             header == [Plain(m, "data", FALSE) EXCEPT !.n = Columns[sql], !.meta = meta]
             definitions == IF meta THEN Copies(Plain(m, "data", FALSE), Columns[sql]) ELSE <<>>
             separator == IF DeprecateEof THEN <<>> ELSE <<Plain(m, "eof", tx)>>
             row == Plain(m, IF m.type = "EXECUTE" THEN "ok" ELSE "data", FALSE)
             result == ResultOf(m, sql, tx, rows, meta, more)
             Own(q) == \A i \in 1..Len(q) : q[i].id = m.id
             IsResult(w, e, b) ==
               /\ result = w \o <<e>> /\ Walks(Start, w, b)
               /\ (more => Goes(b, e, Start)) /\ (~more => Ends(b, e)) /\ Own(w) /\ e.id = m.id
  <1>0. Columns[sql] \in Nat
    BY TextsAssumption
  <1>1. result = IF Columns[sql] = 0 THEN <<end>>
                 ELSE <<header>> \o definitions \o separator \o Copies(row, rows) \o <<end>>
    BY DEF ResultOf
  <1>2. end \in Packet /\ end.marker = (IF Columns[sql] = 0 THEN "ok" ELSE "eof") /\ end.more = more /\ end.id = m.id
    <2>1. PICK mk : mk = IF Columns[sql] = 0 THEN "ok" ELSE "eof"
      OBVIOUS
    <2>2. mk \in {"ok", "err", "eof", "data"}
      BY <2>1
    <2>3. Plain(m, mk, tx) \in Packet /\ Plain(m, mk, tx).marker = mk /\ Plain(m, mk, tx).id = m.id
      BY <2>2, PlainFields, ZenonT(30)
    <2>4. end = [Plain(m, mk, tx) EXCEPT !.more = more]
      BY <2>1
    <2> HIDE DEF end
    <2>5. end \in Packet /\ end.marker = mk /\ end.more = more /\ end.id = m.id
      BY <2>3, <2>4 DEF Packet
    <2> QED BY <2>1, <2>5
  <1>3. header \in Packet /\ header.marker = "data" /\ header.n = Columns[sql] /\ header.meta = meta /\ header.id = m.id
    <2>1. Plain(m, "data", FALSE) \in Packet /\ Plain(m, "data", FALSE).marker = "data" /\ Plain(m, "data", FALSE).id = m.id
      BY PlainFields
    <2> QED BY <1>0, <2>1 DEF Packet
  <1>4. row \in Packet /\ row.marker \in {"ok", "data"} /\ row.id = m.id
    <2>1. PICK mk : mk = IF m.type = "EXECUTE" THEN "ok" ELSE "data"
      OBVIOUS
    <2>2. mk \in {"ok", "err", "eof", "data"} /\ mk \in {"ok", "data"}
      BY <2>1
    <2>3. Plain(m, mk, FALSE) \in Packet /\ Plain(m, mk, FALSE).marker = mk /\ Plain(m, mk, FALSE).id = m.id
      BY <2>2, PlainFields
    <2>4. row = Plain(m, mk, FALSE)
      BY <2>1
    <2> QED BY <2>2, <2>3, <2>4
  <1> HIDE DEF end, header, row
  <1>w. ASSUME NEW w \in Seq(Packet), NEW b, IsResult(w, end, b)
        PROVE  \E v \in Seq(Packet), e \in Packet : \E c : IsResult(v, e, c)
    <2> HIDE DEF IsResult
    <2> QED BY <1>2, <1>w
  <1> SUFFICES \E v \in Seq(Packet), e \in Packet : \E c : IsResult(v, e, c)
    BY DEF Reads
  <1>5. CASE Columns[sql] = 0
    <2>1. PICK w : w = <<>>
      OBVIOUS
    <2>2. w \in Seq(Packet) /\ Len(w) = 0 /\ <<end>> = w \o <<end>>
      BY <1>2, <2>1
    <2>3. Walks(Start, w, Start)
      BY <2>1, WalkNone
    <2>4. Start[1] = "initial"
      BY DEF Start
    <2>5. more => Goes(Start, end, Start)
      BY <1>2, <1>5, <2>4 DEF Goes
    <2>6. ~more => Ends(Start, end)
      BY <1>2, <1>5, <2>4 DEF Ends
    <2>7. result = w \o <<end>>
      BY <1>1, <1>5, <2>2
    <2>8. IsResult(w, end, Start)
      BY <1>2, <2>2, <2>3, <2>5, <2>6, <2>7
    <2> HIDE DEF IsResult
    <2> QED BY <1>w, <2>2, <2>8
  <1>6. CASE Columns[sql] # 0
    <2> DEFINE hs == <<header>>
               rs == Copies(row, rows)
               mid == IF meta THEN <<"metadata", Columns[sql]>> ELSE Rows
               last == <<"rows", 0>>
    <2>1. hs \in Seq(Packet) /\ Own(hs)
      BY <1>3
    <2>2. Walks(Start, hs, mid)
      <3>1. Goes(Start, header, mid)
        <4>1. Start[1] = "initial" /\ header.n > 0
          BY <1>0, <1>3, <1>6 DEF Start
        <4>2. CASE meta
          BY <1>3, <4>1, <4>2 DEF Goes
        <4>3. CASE ~meta
          BY <1>3, <4>1, <4>3 DEF Goes
        <4> QED BY <4>2, <4>3
      <3> HIDE DEF mid
      <3> QED BY <3>1, WalkOne
    <2>p. Plain(m, "data", FALSE) \in Packet /\ Plain(m, "data", FALSE).marker = "data" /\ Plain(m, "data", FALSE).id = m.id
      BY PlainFields
    <2>3. definitions \in Seq(Packet) /\ Own(definitions) /\ Walks(mid, definitions, Rows)
      <3>1. CASE meta
        <4>1. definitions = Copies(Plain(m, "data", FALSE), Columns[sql]) /\ mid = <<"metadata", Columns[sql]>>
          BY <3>1
        <4>2. definitions \in Seq(Packet)
          BY <1>0, <2>p, <4>1, CopiesTyped
        <4>3. Own(definitions)
          <5>1. Len(definitions) = Columns[sql] /\ \A i \in 1..Columns[sql] : definitions[i] = Plain(m, "data", FALSE)
            <6>1. PICK p, n : p = Plain(m, "data", FALSE) /\ n = Columns[sql]
              OBVIOUS
            <6>2. Len(Copies(p, n)) = n /\ \A i \in 1..n : Copies(p, n)[i] = p
              BY <1>0, <6>1, CopiesFacts
            <6> HIDE DEF definitions
            <6> QED BY <4>1, <6>1, <6>2
          <5> QED BY <2>p, <5>1
        <4>4. Walks(mid, definitions, Rows)
          <5>1. PICK p, n : p = Plain(m, "data", FALSE) /\ n = Columns[sql]
            OBVIOUS
          <5>2. Walks(<<"metadata", n>>, Copies(p, n), Rows)
            BY <1>0, <1>6, <2>p, <5>1, WalkDefinitions
          <5> QED BY <4>1, <5>1, <5>2
        <4> QED BY <4>2, <4>3, <4>4
      <3>2. CASE ~meta
        <4>1. definitions = <<>> /\ mid = Rows
          BY <3>2
        <4>2. Walks(Rows, <<>>, Rows)
          <5>1. PICK a : a = Rows
            OBVIOUS
          <5> QED BY <5>1, WalkNone
        <4>3. <<>> \in Seq(Packet) /\ Own(<<>>)
          OBVIOUS
        <4> HIDE DEF definitions, mid, Own
        <4> QED BY <4>1, <4>2, <4>3
      <3> QED BY <3>1, <3>2
    <2>4. separator \in Seq(Packet) /\ Own(separator) /\ Walks(Rows, separator, last)
      <3>1. CASE DeprecateEof
        <4>1. separator = <<>> /\ Rows = last
          BY <3>1 DEF Rows
        <4>2. Walks(last, <<>>, last)
          BY WalkNone
        <4> QED BY <4>1, <4>2
      <3>2. CASE ~DeprecateEof
        <4>1. PICK p : p = Plain(m, "eof", tx)
          OBVIOUS
        <4>2. p \in Packet /\ p.marker = "eof" /\ p.id = m.id
          BY <4>1, PlainFields
        <4>3. separator = <<p>> /\ Rows = <<"metadata_eof", 0>>
          BY <3>2, <4>1 DEF Rows
        <4>4. Goes(Rows, p, last)
          BY <4>2, <4>3 DEF Goes
        <4>5. Walks(Rows, <<p>>, last)
          <5> HIDE DEF last
          <5> QED BY <4>4, WalkOne
        <4> QED BY <4>2, <4>3, <4>5
      <3> QED BY <3>1, <3>2
    <2>5. rs \in Seq(Packet) /\ Own(rs) /\ Walks(last, rs, last)
      <3>1. rs \in Seq(Packet)
        BY <1>4, CopiesTyped
      <3>2. Own(rs)
        BY <1>4 DEF Copies
      <3>3. Goes(last, row, last)
        BY <1>4 DEF Goes
      <3>4. Walks(last, rs, last)
        <4> HIDE DEF last
        <4> QED BY <3>3, WalkRows
      <3> QED BY <3>1, <3>2, <3>4
    <2>6. result = hs \o definitions \o separator \o rs \o <<end>>
      BY <1>1, <1>6
    <2>7. last[1] = "rows"
      OBVIOUS
    <2>8. more => Goes(last, end, Start)
      BY <1>2, <1>6, <2>7 DEF Goes
    <2>9. ~more => Ends(last, end)
      BY <1>2, <1>6, <2>7 DEF Ends
    <2> HIDE DEF hs, definitions, separator, rs, last, mid, result
    <2>c. ASSUME NEW u \in Seq(Packet), NEW v \in Seq(Packet), Own(u), Own(v) PROVE u \o v \in Seq(Packet) /\ Own(u \o v)
      <3>1. /\ u \o v \in Seq(Packet) /\ Len(u) \in Nat /\ Len(v) \in Nat
            /\ Len(u \o v) = Len(u) + Len(v)
            /\ \A i \in 1..Len(u) : (u \o v)[i] = u[i]
            /\ \A i \in Len(u) + 1..Len(u) + Len(v) : (u \o v)[i] = v[i - Len(u)]
        BY ConcatFacts
      <3>2. ASSUME NEW i \in 1..Len(u \o v) PROVE (u \o v)[i].id = m.id
        <4>1. CASE i \in 1..Len(u)
          BY <2>c, <3>1, <4>1
        <4>2. CASE i \in Len(u) + 1..Len(u) + Len(v)
          <5>1. i - Len(u) \in 1..Len(v)
            BY <3>1, <4>2
          <5> QED BY <2>c, <3>1, <4>2, <5>1
        <4> QED BY <3>1, <4>1, <4>2
      <3> QED BY <3>1, <3>2
    <2>10. hs \o definitions \in Seq(Packet) /\ Own(hs \o definitions)
      BY <2>1, <2>3, <2>c
    <2>11. PICK d : d = hs \o definitions
      OBVIOUS
    <2>12. d \in Seq(Packet) /\ Own(d) /\ Walks(Start, d, Rows)
      BY <2>1, <2>2, <2>3, <2>10, <2>11, WalkConcat
    <2>13. PICK s : s = d \o separator
      OBVIOUS
    <2>14. s \in Seq(Packet) /\ Own(s) /\ Walks(Start, s, last)
      BY <2>4, <2>12, <2>13, <2>c, WalkConcat
    <2>15. PICK w : w = s \o rs
      OBVIOUS
    <2>16. w \in Seq(Packet) /\ Own(w) /\ Walks(Start, w, last)
      BY <2>5, <2>14, <2>15, <2>c, WalkConcat
    <2>17. result = w \o <<end>>
      BY <2>6, <2>11, <2>13, <2>15
    <2>18. IsResult(w, end, last)
      BY <1>2, <2>8, <2>9, <2>16, <2>17
    <2> HIDE DEF IsResult
    <2> QED BY <1>w, <2>16, <2>18
  <1> QED BY <1>5, <1>6

\* All packets of an answer carry the command's number.
Own(q, m) == \A i \in 1..Len(q) : q[i].id = m.id

\* Packets of one command behind packets of the same command.
LEMMA OwnConcat ==
  ASSUME NEW u \in Seq(Packet), NEW v \in Seq(Packet), NEW m, Own(u, m), Own(v, m)
  PROVE  Own(u \o v, m)
<1>1. /\ u \o v \in Seq(Packet) /\ Len(u) \in Nat /\ Len(v) \in Nat
      /\ Len(u \o v) = Len(u) + Len(v)
      /\ \A i \in 1..Len(u) : (u \o v)[i] = u[i]
      /\ \A i \in Len(u) + 1..Len(u) + Len(v) : (u \o v)[i] = v[i - Len(u)]
  BY ConcatFacts
<1>2. ASSUME NEW i \in 1..Len(u \o v) PROVE (u \o v)[i].id = m.id
  <2>1. CASE i \in 1..Len(u)
    BY <1>1, <2>1 DEF Own
  <2>2. CASE i \in Len(u) + 1..Len(u) + Len(v)
    <3>1. i - Len(u) \in 1..Len(v)
      BY <1>1, <2>2
    <3> QED BY <1>1, <2>2, <3>1 DEF Own
  <2> QED BY <1>1, <2>1, <2>2
<1> QED BY <1>2 DEF Own

\* The tracker reads the answer to a command to its end, whether the server
\* completes it or gives up in the middle.
LEMMA ResultsParse ==
  ASSUME NEW m \in Message, NEW sql \in SQL, NEW tx \in BOOLEAN,
         NEW packets \in Results(m, sql, tx),
         NEW answer,
         \/ answer = packets
         \/ answer = SubSeq(packets, 1, Len(packets) - 1) \o <<Plain(m, "err", FALSE)>>
  PROVE  answer \in Seq(Packet) /\ Parses(Start, answer) /\ Own(answer, m)
<1> DEFINE metas == IF m.type = "EXECUTE" THEN BOOLEAN ELSE {TRUE}
           single == UNION {{ResultOf(m, sql, tx, rows, meta, FALSE) : rows \in 0..MaxRows} :
                              meta \in metas}
           first == ResultOf(m, sql, tx, 0, TRUE, TRUE)
           Ending(q, w, end, b) == /\ q = w \o <<end>> /\ Walks(Start, w, b) /\ Ends(b, end)
                                   /\ Own(w, m) /\ end.id = m.id
<1>0. \A meta \in metas : meta \in BOOLEAN
  BY Zenon
<1>1. \/ packets \in single
      \/ packets \in {first \o s : s \in single}
  <2>1. Results(m, sql, tx) = IF Class[sql].impact_kind = "batch"
                                THEN {first \o s : s \in single} ELSE single
    BY DEF Results
  <2> HIDE DEF single
  <2> QED BY <2>1
<1> HIDE DEF metas
<1>2. ASSUME NEW s \in single
      PROVE  \E w \in Seq(Packet), end \in Packet : \E b : Ending(s, w, end, b)
  <2>1. PICK rows \in 0..MaxRows, meta \in metas : s = ResultOf(m, sql, tx, rows, meta, FALSE)
    BY <1>2
  <2>2. rows \in Nat /\ meta \in BOOLEAN
    BY <1>0, <2>1, BoundsAssumption
  <2>f. PICK more : more = FALSE
    OBVIOUS
  <2>g. more \in BOOLEAN
    BY <2>f
  <2>3. Reads(s, m, more)
    <3> HIDE DEF single
    <3> QED BY <2>1, <2>2, <2>f, <2>g, ResultWalks
  <2>5. PICK w, end, b :
          /\ w \in Seq(Packet) /\ end \in Packet
          /\ s = w \o <<end>> /\ Walks(Start, w, b) /\ Ends(b, end)
          /\ \A i \in 1..Len(w) : w[i].id = m.id
          /\ end.id = m.id
    BY <2>3, <2>f DEF Reads
  <2>4. Ending(s, w, end, b)
    BY <2>5 DEF Own
  <2> HIDE DEF Ending
  <2> QED BY <2>4, <2>5
<1>3. PICK v, mid, a :
            /\ v \in Seq(Packet) /\ mid \in Packet
            /\ first = v \o <<mid>> /\ Walks(Start, v, a) /\ Goes(a, mid, Start)
            /\ Own(v, m) /\ mid.id = m.id
  <2>1. PICK more, none : more = TRUE /\ none = 0
    OBVIOUS
  <2>g. more \in BOOLEAN /\ none \in Nat
    BY <2>1
  <2>2. Reads(first, m, more)
    <3> HIDE DEF single
    <3> QED BY <2>1, <2>g, ResultWalks
  <2> QED BY <2>1, <2>2 DEF Reads, Own
<1> HIDE DEF single, first
<1>4. \E w \in Seq(Packet), end \in Packet : \E b : Ending(packets, w, end, b)
  <2>1. CASE packets \in single
    <3> HIDE DEF Ending
    <3> QED BY <1>2, <2>1
  <2>2. CASE packets \in {first \o s : s \in single}
    <3>1. PICK s \in single : packets = first \o s
      BY <2>2
    <3>2. PICK w, end, b : w \in Seq(Packet) /\ end \in Packet /\ Ending(s, w, end, b)
      <4> HIDE DEF Ending
      <4> QED BY <1>2
    <3>3. PICK o, x, f : o = <<mid>> /\ x = <<end>> /\ f = v \o o
      OBVIOUS
    <3>4. o \in Seq(Packet) /\ x \in Seq(Packet) /\ Own(o, m)
      BY <1>3, <3>2, <3>3 DEF Own
    <3>5. Walks(a, o, Start)
      BY <1>3, <3>3, WalkOne
    <3>6. f \in Seq(Packet) /\ Walks(Start, f, Start) /\ Own(f, m)
      BY <1>3, <3>3, <3>4, <3>5, WalkConcat, OwnConcat, ConcatType
    <3>7. f \o w \in Seq(Packet) /\ Walks(Start, f \o w, b) /\ Own(f \o w, m)
      BY <3>2, <3>6, WalkConcat, OwnConcat, ConcatType
    <3>8. packets = (f \o w) \o x
      <4>0. f \in Seq(Packet) /\ w \in Seq(Packet) /\ x \in Seq(Packet)
        BY <3>2, <3>4, <3>6
      <4>1. (f \o w) \o x = f \o (w \o x)
        BY ONLY <4>0, ConcatAssoc
      <4> QED BY <1>3, <3>1, <3>2, <3>3, <4>1
    <3>9. Ending(packets, f \o w, end, b)
      BY <3>2, <3>3, <3>7, <3>8
    <3> HIDE DEF Ending
    <3> QED BY <3>2, <3>7, <3>9
  <2> QED BY <1>1, <2>1, <2>2
<1>5. PICK w, end, b : w \in Seq(Packet) /\ end \in Packet /\ Ending(packets, w, end, b)
  <2> HIDE DEF Ending
  <2> QED BY <1>4
<1>6. ASSUME NEW last \in Packet, last.id = m.id, Ends(b, last), answer = w \o <<last>>
      PROVE  answer \in Seq(Packet) /\ Parses(Start, answer) /\ Own(answer, m)
  <2>1. PICK o : o = <<last>>
    OBVIOUS
  <2>2. o \in Seq(Packet) /\ Own(o, m)
    BY <1>6, <2>1 DEF Own
  <2>3. w \o o \in Seq(Packet) /\ Own(w \o o, m)
    BY <1>5, <2>2, OwnConcat, ConcatType
  <2>4. Parses(Start, w \o <<last>>)
    BY <1>5, <1>6, WalkEnds
  <2> QED BY <1>6, <2>1, <2>3, <2>4
<1>7. CASE answer = packets
  BY <1>5, <1>6, <1>7
<1>8. CASE answer = SubSeq(packets, 1, Len(packets) - 1) \o <<Plain(m, "err", FALSE)>>
  <2>1. SubSeq(packets, 1, Len(packets) - 1) = w
    <3>1. packets = w \o <<end>>
      BY <1>5
    <3>2. Len(packets) = Len(w) + 1 /\ \A i \in 1..Len(w) : packets[i] = w[i]
      BY <1>5, <3>1
    <3>3. packets \in Seq(Packet) /\ Len(w) \in Nat
      BY <1>5, <3>1
    <3>4. PICK v2 : v2 = SubSeq(packets, 1, Len(w))
      OBVIOUS
    <3>5. v2 \in Seq(Packet) /\ Len(v2) = Len(w) /\ \A i \in 1..Len(w) : v2[i] = w[i]
      BY <3>2, <3>3, <3>4
    <3>6. v2 = w
      BY <1>5, <3>5, SeqEqual
    <3>7. Len(packets) - 1 = Len(w)
      BY <3>2, <3>3
    <3> QED BY <3>4, <3>6, <3>7
  <2>2. PICK e : e = Plain(m, "err", FALSE)
    OBVIOUS
  <2>3. e \in Packet /\ e.marker = "err" /\ e.id = m.id
    BY <2>2, PlainFields
  <2>4. Ends(b, e)
    BY <2>3 DEF Ends
  <2> QED BY <1>6, <1>8, <2>1, <2>2, <2>3, <2>4
<1> QED BY <1>7, <1>8

-----------------------------------------------------------------------------
(***************************************************************************)
(* Where a session is between a command and the end of its answer.         *)
(***************************************************************************)
\* The one acknowledgement the proxy awaits, or nothing.
Awaits(what) ==
  /\ pendingPing <=> (what = "ping")
  /\ pendingReset # None <=> (what = "reset")
  /\ pendingDb # None <=> (what = "database")
  /\ pendingSql # None <=> (what = "prepare")
  /\ pendingCmd <=> (what = "command")

\* The text of a QUERY or of the statement an EXECUTE names is the one judged.
RunsJudged(m) ==
  /\ m.type = "QUERY" => judged[m.id] = m.sql
  /\ m.type = "EXECUTE" => /\ Target(m) \in Ids /\ statements[Target(m)] # None
                           /\ statements[Target(m)].sql = judged[m.id]

\* The proxy is set up for the answer to a command that is on its way.
Expects(m) ==
  \/ m.type = "PING" /\ Awaits("ping")
  \/ m.type = "RESET" /\ Awaits("reset")
  \/ m.type = "INIT_DB" /\ Awaits("database")
  \/ m.type = "PREPARE" /\ Awaits("prepare") /\ pendingId = None /\ pendingSql = m.sql
  \/ Runs(m) /\ Awaits("command") /\ stage = "initial" /\ columns = 0 /\ RunsJudged(m)

\* The packets that follow PREPARE_OK are those the proxy counts on.
Matches(kinds, q) ==
  /\ Len(q) = Len(kinds)
  /\ \A i \in 1..Len(q) : q[i].marker # "err" /\ (kinds[i] = "eof" => q[i].marker = "eof")

PrepareFits(q) ==
  \/ pendingId = None /\ Len(q) = 1 /\ q[1].marker = "err"
  \/ /\ pendingId = None /\ q[1].marker = "ok"
     /\ q[1].stmt \in 1..Len(bStmts) /\ bStmts[q[1].stmt] = pendingSql /\ bLast = q[1].stmt
     /\ Matches(MetadataKinds(pendingSql), Tail(q))
  \/ /\ pendingId # None /\ bLast = pendingId /\ statements[pendingId] # None
     /\ Matches(metadata, q)

\* The packets on their way are the rest of the answer the proxy awaits.
Fits(q) ==
  \/ /\ Awaits("ping") \/ Awaits("reset") \/ Awaits("database")
     /\ Len(q) = 1 /\ q[1].marker \in {"ok", "err"}
  \/ Awaits("prepare") /\ PrepareFits(q)
  \/ Awaits("command") /\ Parses(<<stage, columns>>, q)

NoAnswerIn(q) == \A i \in 1..Len(q) : ~HasAnswer(q[i])
OnlyQuits(q)  == \A i \in 1..Len(q) : q[i].type = "QUIT"

Refusing == pc = "audit" /\ verdict[cur[1].id] \in Refused

\* The client pump does nothing that concerns the answer awaited: it reads,
\* waits for a PREPARE, or refuses what came behind.
Aside == \/ pc = "read"
         \/ pc = "wait" /\ Awaits("prepare")
         \/ Refusing /\ (Runs(cur[1]) => Awaits("prepare"))

Resting ==
  /\ Awaits("nothing") /\ NoAnswerIn(p2b) /\ b2p = <<>>
  /\ pc \in {"read", "wait"} \/ Refusing

Weighing ==
  /\ Awaits("command") /\ stage = "initial" /\ columns = 0
  /\ NoAnswerIn(p2b) /\ b2p = <<>>
  /\ pc \in {"estimate", "confirm", "audit"} /\ Runs(cur[1]) /\ RunsJudged(cur[1])

AskedAt(m, k) ==
  /\ p2b[k] = m /\ HasAnswer(m) /\ Expects(m)
  /\ \A i \in 1..Len(p2b) : /\ i < k => ~HasAnswer(p2b[i])
                            /\ i > k => p2b[i].type = "QUIT"

Asked == /\ Aside /\ b2p = <<>>
         /\ \E m \in Message, k \in 1..Len(p2b) : AskedAt(m, k)

Answering == Aside /\ b2p # <<>> /\ OnlyQuits(p2b) /\ Fits(b2p)

Phase == Resting \/ Weighing \/ Asked \/ Answering

\* The registry holds the texts of the server's statements, and LAST means
\* the same statement to both.
RegAgree ==
  \A i \in Ids : statements[i] # None =>
    /\ i \in 1..Len(bStmts) /\ bStmts[i] = statements[i].sql
    /\ \A k \in 1..Len(p2b) : ~(p2b[k].type = "CLOSE" /\ p2b[k].stmt = i)
LastAgree ==
  (pendingSql = None /\ lastId # None) => bLast = lastId /\ statements[lastId] # None

WaitsForPrepare == pc = "wait" => cur[1].type = "EXECUTE"

\* Messages in flight are commands the client sent, and answers belong to
\* commands that have one.
IsSent(m) == m.id \in 1..Len(sent) /\ sent[m.id] = m
SentIs ==
  /\ \A i \in 1..Len(c2p) : IsSent(c2p[i])
  /\ \A i \in 1..Len(p2b) : IsSent(p2b[i])
  /\ pc # "read" => IsSent(cur[1])
  /\ \A i \in 1..Len(b2p) : /\ b2p[i].id \in 1..Len(sent)
                            /\ HasAnswer(sent[b2p[i].id]) /\ sent[b2p[i].id].type # "OTHER"

NoGap == \A id \in Ids : verdict[id] # "ALLOWED_PROTOCOL_GAP"
RanJudged == \A e \in executed : judged[e.id] = e.sql

TrackInv ==
  /\ NoGap /\ RanJudged
  /\ open => Phase /\ RegAgree /\ LastAgree /\ WaitsForPrepare /\ SentIs

-----------------------------------------------------------------------------
\* What is awaited is one thing.
LEMMA OneAwaited ==
  ASSUME NEW a \in {"nothing", "ping", "reset", "database", "prepare", "command"},
         NEW b \in {"nothing", "ping", "reset", "database", "prepare", "command"},
         Awaits(a), Awaits(b)
  PROVE  a = b
  BY DEF Awaits

\* Which phase it is can be told from what is awaited and what is in flight.
LEMMA PhaseFacts ==
  ASSUME IInv, Phase
  PROVE  /\ ~HasPending => Resting
         /\ pendingSql # None => Awaits("prepare") /\ (Asked \/ Answering)
         /\ b2p # <<>> => Answering
         /\ pc \in {"estimate", "confirm"} => Weighing
         /\ HasPending => ~Resting
         /\ (p2b # <<>> /\ HasAnswer(Head(p2b))) =>
              /\ Aside /\ b2p = <<>> /\ Expects(Head(p2b)) /\ OnlyQuits(Tail(p2b))
  <1>1. Expects(Head(p2b)) => HasPending
    BY DEF Expects, Awaits, HasPending
  <1>2. ASSUME NEW m, Expects(m) PROVE HasPending /\ (pendingSql # None => Awaits("prepare"))
    <2>1. Awaits("ping") \/ Awaits("reset") \/ Awaits("database") \/ Awaits("prepare") \/ Awaits("command")
      BY <1>2 DEF Expects
    <2> QED BY <2>1 DEF Awaits, HasPending
  <1>3. Fits(b2p) => HasPending /\ (pendingSql # None => Awaits("prepare"))
    <2>1. Fits(b2p) => Awaits("ping") \/ Awaits("reset") \/ Awaits("database") \/ Awaits("prepare") \/ Awaits("command")
      BY DEF Fits
    <2> QED BY <2>1 DEF Awaits, HasPending
  <1>4. Resting => ~HasPending /\ pendingSql = None /\ b2p = <<>> /\ pc \notin {"estimate", "confirm"}
    BY DEF Resting, Awaits, HasPending, Refusing
  <1>5. Weighing => HasPending /\ pendingSql = None /\ b2p = <<>>
    BY DEF Weighing, Awaits, HasPending
  <1>6. Asked => HasPending /\ (pendingSql # None => Awaits("prepare")) /\ b2p = <<>> /\ Aside
    BY <1>2 DEF Asked, AskedAt
  <1>7. Answering => HasPending /\ (pendingSql # None => Awaits("prepare")) /\ b2p # <<>> /\ Aside
    BY <1>3 DEF Answering
  <1>8. Aside => pc \notin {"estimate", "confirm"}
    BY DEF Aside, Refusing
  <1>9. ASSUME p2b # <<>>, HasAnswer(Head(p2b))
        PROVE  Aside /\ b2p = <<>> /\ Expects(Head(p2b)) /\ OnlyQuits(Tail(p2b))
    <2>1. /\ Tail(p2b) \in Seq(Message) /\ Len(p2b) \in Nat \ {0} /\ Len(Tail(p2b)) = Len(p2b) - 1
          /\ \A i \in 1..Len(p2b) - 1 : Tail(p2b)[i] = p2b[i + 1]
          /\ Head(p2b) = p2b[1] /\ 1 \in 1..Len(p2b)
      BY <1>9, TailFacts DEF IInv, Core, StreamTyped
    <2>2. ~NoAnswerIn(p2b)
      BY <1>9, <2>1 DEF NoAnswerIn
    <2>3. ~OnlyQuits(p2b)
      BY <1>9, <2>1 DEF OnlyQuits, HasAnswer
    <2>4. Asked
      BY <2>2, <2>3 DEF Phase, Resting, Weighing, Answering
    <2>5. PICK m \in Message, k \in 1..Len(p2b) : AskedAt(m, k)
      BY <2>4 DEF Asked
    <2>6. k = 1
      <3>1. ~(1 < k)
        BY <1>9, <2>1, <2>5 DEF AskedAt
      <3> QED BY <3>1, <2>1
    <2>7. OnlyQuits(Tail(p2b))
      <3>1. ASSUME NEW i \in 1..Len(Tail(p2b)) PROVE Tail(p2b)[i].type = "QUIT"
        <4>1. i \in 1..Len(p2b) - 1 /\ i + 1 \in 1..Len(p2b) /\ i + 1 > k
          BY <2>1, <2>6
        <4> QED BY <2>1, <2>5, <4>1 DEF AskedAt
      <3> QED BY <3>1 DEF OnlyQuits
    <2> QED BY <2>1, <2>4, <2>5, <2>6, <2>7 DEF Asked, AskedAt
  <1> QED BY <1>4, <1>5, <1>6, <1>7, <1>8, <1>9 DEF Phase

\* Older commands keep the text they were judged on.
OlderJudged == \A id \in Ids : id <= Left => judged'[id] = judged[id]

\* The proxy goes on awaiting the answer it awaits, whatever the client pump
\* does aside; what is left behind is at most a QUIT.
LEMMA AsideKept ==
  ASSUME IInv, Asked \/ Answering, Aside', OlderJudged,
         UNCHANGED <<b2p, lifecycle, statements, lastId, bStmts, bLast>>,
         UNCHANGED response \/ (Awaits("prepare") /\ pendingCmd' = FALSE),
         UNCHANGED p2b \/ \E q \in Message : q.type = "QUIT" /\ p2b' = Append(p2b, q)
  PROVE  Phase'
  <1>1. p2b \in Seq(Message) /\ Len(p2b) \in Nat
    BY DEF IInv, Core, StreamTyped
  <1>2. /\ p2b' \in Seq(Message) /\ Len(p2b') \in Nat /\ Len(p2b) <= Len(p2b')
        /\ \A i \in 1..Len(p2b) : p2b'[i] = p2b[i]
        /\ \A i \in 1..Len(p2b') : i \notin 1..Len(p2b) => p2b'[i].type = "QUIT"
    <2>1. CASE UNCHANGED p2b
      BY <1>1, <2>1
    <2>2. ASSUME NEW q \in Message, q.type = "QUIT", p2b' = Append(p2b, q)
          PROVE  /\ p2b' \in Seq(Message) /\ Len(p2b') \in Nat /\ Len(p2b) <= Len(p2b')
                 /\ \A i \in 1..Len(p2b) : p2b'[i] = p2b[i]
                 /\ \A i \in 1..Len(p2b') : i \notin 1..Len(p2b) => p2b'[i].type = "QUIT"
      <3>1. /\ p2b' \in Seq(Message) /\ Len(p2b') = Len(p2b) + 1
            /\ \A i \in 1..Len(p2b) : p2b'[i] = p2b[i]
            /\ p2b'[Len(p2b) + 1] = q
        BY <1>1, <2>2, AppendFacts
      <3>2. \A i \in 1..Len(p2b') : i \notin 1..Len(p2b) => i = Len(p2b) + 1
        BY <1>1, <3>1
      <3> QED BY <1>1, <2>2, <3>1, <3>2
    <2> QED BY <2>1, <2>2
  <1>3. UNCHANGED <<pendingDb, pendingSql, pendingId, metadata, pendingPing, pendingReset>>
    BY DEF lifecycle
  <1>4. ASSUME NEW w \in {"ping", "reset", "database", "prepare", "command"}, Awaits(w)
        PROVE  Awaits(w)'
    <2>1. CASE UNCHANGED pendingCmd
      BY <1>3, <1>4, <2>1 DEF Awaits
    <2>2. CASE Awaits("prepare") /\ pendingCmd' = FALSE
      <3>1. w = "prepare"
        BY <1>4, <2>2 DEF Awaits
      <3> QED BY <1>3, <1>4, <2>2, <3>1 DEF Awaits
    <2> QED BY <2>1, <2>2 DEF response
  <1>5. Awaits("command") => UNCHANGED response
    <2>1. ~(Awaits("command") /\ Awaits("prepare"))
      BY DEF Awaits
    <2> QED BY <2>1
  <1>6. CASE Asked
    <2>1. PICK m \in Message, k \in 1..Len(p2b) : AskedAt(m, k)
      BY <1>6 DEF Asked
    <2>2. m.id \in Ids /\ m.id <= Left
      BY <2>1 DEF AskedAt, Message, IInv, Core, ForwardedIsOlder
    <2>3. judged'[m.id] = judged[m.id]
      BY <2>2 DEF OlderJudged
    <2>4. Expects(m)'
      <3>1. RunsJudged(m) => RunsJudged(m)'
        BY <2>3 DEF RunsJudged, Target
      <3>2. CASE Runs(m) /\ Awaits("command") /\ stage = "initial" /\ columns = 0 /\ RunsJudged(m)
        BY <1>4, <1>5, <3>1, <3>2 DEF Expects, response, Runs
      <3>3. CASE m.type = "PREPARE" /\ Awaits("prepare") /\ pendingId = None /\ pendingSql = m.sql
        BY <1>3, <1>4, <3>3 DEF Expects
      <3>4. CASE \/ m.type = "PING" /\ Awaits("ping")
                 \/ m.type = "RESET" /\ Awaits("reset")
                 \/ m.type = "INIT_DB" /\ Awaits("database")
        BY <1>4, <3>4 DEF Expects
      <3> QED BY <2>1, <3>2, <3>3, <3>4 DEF AskedAt, Expects
    <2>5. k \in 1..Len(p2b') /\ p2b'[k] = m /\ HasAnswer(m)
      BY <1>1, <1>2, <2>1 DEF AskedAt
    <2>6. ASSUME NEW i \in 1..Len(p2b')
          PROVE  (i < k => ~HasAnswer(p2b'[i])) /\ (i > k => p2b'[i].type = "QUIT")
      <3>1. CASE i \in 1..Len(p2b)
        <4>1. p2b'[i] = p2b[i]
          BY <1>2, <3>1
        <4> QED BY <2>1, <3>1, <4>1 DEF AskedAt
      <3>2. CASE i \notin 1..Len(p2b)
        <4>1. ~(i < k)
          BY <1>1, <2>1, <3>2
        <4> QED BY <1>2, <3>2, <4>1
      <3> QED BY <3>1, <3>2
    <2>7. AskedAt(m, k)'
      BY <2>4, <2>5, <2>6 DEF AskedAt, HasAnswer
    <2>8. b2p' = <<>>
      BY <1>6 DEF Asked
    <2> QED BY <2>5, <2>7, <2>8 DEF Asked, Phase
  <1>7. CASE Answering
    <2>1. OnlyQuits(p2b)'
      BY <1>2, <1>7 DEF Answering, OnlyQuits
    <2>2. Fits(b2p)'
      <3>1. CASE /\ Awaits("ping") \/ Awaits("reset") \/ Awaits("database")
                 /\ Len(b2p) = 1 /\ b2p[1].marker \in {"ok", "err"}
        BY <1>4, <3>1 DEF Fits
      <3>2. CASE Awaits("prepare") /\ PrepareFits(b2p)
        <4>1. PrepareFits(b2p)'
          BY <1>3, <3>2 DEF PrepareFits
        <4> QED BY <1>4, <3>2, <4>1 DEF Fits
      <3>3. CASE Awaits("command") /\ Parses(<<stage, columns>>, b2p)
        <4>1. UNCHANGED <<stage, columns>>
          BY <1>5, <3>3 DEF response
        <4> QED BY <1>4, <3>3, <4>1 DEF Fits
      <3> QED BY <1>7, <3>1, <3>2, <3>3 DEF Answering, Fits
    <2> QED BY <1>7, <2>1, <2>2 DEF Answering, Phase
  <1> QED BY <1>6, <1>7

\* A session at rest stays at rest: what is forwarded has no answer, what is
\* being audited is refused.
LEMMA RestKept ==
  ASSUME IInv, NoAnswerIn(p2b), b2p' = <<>>, Awaits("nothing")',
         UNCHANGED p2b \/ \E q \in Message : ~HasAnswer(q) /\ p2b' = Append(p2b, q),
         pc' \in {"read", "wait"} \/ Refusing'
  PROVE  Phase'
  <1>1. p2b \in Seq(Message) /\ Len(p2b) \in Nat
    BY DEF IInv, Core, StreamTyped
  <1>2. NoAnswerIn(p2b)'
    <2>1. CASE UNCHANGED p2b
      BY <2>1 DEF NoAnswerIn, HasAnswer
    <2>2. ASSUME NEW q \in Message, ~HasAnswer(q), p2b' = Append(p2b, q) PROVE NoAnswerIn(p2b)'
      <3>1. /\ Len(p2b') = Len(p2b) + 1
            /\ \A i \in 1..Len(p2b) : p2b'[i] = p2b[i]
            /\ p2b'[Len(p2b) + 1] = q
        BY <1>1, <2>2, AppendFacts
      <3>2. \A i \in 1..Len(p2b') : i \notin 1..Len(p2b) => i = Len(p2b) + 1
        BY <1>1, <3>1
      <3> QED BY <1>1, <2>2, <3>1, <3>2 DEF NoAnswerIn, HasAnswer
    <2> QED BY <2>1, <2>2
  <1> QED BY <1>2 DEF Resting, Phase

\* A command with an answer is forwarded and the proxy set up for it.
LEMMA Ask ==
  ASSUME IInv, NoAnswerIn(p2b), b2p' = <<>>, NEW m \in Message, HasAnswer(m), Expects(m)',
         p2b' = Append(p2b, m), pc' = "read"
  PROVE  Phase'
  <1>1. p2b \in Seq(Message) /\ Len(p2b) \in Nat
    BY DEF IInv, Core, StreamTyped
  <1>2. /\ Len(p2b') = Len(p2b) + 1
        /\ \A i \in 1..Len(p2b) : p2b'[i] = p2b[i]
        /\ p2b'[Len(p2b) + 1] = m
    BY <1>1, AppendFacts
  <1>3. PICK k : k = Len(p2b) + 1
    OBVIOUS
  <1>4. k \in 1..Len(p2b') /\ p2b'[k] = m
    BY <1>1, <1>2, <1>3
  <1>5. ASSUME NEW i \in 1..Len(p2b')
        PROVE  (i < k => ~HasAnswer(p2b'[i])) /\ (i > k => p2b'[i].type = "QUIT")
    <2>1. ~(i > k) /\ (i < k => i \in 1..Len(p2b))
      BY <1>1, <1>2, <1>3
    <2> QED BY <1>2, <2>1 DEF NoAnswerIn
  <1>6. AskedAt(m, k)'
    BY <1>4, <1>5 DEF AskedAt, HasAnswer
  <1>7. Aside'
    BY DEF Aside
  <1> QED BY <1>4, <1>6, <1>7 DEF Asked, Phase

\* The registry stays in agreement when entries keep their texts or go, and no
\* CLOSE is forwarded for an entry that stays.
LEMMA RegKept ==
  ASSUME IInv, RegAgree, UNCHANGED bStmts,
         \A i \in Ids : statements'[i] # None =>
            statements[i] # None /\ statements'[i].sql = statements[i].sql,
         \/ UNCHANGED p2b
         \/ \E q \in Message : /\ p2b' = Append(p2b, q)
                               /\ \A i \in Ids : (q.type = "CLOSE" /\ q.stmt = i) => statements'[i] = None
  PROVE  RegAgree'
  <1>1. p2b \in Seq(Message) /\ Len(p2b) \in Nat
    BY DEF IInv, Core, StreamTyped
  <1>2. ASSUME NEW i \in Ids, statements'[i] # None
        PROVE  /\ i \in 1..Len(bStmts') /\ bStmts'[i] = statements'[i].sql
               /\ \A k \in 1..Len(p2b') : ~(p2b'[k].type = "CLOSE" /\ p2b'[k].stmt = i)
    <2>1. i \in 1..Len(bStmts') /\ bStmts'[i] = statements'[i].sql
      BY <1>2 DEF RegAgree
    <2>2. \A k \in 1..Len(p2b) : ~(p2b[k].type = "CLOSE" /\ p2b[k].stmt = i)
      BY <1>2 DEF RegAgree
    <2>3. ASSUME NEW q \in Message, p2b' = Append(p2b, q),
                 \A j \in Ids : (q.type = "CLOSE" /\ q.stmt = j) => statements'[j] = None
          PROVE  \A k \in 1..Len(p2b') : ~(p2b'[k].type = "CLOSE" /\ p2b'[k].stmt = i)
      <3>1. /\ Len(p2b') = Len(p2b) + 1
            /\ \A k \in 1..Len(p2b) : p2b'[k] = p2b[k]
            /\ p2b'[Len(p2b) + 1] = q
        BY <1>1, <2>3, AppendFacts
      <3>2. \A k \in 1..Len(p2b') : k \notin 1..Len(p2b) => k = Len(p2b) + 1
        BY <1>1, <3>1
      <3> QED BY <1>2, <2>2, <2>3, <3>1, <3>2
    <2> QED BY <2>1, <2>2, <2>3
  <1> QED BY <1>2 DEF RegAgree

\* The heads of the queues are commands of the client.
LEMMA HeadsSent ==
  ASSUME IInv, SentIs
  PROVE  /\ c2p # <<>> => Head(c2p) \in Message /\ IsSent(Head(c2p))
         /\ p2b # <<>> => Head(p2b) \in Message /\ IsSent(Head(p2b))
         /\ pc # "read" => cur[1] \in Message /\ IsSent(cur[1])
  <1>1. c2p \in Seq(Message) /\ p2b \in Seq(Message)
    BY DEF IInv, Core, StreamTyped
  <1>2. ASSUME c2p # <<>> PROVE Head(c2p) \in Message /\ IsSent(Head(c2p))
    <2>1. Head(c2p) \in Message /\ Head(c2p) = c2p[1] /\ Len(c2p) \in Nat \ {0}
      BY <1>1, <1>2, TailFacts
    <2> QED BY <2>1 DEF SentIs
  <1>3. ASSUME p2b # <<>> PROVE Head(p2b) \in Message /\ IsSent(Head(p2b))
    <2>1. Head(p2b) \in Message /\ Head(p2b) = p2b[1] /\ Len(p2b) \in Nat \ {0}
      BY <1>1, <1>3, TailFacts
    <2> QED BY <2>1 DEF SentIs
  <1>4. pc # "read" => cur[1] \in Message /\ IsSent(cur[1])
    BY CurrentTyped DEF IInv, Core, SentIs
  <1> QED BY <1>2, <1>3, <1>4

\* Commands are only moved from queue to queue, and answers belong to the
\* command the server took.
LEMMA SentKept ==
  ASSUME IInv, SentIs, UNCHANGED sent,
         UNCHANGED c2p \/ (c2p # <<>> /\ c2p' = Tail(c2p)),
         \/ UNCHANGED p2b
         \/ p2b # <<>> /\ p2b' = Tail(p2b)
         \/ \E q \in Message : IsSent(q) /\ p2b' = Append(p2b, q),
         pc' # "read" => IsSent(cur'[1]),
         \/ UNCHANGED b2p
         \/ b2p # <<>> /\ b2p' = Tail(b2p)
         \/ \E q \in Message : /\ IsSent(q) /\ HasAnswer(q) /\ q.type # "OTHER"
                               /\ \A i \in 1..Len(b2p') : b2p'[i].id = q.id
  PROVE  SentIs'
  <1>1. c2p \in Seq(Message) /\ p2b \in Seq(Message) /\ b2p \in Seq(Packet)
    BY DEF IInv, Core, StreamTyped, TypeOK, AnswersTyped
  <1>2. ASSUME NEW S, NEW q \in Seq(S), q # <<>>, NEW i \in 1..Len(Tail(q))
        PROVE  i + 1 \in 1..Len(q) /\ Tail(q)[i] = q[i + 1]
    <2>1. /\ Len(q) \in Nat \ {0} /\ Len(Tail(q)) = Len(q) - 1
          /\ \A j \in 1..Len(q) - 1 : Tail(q)[j] = q[j + 1]
      BY <1>2, TailFacts
    <2> QED BY <2>1
  <1>3. \A m : IsSent(m)' <=> IsSent(m)
    BY DEF IsSent
  <1>4. ASSUME NEW i \in 1..Len(c2p') PROVE IsSent(c2p'[i])
    <2>1. CASE UNCHANGED c2p
      BY <2>1 DEF SentIs
    <2>2. CASE c2p # <<>> /\ c2p' = Tail(c2p)
      BY <1>1, <1>2, <2>2 DEF SentIs
    <2> QED BY <2>1, <2>2
  <1>5. ASSUME NEW i \in 1..Len(p2b') PROVE IsSent(p2b'[i])
    <2>1. CASE UNCHANGED p2b
      BY <2>1 DEF SentIs
    <2>2. CASE p2b # <<>> /\ p2b' = Tail(p2b)
      BY <1>1, <1>2, <2>2 DEF SentIs
    <2>3. ASSUME NEW q \in Message, IsSent(q), p2b' = Append(p2b, q) PROVE IsSent(p2b'[i])
      <3>1. /\ Len(p2b') = Len(p2b) + 1 /\ Len(p2b) \in Nat
            /\ \A k \in 1..Len(p2b) : p2b'[k] = p2b[k]
            /\ p2b'[Len(p2b) + 1] = q
        BY <1>1, <2>3, AppendFacts
      <3>2. i \notin 1..Len(p2b) => i = Len(p2b) + 1
        BY <3>1
      <3> QED BY <2>3, <3>1, <3>2 DEF SentIs
    <2> QED BY <2>1, <2>2, <2>3
  <1>6. ASSUME NEW i \in 1..Len(b2p')
        PROVE  /\ b2p'[i].id \in 1..Len(sent)
               /\ HasAnswer(sent[b2p'[i].id]) /\ sent[b2p'[i].id].type # "OTHER"
    <2>1. CASE UNCHANGED b2p
      BY <2>1 DEF SentIs
    <2>2. CASE b2p # <<>> /\ b2p' = Tail(b2p)
      BY <1>1, <1>2, <2>2 DEF SentIs
    <2>3. CASE \E q \in Message : /\ IsSent(q) /\ HasAnswer(q) /\ q.type # "OTHER"
                                  /\ \A j \in 1..Len(b2p') : b2p'[j].id = q.id
      BY <2>3 DEF IsSent
    <2> QED BY <2>1, <2>2, <2>3
  <1>7. \A i \in 1..Len(c2p') : IsSent(c2p[i])'
    BY <1>4 DEF IsSent
  <1>8. \A i \in 1..Len(p2b') : IsSent(p2b[i])'
    BY <1>5 DEF IsSent
  <1>9. pc' # "read" => IsSent(cur[1])'
    BY DEF IsSent
  <1> QED BY <1>6, <1>7, <1>8, <1>9 DEF SentIs, HasAnswer

\* A judgement of a command that has not left the pump changes nothing about
\* the older ones, and lets no gap through.
LEMMA JudgedOlder ==
  ASSUME IInv, NoGap, RanJudged, Mode # "permissive",
         NEW m \in Message, m.id > Left, NEW v, NEW q, JudgesCurrent(m, v, q), UNCHANGED executed
  PROVE  /\ OlderJudged /\ NoGap' /\ RanJudged'
         /\ judged'[m.id] = q /\ verdict'[m.id] = v /\ cur'[1] = m
  <1>1. m.id \in Ids /\ m.id \in Int /\ Left \in Int
    BY BoundsAssumption DEF Message, Ids, IInv, Core, StreamTyped, Left, Taken
  <1>2. /\ verdict' = [verdict EXCEPT ![m.id] = v] /\ judged' = [judged EXCEPT ![m.id] = q]
        /\ verdict \in [Ids -> Verdicts] /\ judged \in [Ids -> SQL \cup {None}]
    BY DEF JudgesCurrent, Judge, IInv, Core, TaskTyped
  <1>3. OlderJudged
    BY <1>1, <1>2, BoundsAssumption DEF OlderJudged, Ids
  <1>4. v # "ALLOWED_PROTOCOL_GAP"
    BY DEF JudgesCurrent
  <1>5. NoGap'
    BY <1>1, <1>2, <1>4 DEF NoGap
  <1>6. RanJudged'
    <2>1. ASSUME NEW e \in executed PROVE judged'[e.id] = e.sql
      <3>1. e.id \in Ids /\ e.id <= Left
        BY DEF IInv, Core, ForwardedIsOlder, TypeOK, ServerTyped
      <3> QED BY <1>3, <3>1 DEF OlderJudged, RanJudged
    <2> QED BY <2>1 DEF RanJudged
  <1> QED BY <1>1, <1>2, <1>3, <1>5, <1>6 DEF JudgesCurrent

-----------------------------------------------------------------------------
(***************************************************************************)
(* The tracking invariant is preserved by each action.                     *)
(***************************************************************************)
\* A fresh session awaits nothing.
LEMMA TrackInit == Init => TrackInv
  <1> SUFFICES ASSUME Init PROVE TrackInv
    OBVIOUS
  <1>1. NoGap /\ RanJudged
    BY DEF Init, NoGap, RanJudged
  <1>2. Phase
    BY DEF Init, Phase, Resting, Awaits, NoAnswerIn
  <1>3. RegAgree /\ LastAgree /\ WaitsForPrepare /\ SentIs
    BY DEF Init, RegAgree, LastAgree, WaitsForPrepare, SentIs
  <1> QED BY <1>1, <1>2, <1>3 DEF TrackInv

\* The client sends a command.
LEMMA ClientSendTrack ==
  ASSUME IInv, TrackInv, NEW r \in Requests, ClientSend(r)
  PROVE  TrackInv'
  <1> DEFINE m == [type |-> r.type, wf |-> r.wf, stmt |-> r.stmt, bound |-> r.bound,
                   sql |-> r.sql, db |-> r.db, id |-> Len(sent) + 1]
  <1>1. /\ open /\ sent' = Append(sent, m) /\ c2p' = Append(c2p, m) /\ Len(sent) < MaxSent
        /\ UNCHANGED <<delivered, p2b, b2p, database, lifecycle, response, registry, txActive,
                       closing, open, task, server>>
    BY DEF ClientSend
  <1>2. sent \in Seq(Message) /\ c2p \in Seq(Message) /\ Len(sent) \in Nat /\ Len(c2p) \in Nat
    BY DEF IInv, Core, StreamTyped
  <1>3. m \in Message /\ m.id = Len(sent) + 1
    BY <1>1, <1>2, BoundsAssumption, RequestsAssumption DEF Message, Request, Ids
  <1> HIDE DEF m
  <1>4. /\ Len(sent') = Len(sent) + 1 /\ Len(c2p') = Len(c2p) + 1
        /\ \A i \in 1..Len(sent) : sent'[i] = sent[i]
        /\ sent'[Len(sent) + 1] = m
        /\ \A i \in 1..Len(c2p) : c2p'[i] = c2p[i]
        /\ c2p'[Len(c2p) + 1] = m
    BY <1>1, <1>2, <1>3, AppendFacts
  <1>5. /\ UNCHANGED <<pendingDb, pendingSql, pendingId, metadata, pendingPing, pendingReset>>
        /\ UNCHANGED <<pendingCmd, stage, columns, statements, lastId>>
        /\ UNCHANGED <<pc, cur, verdict, judged, audited>>
        /\ UNCHANGED <<bStmts, bLast, executed>>
    BY <1>1 DEF lifecycle, response, registry, task, server
  <1>6. Phase /\ RegAgree /\ LastAgree /\ WaitsForPrepare /\ SentIs /\ NoGap /\ RanJudged
    BY <1>1 DEF TrackInv
  <1>7. Phase'
    BY <1>1, <1>5, <1>6 DEF Phase, Resting, Weighing, Asked, AskedAt, Answering, Awaits, Refusing,
        Aside, Fits, PrepareFits, Expects, RunsJudged, Target, NoAnswerIn, OnlyQuits, HasAnswer, Runs
  <1>8. RegAgree' /\ LastAgree' /\ WaitsForPrepare'
    BY <1>1, <1>5, <1>6 DEF RegAgree, LastAgree, WaitsForPrepare
  <1>9. NoGap' /\ RanJudged'
    BY <1>5, <1>6 DEF NoGap, RanJudged
  <1>10. \A i \in 1..Len(sent) : i \in 1..Len(sent') /\ sent'[i] = sent[i]
    BY <1>2, <1>4
  <1>11. ASSUME NEW q, IsSent(q) PROVE q.id \in 1..Len(sent') /\ sent'[q.id] = q
    BY <1>10, <1>11 DEF IsSent
  <1>12. ASSUME NEW i \in 1..Len(c2p') PROVE c2p'[i].id \in 1..Len(sent') /\ sent'[c2p'[i].id] = c2p'[i]
    <2>1. CASE i \in 1..Len(c2p)
      BY <1>4, <1>6, <1>11, <2>1 DEF SentIs
    <2>2. CASE i = Len(c2p) + 1
      BY <1>2, <1>3, <1>4, <2>2
    <2> QED BY <1>2, <1>4, <2>1, <2>2
  <1>13. SentIs'
    <2>1. \A i \in 1..Len(p2b') : IsSent(p2b[i])'
      BY <1>1, <1>6, <1>11 DEF SentIs, IsSent
    <2>2. pc' # "read" => IsSent(cur[1])'
      BY <1>5, <1>6, <1>11 DEF SentIs, IsSent
    <2>3. \A i \in 1..Len(c2p') : IsSent(c2p[i])'
      BY <1>12 DEF IsSent
    <2>4. \A i \in 1..Len(b2p') : /\ b2p'[i].id \in 1..Len(sent')
                                  /\ HasAnswer(sent'[b2p'[i].id]) /\ sent'[b2p'[i].id].type # "OTHER"
      BY <1>1, <1>6, <1>10 DEF SentIs
    <2> QED BY <2>1, <2>2, <2>3, <2>4 DEF SentIs, HasAnswer
  <1> QED BY <1>7, <1>8, <1>9, <1>13 DEF TrackInv

\* Commands that are forwarded or refused without a judgement.
LEMMA PassingTrack ==
  ASSUME IInv, TrackInv,
         \/ BlockedByPending \/ HandleInitDb \/ HandleQuit \/ HandlePing \/ HandlePrepare
         \/ HandleClose \/ HandleReset \/ HandleStateError
  PROVE  TrackInv'
  <1>0. PICK m : m = Head(c2p)
    OBVIOUS
  <1>1. /\ open /\ c2p # <<>> /\ c2p' = Tail(c2p) /\ pc = "read"
        /\ UNCHANGED <<sent, b2p, database, txActive, open, task, server, response>>
    BY DEF BlockedByPending, HandleInitDb, HandleQuit, HandlePing, HandlePrepare,
           HandleClose, HandleReset, HandleStateError, Command
  <1>2. Phase /\ RegAgree /\ LastAgree /\ WaitsForPrepare /\ SentIs /\ NoGap /\ RanJudged
    BY <1>1 DEF TrackInv
  <1>3. m \in Message /\ IsSent(m) /\ m.stmt \in Ids \cup {LAST} /\ m.sql \in SQL /\ m.db \in Databases
    <2>1. m \in Message /\ IsSent(m)
      BY <1>0, <1>1, <1>2, HeadsSent
    <2> QED BY <2>1 DEF Message
  <1>4. /\ UNCHANGED <<pc, cur, verdict, judged, audited>>
        /\ UNCHANGED <<pendingCmd, stage, columns>>
        /\ UNCHANGED <<bStmts, bLast, executed>> /\ OlderJudged
    BY <1>1 DEF task, response, server, OlderJudged
  <1>5. NoGap' /\ RanJudged' /\ WaitsForPrepare' /\ Aside' /\ pc' = "read"
    BY <1>1, <1>2, <1>4 DEF NoGap, RanJudged, WaitsForPrepare, Aside
  <1>6. ASSUME UNCHANGED p2b \/ p2b' = Append(p2b, m) PROVE SentIs'
    BY <1>1, <1>2, <1>3, <1>5, <1>6, SentKept
  <1>7. ASSUME ~HasPending PROVE Resting /\ Awaits("nothing") /\ NoAnswerIn(p2b) /\ b2p' = <<>>
    BY <1>1, <1>2, <1>7, PhaseFacts DEF Resting
  <1>8. ~Weighing
    BY <1>1 DEF Weighing
  <1>9. ASSUME UNCHANGED <<lifecycle, registry>>,
               UNCHANGED p2b \/ (m.type = "QUIT" /\ p2b' = Append(p2b, m))
        PROVE  TrackInv'
    <2>0. UNCHANGED <<pendingDb, pendingSql, pendingId, metadata, pendingPing, pendingReset>>
          /\ UNCHANGED <<statements, lastId>>
      BY <1>9 DEF lifecycle, registry
    <2>1. Phase'
      <3>1. CASE Asked \/ Answering
        BY <1>1, <1>3, <1>4, <1>5, <1>9, <2>0, <3>1, AsideKept
      <3>2. CASE Resting
        <4>1. NoAnswerIn(p2b) /\ b2p' = <<>> /\ Awaits("nothing")'
          BY <1>1, <1>4, <2>0, <3>2 DEF Resting, Awaits
        <4>2. m.type = "QUIT" => ~HasAnswer(m)
          BY DEF HasAnswer
        <4> QED BY <1>3, <1>5, <1>9, <4>1, <4>2, RestKept
      <3> QED BY <1>2, <1>8, <3>1, <3>2 DEF Phase
    <2>2. RegAgree'
      BY <1>2, <1>3, <1>4, <1>9, <2>0, RegKept
    <2>3. LastAgree'
      BY <1>2, <1>4, <2>0 DEF LastAgree
    <2> QED BY <1>5, <1>6, <1>9, <2>1, <2>2, <2>3 DEF TrackInv
  <1>10. CASE BlockedByPending
    BY <1>9, <1>10 DEF BlockedByPending
  <1>11. CASE HandleStateError
    BY <1>9, <1>11 DEF HandleStateError
  <1>12. CASE HandleQuit
    BY <1>0, <1>9, <1>12 DEF HandleQuit, Command, Forward
  <1>13. ASSUME ~HasPending, p2b' = Append(p2b, m), HasAnswer(m), Expects(m)',
                UNCHANGED <<statements, lastId>>, pendingSql' = None => pendingSql = None,
                m.type # "CLOSE"
         PROVE  TrackInv'
    <2>1. Phase'
      BY <1>3, <1>5, <1>7, <1>13, Ask
    <2>2. RegAgree'
      BY <1>2, <1>3, <1>4, <1>13, RegKept
    <2>3. LastAgree'
      BY <1>2, <1>4, <1>13 DEF LastAgree
    <2> QED BY <1>5, <1>6, <1>13, <2>1, <2>2, <2>3 DEF TrackInv
  <1>14. ASSUME m.type # "QUIT", m.type # "EXECUTE", MayDispatch(m) PROVE ~HasPending
    BY <1>14 DEF MayDispatch, PipelinedExecute
  <1>15. CASE HandleInitDb
    <2>1. /\ m.type = "INIT_DB" /\ MayDispatch(m) /\ p2b' = Append(p2b, m) /\ pendingDb' = m.db
          /\ UNCHANGED <<pendingSql, pendingId, metadata, pendingPing, pendingReset, statements, lastId>>
      BY <1>0, <1>15 DEF HandleInitDb, Command, Forward, registry
    <2>2. ~HasPending
      BY <1>14, <2>1
    <2>3. Expects(m)'
      <3>1. pendingDb' # None
        BY <1>3, <2>1, TextsAssumption
      <3>2. Awaits("database")'
        BY <1>4, <1>7, <2>1, <2>2, <3>1 DEF Awaits
      <3> QED BY <2>1, <3>2 DEF Expects
    <2> QED BY <1>13, <2>1, <2>2, <2>3 DEF HasAnswer
  <1>16. CASE HandlePing
    <2>1. /\ m.type = "PING" /\ MayDispatch(m) /\ p2b' = Append(p2b, m) /\ pendingPing' = TRUE
          /\ UNCHANGED <<pendingSql, pendingId, metadata, pendingDb, pendingReset, statements, lastId>>
      BY <1>0, <1>16 DEF HandlePing, Command, Forward, registry
    <2>2. ~HasPending
      BY <1>14, <2>1
    <2>3. Expects(m)'
      <3>2. Awaits("ping")'
        BY <1>4, <1>7, <2>1, <2>2 DEF Awaits
      <3> QED BY <2>1, <3>2 DEF Expects
    <2> QED BY <1>13, <2>1, <2>2, <2>3 DEF HasAnswer
  <1>17. CASE HandleReset
    <2>1. /\ m.type = "RESET" /\ MayDispatch(m) /\ p2b' = Append(p2b, m) /\ pendingReset' = m.stmt
          /\ UNCHANGED <<pendingSql, pendingId, metadata, pendingDb, pendingPing, statements, lastId>>
      BY <1>0, <1>17 DEF HandleReset, Command, Forward, registry
    <2>2. ~HasPending
      BY <1>14, <2>1
    <2>3. Expects(m)'
      <3>1. pendingReset' # None
        BY <1>3, <2>1, NoneAssumption
      <3>2. Awaits("reset")'
        BY <1>4, <1>7, <2>1, <2>2, <3>1 DEF Awaits
      <3> QED BY <2>1, <3>2 DEF Expects
    <2> QED BY <1>13, <2>1, <2>2, <2>3 DEF HasAnswer
  <1>18. CASE HandlePrepare
    <2>1. /\ m.type = "PREPARE" /\ MayDispatch(m) /\ p2b' = Append(p2b, m)
          /\ pendingSql' = m.sql /\ pendingId' = None
          /\ UNCHANGED <<pendingDb, pendingPing, pendingReset, statements, lastId>>
      BY <1>0, <1>18 DEF HandlePrepare, Command, Forward
    <2>2. ~HasPending
      BY <1>14, <2>1
    <2>3. pendingSql' # None
      BY <1>3, <2>1, TextsAssumption
    <2>4. Expects(m)'
      <3>2. Awaits("prepare")'
        BY <1>4, <1>7, <2>1, <2>2, <2>3 DEF Awaits
      <3> QED BY <2>1, <3>2 DEF Expects
    <2> QED BY <1>13, <2>1, <2>2, <2>3, <2>4 DEF HasAnswer
  <1>19. CASE HandleClose
    <2>1. /\ m.type = "CLOSE" /\ MayDispatch(m) /\ p2b' = Append(p2b, m)
          /\ statements' = [i \in Ids |-> IF i = m.stmt THEN None ELSE statements[i]]
          /\ lastId' = IF lastId = m.stmt THEN None ELSE lastId
          /\ UNCHANGED <<pendingDb, pendingSql, pendingId, metadata, pendingPing, pendingReset>>
      BY <1>0, <1>19 DEF HandleClose, Command, Forward, lifecycle
    <2>2. ~HasPending
      BY <1>14, <2>1
    <2>3. Phase'
      <3>1. Awaits("nothing")' /\ ~HasAnswer(m)
        BY <1>4, <1>7, <2>1, <2>2 DEF Awaits, HasAnswer
      <3> QED BY <1>3, <1>5, <1>7, <2>1, <2>2, <3>1, RestKept
    <2>4. \A i \in Ids : /\ statements'[i] # None => i # m.stmt /\ statements'[i] = statements[i]
                         /\ i = m.stmt => statements'[i] = None
                         /\ i # m.stmt => statements'[i] = statements[i]
      BY <2>1
    <2>5. RegAgree'
      BY <1>2, <1>3, <1>4, <2>1, <2>4, RegKept
    <2>6. LastAgree'
      <3>1. lastId \in Ids \cup {None}
        BY DEF IInv, TypeOK, RegistryTyped
      <3> QED BY <1>2, <1>4, <2>1, <2>4, <3>1 DEF LastAgree
    <2> QED BY <1>5, <1>6, <2>1, <2>3, <2>5, <2>6 DEF TrackInv
  <1> QED BY <1>10, <1>11, <1>12, <1>15, <1>16, <1>17, <1>18, <1>19

\* A command is judged: besides the phase nothing is disturbed.
LEMMA JudgeFrame ==
  ASSUME IInv, TrackInv, open, Mode # "permissive",
         NEW m \in Message, IsSent(m), m.id > Left, NEW v, NEW q, JudgesCurrent(m, v, q),
         UNCHANGED c2p \/ (c2p # <<>> /\ c2p' = Tail(c2p)),
         UNCHANGED <<sent, p2b, b2p, lifecycle, registry, server>>,
         (OlderJudged /\ judged'[m.id] = q /\ verdict'[m.id] = v /\ cur'[1] = m) => Phase'
  PROVE  TrackInv'
  <1>1. /\ UNCHANGED <<pendingDb, pendingSql, pendingId, metadata, pendingPing, pendingReset>>
        /\ UNCHANGED <<statements, lastId>> /\ UNCHANGED <<bStmts, bLast, executed>>
    BY DEF lifecycle, registry, server
  <1>2. Phase /\ RegAgree /\ LastAgree /\ WaitsForPrepare /\ SentIs /\ NoGap /\ RanJudged
    BY DEF TrackInv
  <1>3. /\ OlderJudged /\ NoGap' /\ RanJudged'
        /\ judged'[m.id] = q /\ verdict'[m.id] = v /\ cur'[1] = m
    BY <1>1, <1>2, JudgedOlder
  <1>4. RegAgree'
    BY <1>1, <1>2, RegKept
  <1>5. LastAgree' /\ WaitsForPrepare'
    BY <1>1, <1>2 DEF LastAgree, WaitsForPrepare, JudgesCurrent
  <1>6. SentIs'
    BY <1>2, <1>3, SentKept
  <1> QED BY <1>3, <1>4, <1>5, <1>6 DEF TrackInv

\* A command is inspected, or inspected further.
LEMMA WeighStep ==
  ASSUME IInv, TrackInv, open, Mode # "permissive",
         NEW m \in Message, IsSent(m), m.id > Left, NEW v, NEW q, JudgesCurrent(m, v, q),
         UNCHANGED c2p \/ (c2p # <<>> /\ c2p' = Tail(c2p)),
         UNCHANGED <<sent, p2b, b2p, lifecycle, registry, server>>,
         Awaits("nothing") \/ Awaits("command"), NoAnswerIn(p2b), b2p = <<>>,
         pendingCmd' = TRUE /\ stage' = "initial" /\ columns' = 0, Runs(m),
         m.type = "QUERY" => q = m.sql,
         m.type = "EXECUTE" => /\ Target(m) \in Ids /\ statements[Target(m)] # None
                               /\ statements[Target(m)].sql = q
  PROVE  TrackInv'
  <1>1. /\ UNCHANGED <<pendingDb, pendingSql, pendingId, metadata, pendingPing, pendingReset>>
        /\ UNCHANGED <<statements, lastId>>
    BY DEF lifecycle, registry
  <1>2. Awaits("command")' /\ stage' = "initial" /\ columns' = 0
    BY <1>1 DEF Awaits
  <1>3. NoAnswerIn(p2b)' /\ b2p' = <<>> /\ pc' \in {"estimate", "confirm", "audit"}
    BY DEF NoAnswerIn, HasAnswer, JudgesCurrent
  <1>4. ASSUME judged'[m.id] = q, cur'[1] = m PROVE Phase'
    <2>1. Runs(cur[1])' /\ RunsJudged(cur[1])'
      BY <1>1, <1>4 DEF Runs, RunsJudged, Target
    <2> QED BY <1>2, <1>3, <2>1 DEF Phase, Weighing
  <1> QED BY <1>4, JudgeFrame

\* A command is found to be refused, at rest or behind a PREPARE, or it has no
\* command code.
LEMMA RefuseStep ==
  ASSUME IInv, TrackInv, open, Mode # "permissive",
         NEW m \in Message, IsSent(m), m.id > Left, NEW v \in Refused, NEW q,
         JudgesCurrent(m, v, q), pc' = "audit",
         UNCHANGED c2p \/ (c2p # <<>> /\ c2p' = Tail(c2p)),
         UNCHANGED <<sent, p2b, b2p, lifecycle, response, registry, server>>,
         Resting \/ ((Asked \/ Answering) /\ (Runs(m) => Awaits("prepare")))
  PROVE  TrackInv'
  <1>1. /\ UNCHANGED <<pendingDb, pendingSql, pendingId, metadata, pendingPing, pendingReset>>
        /\ UNCHANGED <<statements, lastId, pendingCmd>> /\ UNCHANGED <<bStmts, bLast>>
    BY DEF lifecycle, registry, response, server
  <1>2. ASSUME OlderJudged, verdict'[m.id] = v, cur'[1] = m PROVE Phase'
    <2>1. Refusing'
      BY <1>2 DEF Refusing
    <2>2. CASE Resting
      <3>1. NoAnswerIn(p2b) /\ b2p' = <<>> /\ Awaits("nothing")'
        BY <1>1, <2>2 DEF Resting, Awaits
      <3> QED BY <2>1, <3>1, RestKept
    <2>3. CASE (Asked \/ Answering) /\ (Runs(m) => Awaits("prepare"))
      <3>1. Aside'
        BY <1>1, <1>2, <2>1, <2>3 DEF Aside, Awaits, Runs
      <3> QED BY <1>1, <1>2, <2>3, <3>1, AsideKept
    <2> QED BY <2>2, <2>3
  <1> QED BY <1>2, JudgeFrame

\* Outside permissive mode a gap is a refusal.
LEMMA GapRefuses ==
  ASSUME NEW m, NEW sql \in SQL \cup {None}, ProtocolGap(m, sql), Mode # "permissive"
  PROVE  pc' = "audit" /\ \E v \in Refused : JudgesCurrent(m, v, sql)
  <1>1. PICK v : JudgesCurrent(m, v, sql)
    BY GapJudges
  <1>2. EvaluateProtocolGap(Mode) # "ALLOW"
    BY ConfigAssumption DEF EvaluateProtocolGap, FailSafeMode
  <1>3. pc' = "audit" /\ cur' = <<m>> /\ Judge(m, "BLOCKED_PROTOCOL_GAP", sql)
    BY <1>2 DEF ProtocolGap
  <1>4. "BLOCKED_PROTOCOL_GAP" \in Refused
    BY DEF Refused
  <1>5. JudgesCurrent(m, "BLOCKED_PROTOCOL_GAP", sql)
    BY <1>3, <1>4 DEF JudgesCurrent, Final, Verdicts
  <1> QED BY <1>3, <1>4, <1>5

\* An EXECUTE is refused unseen, or judged on the text of its statement.
LEMMA ExecuteOutcome ==
  ASSUME TypeOK, NEW m \in Message, ExecuteStatement(m), Mode # "permissive"
  PROVE  \E v, q :
           /\ JudgesCurrent(m, v, q)
           /\ \/ UNCHANGED response /\ pc' = "audit" /\ v \in Refused
              \/ /\ BeginCommandResponse
                 /\ Target(m) \in Ids /\ statements[Target(m)] # None
                 /\ statements[Target(m)].sql = q
  <1> DEFINE s == IF Target(m) = None THEN None ELSE statements[Target(m)]
  <1>1. CASE ProtocolGap(m, None) /\ UNCHANGED response
    BY <1>1, GapRefuses
  <1>2. CASE /\ s # None /\ BeginCommandResponse
             /\ \/ ProtocolGap(m, s.sql)
                \/ Inspect(m, s.sql)
                \/ EvaluateAndDecide(m, s.sql, NoRows, TRUE)
    <2>1. Target(m) \in Ids
      <3>1. m.stmt \in Ids \cup {LAST}
        BY DEF Message
      <3> QED BY <1>2, <3>1 DEF Target, TypeOK, RegistryTyped
    <2>2. statements[Target(m)] \in Entries /\ s = statements[Target(m)]
      BY <1>2, <2>1 DEF TypeOK, RegistryTyped
    <2>3. s.sql \in SQL
      BY <2>2 DEF Entries
    <2> HIDE DEF s
    <2>4. NoRows \in Int
      BY DEF NoRows
    <2>5. PICK v : JudgesCurrent(m, v, s.sql)
      BY <1>2, <2>3, <2>4, GapJudges, InspectJudges, PolicyJudges
    <2> QED BY <1>2, <2>1, <2>2, <2>5
  <1> QED BY <1>1, <1>2 DEF ExecuteStatement

\* Commands that are judged, or wait for the PREPARE before them.
LEMMA JudgingTrack ==
  ASSUME IInv, TrackInv, Mode # "permissive", HandleProtocolGap \/ HandleQuery \/ HandleExecute
  PROVE  TrackInv'
  <1>0. PICK m : m = Head(c2p)
    OBVIOUS
  <1>1. /\ open /\ c2p # <<>> /\ c2p' = Tail(c2p) /\ pc = "read"
        /\ UNCHANGED <<sent, delivered, p2b, b2p, database, lifecycle, registry, txActive,
                       closing, open, audited, server>>
    BY DEF HandleProtocolGap, HandleQuery, HandleExecute, Command
  <1>2. Phase /\ RegAgree /\ LastAgree /\ WaitsForPrepare /\ SentIs /\ NoGap /\ RanJudged
    BY <1>1 DEF TrackInv
  <1>3. m \in Message /\ IsSent(m) /\ m.sql \in SQL
    <2>1. m \in Message /\ IsSent(m)
      BY <1>0, <1>1, <1>2, HeadsSent
    <2> QED BY <2>1 DEF Message
  <1>4. m.id > Left
    <2>1. m.id = Taken + 1 /\ Taken \in Int
      BY <1>0, <1>1, TakeStep DEF IInv, Core
    <2> QED BY <1>1, <2>1 DEF Left
  <1>5. ~Weighing
    BY <1>1 DEF Weighing
  <1>6. ASSUME ~HasPending PROVE Resting /\ Awaits("nothing") /\ NoAnswerIn(p2b) /\ b2p = <<>>
    BY <1>2, <1>6, PhaseFacts DEF Resting
  <1>7. ASSUME m.type # "QUIT", MayDispatch(m), HasPending
        PROVE  PipelinedExecute(m) /\ Awaits("prepare") /\ (Asked \/ Answering)
    <2>1. PipelinedExecute(m)
      BY <1>7 DEF MayDispatch
    <2>2. pendingSql # None
      BY <2>1 DEF PipelinedExecute
    <2> QED BY <1>2, <2>1, <2>2, PhaseFacts
  <1>8. CASE HandleProtocolGap
    <2>1. ProtocolGap(m, None) /\ UNCHANGED response
      BY <1>0, <1>8 DEF HandleProtocolGap
    <2>2. m.type = "EMPTY" \/ (m.type # "QUIT" /\ MayDispatch(m))
      BY <1>0, <1>8 DEF HandleProtocolGap, Command
    <2>3. pc' = "audit" /\ \E v \in Refused : JudgesCurrent(m, v, None)
      BY <2>1, GapRefuses
    <2>4. PICK v \in Refused : JudgesCurrent(m, v, None)
      BY <2>3
    <2>5. Resting \/ ((Asked \/ Answering) /\ (Runs(m) => Awaits("prepare")))
      <3>1. CASE m.type = "EMPTY"
        BY <1>2, <1>5, <3>1 DEF Phase, Runs
      <3>2. CASE m.type # "QUIT" /\ MayDispatch(m)
        BY <1>6, <1>7, <3>2
      <3> QED BY <2>2, <3>1, <3>2
    <2> QED BY <1>1, <1>3, <1>4, <2>1, <2>3, <2>4, <2>5, RefuseStep
  <1>9. CASE HandleQuery
    <2>1. m.type = "QUERY" /\ BeginCommandResponse /\ Inspect(m, m.sql) /\ MayDispatch(m)
      BY <1>0, <1>9 DEF HandleQuery, Command
    <2>2. ~HasPending
      BY <2>1 DEF MayDispatch, PipelinedExecute
    <2>3. PICK v : JudgesCurrent(m, v, m.sql)
      BY <1>3, <2>1, InspectJudges
    <2>4. pendingCmd' = TRUE /\ stage' = "initial" /\ columns' = 0 /\ Runs(m)
      BY <2>1 DEF BeginCommandResponse, Runs
    <2> QED BY <1>1, <1>3, <1>4, <1>6, <2>1, <2>2, <2>3, <2>4, WeighStep
  <1>10. CASE HandleExecute
    <2>1. m.type = "EXECUTE" /\ MayDispatch(m)
      BY <1>0, <1>10 DEF HandleExecute, Command
    <2>2. CASE /\ PipelinedExecute(m) /\ pc' = "wait" /\ cur' = <<m>>
               /\ UNCHANGED <<verdict, judged, response>>
      <3>1. Awaits("prepare") /\ (Asked \/ Answering)
        <4>1. pendingSql # None
          BY <2>2 DEF PipelinedExecute
        <4> QED BY <1>2, <4>1, PhaseFacts
      <3>2. /\ UNCHANGED <<pendingDb, pendingSql, pendingId, metadata, pendingPing, pendingReset>>
            /\ UNCHANGED <<statements, lastId, pendingCmd>> /\ UNCHANGED <<bStmts, bLast, executed>>
        BY <1>1, <2>2 DEF lifecycle, registry, response, server
      <3>3. Aside' /\ OlderJudged /\ cur'[1] = m
        BY <2>2, <3>1, <3>2 DEF Aside, Awaits, OlderJudged
      <3>4. Phase'
        BY <1>1, <2>2, <3>1, <3>2, <3>3, AsideKept
      <3>5. RegAgree'
        BY <1>1, <1>2, <3>2, RegKept
      <3>6. LastAgree' /\ WaitsForPrepare' /\ NoGap' /\ RanJudged'
        BY <1>2, <2>1, <2>2, <3>2, <3>3 DEF LastAgree, WaitsForPrepare, NoGap, RanJudged
      <3>7. SentIs'
        BY <1>1, <1>2, <1>3, <3>3, SentKept
      <3> QED BY <3>4, <3>5, <3>6, <3>7 DEF TrackInv
    <2>3. CASE ~PipelinedExecute(m) /\ ExecuteStatement(m)
      <3>1. ~HasPending
        BY <2>1, <2>3 DEF MayDispatch
      <3>2. PICK v, q :
              /\ JudgesCurrent(m, v, q)
              /\ \/ UNCHANGED response /\ pc' = "audit" /\ v \in Refused
                 \/ /\ BeginCommandResponse
                    /\ Target(m) \in Ids /\ statements[Target(m)] # None
                    /\ statements[Target(m)].sql = q
        BY <1>3, <2>3, ExecuteOutcome DEF IInv
      <3>3. CASE UNCHANGED response /\ pc' = "audit" /\ v \in Refused
        BY <1>1, <1>3, <1>4, <1>6, <3>1, <3>2, <3>3, RefuseStep
      <3>4. CASE /\ BeginCommandResponse
                 /\ Target(m) \in Ids /\ statements[Target(m)] # None
                 /\ statements[Target(m)].sql = q
        <4>1. pendingCmd' = TRUE /\ stage' = "initial" /\ columns' = 0 /\ Runs(m)
          BY <2>1, <3>4 DEF BeginCommandResponse, Runs
        <4> QED BY <1>1, <1>3, <1>4, <1>6, <2>1, <3>1, <3>2, <3>4, <4>1, WeighStep
      <3> QED BY <3>2, <3>3, <3>4
    <2> QED BY <1>0, <1>10, <2>2, <2>3 DEF HandleExecute
  <1> QED BY <1>8, <1>9, <1>10

\* The handler goes on: after the PREPARE, the estimate or the confirmation.
LEMMA ResumingTrack ==
  ASSUME IInv, TrackInv, Mode # "permissive", ResumeExecute \/ EstimateDone \/ UserDecides
  PROVE  TrackInv'
  <1>0. PICK m : m = cur[1]
    OBVIOUS
  <1>1. /\ open /\ pc \in {"wait", "estimate", "confirm"}
        /\ UNCHANGED <<sent, c2p, p2b, b2p, database, lifecycle, registry, txActive,
                       closing, open, audited, server>>
    BY DEF ResumeExecute, EstimateDone, UserDecides
  <1>2. Phase /\ RegAgree /\ LastAgree /\ WaitsForPrepare /\ SentIs /\ NoGap /\ RanJudged
    BY <1>1 DEF TrackInv
  <1>3. m \in Message /\ IsSent(m) /\ m.id \in Ids
    <2>1. m \in Message /\ IsSent(m)
      BY <1>0, <1>1, <1>2, HeadsSent
    <2> QED BY <2>1 DEF Message
  <1>4. m.id > Left
    <2>1. m.id = Taken /\ Taken \in Int
      BY <1>0, <1>1 DEF IInv, Core, CurrentIsLast, StreamTyped, Taken
    <2> QED BY <1>1, <2>1 DEF Left
  <1>5. CASE ResumeExecute
    <2>1. pc = "wait" /\ pendingSql = None
      BY <1>5 DEF ResumeExecute
    <2>2. m.type = "EXECUTE"
      BY <1>0, <1>2, <2>1 DEF WaitsForPrepare
    <2>3. Resting /\ Awaits("nothing") /\ NoAnswerIn(p2b) /\ b2p = <<>>
      <3>1. ~Aside /\ ~Weighing
        BY <2>1 DEF Aside, Refusing, Weighing, Awaits
      <3>2. Resting
        BY <1>2, <3>1 DEF Phase, Asked, Answering
      <3> QED BY <3>2 DEF Resting
    <2>4. CASE pc' = "read" /\ UNCHANGED <<verdict, judged, response>>
      <3>1. /\ UNCHANGED <<pendingDb, pendingSql, pendingId, metadata, pendingPing, pendingReset>>
            /\ UNCHANGED <<statements, lastId, pendingCmd>> /\ UNCHANGED <<bStmts, bLast, executed>>
        BY <1>1, <2>4 DEF lifecycle, registry, response, server
      <3>2. b2p' = <<>> /\ Awaits("nothing")'
        BY <1>1, <2>3, <3>1 DEF Awaits
      <3>3. Phase'
        BY <1>1, <2>3, <2>4, <3>2, RestKept
      <3>4. RegAgree'
        BY <1>1, <1>2, <3>1, RegKept
      <3>5. LastAgree' /\ WaitsForPrepare' /\ NoGap' /\ RanJudged'
        BY <1>2, <2>4, <3>1 DEF LastAgree, WaitsForPrepare, NoGap, RanJudged
      <3>6. SentIs'
        BY <1>1, <1>2, <2>4, SentKept
      <3> QED BY <3>3, <3>4, <3>5, <3>6 DEF TrackInv
    <2>5. CASE ExecuteStatement(m)
      <3>2. PICK v, q :
              /\ JudgesCurrent(m, v, q)
              /\ \/ UNCHANGED response /\ pc' = "audit" /\ v \in Refused
                 \/ /\ BeginCommandResponse
                    /\ Target(m) \in Ids /\ statements[Target(m)] # None
                    /\ statements[Target(m)].sql = q
        BY <1>3, <2>5, ExecuteOutcome DEF IInv
      <3>3. CASE UNCHANGED response /\ pc' = "audit" /\ v \in Refused
        BY <1>1, <1>3, <1>4, <2>3, <3>2, <3>3, RefuseStep
      <3>4. CASE /\ BeginCommandResponse
                 /\ Target(m) \in Ids /\ statements[Target(m)] # None
                 /\ statements[Target(m)].sql = q
        <4>1. pendingCmd' = TRUE /\ stage' = "initial" /\ columns' = 0 /\ Runs(m)
          BY <2>2, <3>4 DEF BeginCommandResponse, Runs
        <4> QED BY <1>1, <1>3, <1>4, <2>2, <2>3, <3>2, <3>4, <4>1, WeighStep
      <3> QED BY <3>2, <3>3, <3>4
    <2> QED BY <1>0, <1>5, <2>4, <2>5 DEF ResumeExecute
  <1>6. ASSUME pc \in {"estimate", "confirm"}, UNCHANGED response,
               NEW v, JudgesCurrent(m, v, judged[m.id])
        PROVE  TrackInv'
    <2>1. Weighing
      BY <1>2, <1>6, PhaseFacts
    <2>2. /\ Awaits("command") /\ NoAnswerIn(p2b) /\ b2p = <<>> /\ Runs(m) /\ RunsJudged(m)
          /\ pendingCmd' = TRUE /\ stage' = "initial" /\ columns' = 0
      <3>1. pendingCmd \in BOOLEAN
        BY DEF IInv, TypeOK, ResponseTyped
      <3> QED BY <1>0, <1>6, <2>1, <3>1 DEF Weighing, response, Awaits
    <2>3. /\ m.type = "QUERY" => judged[m.id] = m.sql
          /\ m.type = "EXECUTE" => /\ Target(m) \in Ids /\ statements[Target(m)] # None
                                   /\ statements[Target(m)].sql = judged[m.id]
      BY <2>2 DEF RunsJudged
    <2>4. PICK q : q = judged[m.id]
      OBVIOUS
    <2>5. JudgesCurrent(m, v, q)
      BY <1>6, <2>4
    <2> QED BY <1>1, <1>3, <1>4, <2>2, <2>3, <2>4, <2>5, WeighStep
  <1>7. CASE EstimateDone
    <2>1. pc = "estimate" /\ UNCHANGED <<delivered, response>>
      BY <1>7 DEF EstimateDone
    <2>2. PICK rows \in RowCounts \cup {NoRows} :
            EvaluateAndDecide(m, judged[m.id], rows, rows = NoRows)
      BY <1>0, <1>7 DEF EstimateDone
    <2>3. rows \in Int /\ (rows = NoRows) \in BOOLEAN
      BY ConfigAssumption DEF NoRows
    <2>4. judged[m.id] \in SQL
      BY <1>0, <2>1 DEF IInv, Core, CurrentIsJudged
    <2>5. PICK v : JudgesCurrent(m, v, judged[m.id])
      BY <2>2, <2>3, <2>4, PolicyJudges
    <2> QED BY <1>6, <2>1, <2>5
  <1>8. CASE UserDecides
    <2>1. pc = "confirm" /\ pc' = "audit" /\ UNCHANGED <<delivered, response, cur, judged>>
      BY <1>8 DEF UserDecides
    <2>2. PICK v \in {"APPROVED_BY_USER", "BLOCKED_BY_USER"} :
            verdict' = [verdict EXCEPT ![m.id] = v]
      BY <1>0, <1>8 DEF UserDecides
    <2>3. v \in Verdicts /\ Final(v) /\ v # "ALLOWED_PROTOCOL_GAP"
      BY <2>2 DEF Verdicts, Final, LetThrough, Refused
    <2>4. judged' = [judged EXCEPT ![m.id] = judged[m.id]] /\ judged[m.id] \in SQL \cup {None}
      BY <1>3, <2>1 DEF IInv, Core, TaskTyped
    <2>5. cur' = <<m>>
      BY <1>0, <2>1, CurrentTyped DEF IInv, Core
    <2>6. JudgesCurrent(m, v, judged[m.id])
      BY <2>1, <2>2, <2>3, <2>4, <2>5 DEF JudgesCurrent, Judge
    <2> QED BY <1>6, <2>1, <2>6
  <1> QED BY <1>5, <1>7, <1>8

\* Setting marks of a registered statement changes no text.
LEMMA MarksKeepText ==
  ASSUME RegistryTyped, NEW t \in Ids, statements[t] \in Entries, NEW e \in Entries,
         e.sql = statements[t].sql, NEW f, f = [statements EXCEPT ![t] = e]
  PROVE  \A i \in Ids : /\ f[i] # None <=> statements[i] # None
                        /\ f[i] # None => f[i].sql = statements[i].sql
  BY NoneAssumption DEF RegistryTyped

\* The audit event is written and the command forwarded or refused.
LEMMA AuditTrack ==
  ASSUME IInv, TrackInv, Mode # "permissive", AuditWritten
  PROVE  TrackInv'
  <1>0. PICK m : m = cur[1]
    OBVIOUS
  <1>1. /\ open /\ pc = "audit" /\ pc' = "read"
        /\ \/ /\ verdict[m.id] \in LetThrough /\ p2b' = Append(p2b, m)
              /\ statements' = AfterForward(m) /\ UNCHANGED <<delivered, response>>
           \/ /\ verdict[m.id] \in Refused /\ UNCHANGED <<p2b, statements>> /\ AfterRefusal(m)
        /\ UNCHANGED <<sent, c2p, b2p, lifecycle, lastId, verdict, judged, server>>
    BY <1>0 DEF AuditWritten, Forward
  <1>2. Phase /\ RegAgree /\ LastAgree /\ WaitsForPrepare /\ SentIs /\ NoGap /\ RanJudged
    BY <1>1 DEF TrackInv
  <1>3. m \in Message /\ IsSent(m) /\ m.id \in Ids
    <2>1. m \in Message /\ IsSent(m)
      BY <1>0, <1>1, <1>2, HeadsSent
    <2> QED BY <2>1 DEF Message
  <1>4. /\ UNCHANGED <<pendingDb, pendingSql, pendingId, metadata, pendingPing, pendingReset>>
        /\ UNCHANGED <<bStmts, bLast, executed>> /\ OlderJudged
    BY <1>1 DEF lifecycle, server, OlderJudged
  <1>5. NoGap' /\ RanJudged' /\ WaitsForPrepare' /\ Aside'
    BY <1>1, <1>2, <1>4 DEF NoGap, RanJudged, WaitsForPrepare, Aside
  <1>6. SentIs'
    BY <1>1, <1>2, <1>3, SentKept
  <1>7. CASE verdict[m.id] \in LetThrough /\ p2b' = Append(p2b, m)
             /\ statements' = AfterForward(m) /\ UNCHANGED response
    <2>1. ~Refusing
      BY <1>0, <1>7 DEF Refusing, LetThrough, Refused
    <2>2. Weighing
      <3>1. ~Aside /\ ~Resting
        BY <1>1, <2>1 DEF Aside, Resting
      <3> QED BY <1>2, <3>1 DEF Phase, Asked, Answering
    <2>3. /\ Awaits("command") /\ stage = "initial" /\ columns = 0
          /\ NoAnswerIn(p2b) /\ b2p = <<>> /\ Runs(m) /\ RunsJudged(m)
      BY <1>0, <2>2 DEF Weighing
    <2>4. \A i \in Ids : /\ statements'[i] # None <=> statements[i] # None
                         /\ statements'[i] # None => statements'[i].sql = statements[i].sql
      <3>1. CASE m.type = "QUERY"
        BY <1>7, <3>1 DEF AfterForward
      <3>2. CASE m.type = "EXECUTE"
        <4>1. PICK t : t = Target(m)
          OBVIOUS
        <4>2. t \in Ids /\ statements[t] \in Entries /\ judged[m.id] # None
          <5>1. t \in Ids /\ statements[t] \in Entries
            BY <2>3, <3>2, <4>1 DEF RunsJudged, IInv, TypeOK, RegistryTyped
          <5>2. statements[t].sql \in SQL /\ statements[t].sql = judged[m.id]
            BY <2>3, <3>2, <4>1, <5>1 DEF RunsJudged, Entries
          <5> QED BY <5>1, <5>2, TextsAssumption
        <4>3. statements' = [statements EXCEPT ![t].types = TRUE, ![t].long = FALSE]
          BY <1>7, <3>2, <4>1, <4>2 DEF AfterForward
        <4>4. PICK e : e = [[statements[t] EXCEPT !.types = TRUE] EXCEPT !.long = FALSE]
          OBVIOUS
        <4>5. e \in Entries /\ e.sql = statements[t].sql
          BY <4>2, <4>4 DEF Entries
        <4>6. statements' = [statements EXCEPT ![t] = e]
          BY <4>2, <4>3, <4>4 DEF IInv, TypeOK, RegistryTyped
        <4> QED BY <4>2, <4>5, <4>6, MarksKeepText DEF IInv, TypeOK
      <3> QED BY <2>3, <3>1, <3>2 DEF Runs
    <2>5. Expects(m)'
      <3>1. RunsJudged(m)'
        BY <1>1, <1>4, <2>3, <2>4 DEF RunsJudged, Target
      <3>2. Awaits("command")' /\ stage' = "initial" /\ columns' = 0
        BY <1>4, <1>7, <2>3 DEF Awaits, response
      <3> QED BY <2>3, <3>1, <3>2 DEF Expects, Runs
    <2>6. Phase'
      <3>1. HasAnswer(m) /\ b2p' = <<>>
        BY <1>1, <2>3 DEF HasAnswer, Runs
      <3> QED BY <1>1, <1>3, <1>7, <2>3, <2>5, <3>1, Ask
    <2>7. RegAgree'
      <3>1. m.type # "CLOSE"
        BY <2>3 DEF Runs
      <3> QED BY <1>2, <1>3, <1>4, <1>7, <2>4, <3>1, RegKept
    <2>8. LastAgree'
      <3>1. lastId \in Ids \cup {None}
        BY DEF IInv, TypeOK, RegistryTyped
      <3> QED BY <1>1, <1>2, <1>4, <2>4, <3>1 DEF LastAgree
    <2> QED BY <1>5, <1>6, <2>6, <2>7, <2>8 DEF TrackInv
  <1>8. CASE verdict[m.id] \in Refused /\ UNCHANGED <<p2b, statements>> /\ AfterRefusal(m)
    <2>1. UNCHANGED response \/ (Runs(m) /\ FailCommandForward)
      BY <1>8 DEF AfterRefusal, Runs
    <2>2. Phase'
      <3>1. CASE Asked \/ Answering
        <4>1. Runs(m) => Awaits("prepare")
          <5>1. Aside
            BY <3>1 DEF Asked, Answering
          <5> QED BY <1>0, <1>1, <5>1 DEF Aside
        <4>2. UNCHANGED response \/ (Awaits("prepare") /\ pendingCmd' = FALSE)
          BY <2>1, <4>1 DEF FailCommandForward
        <4> QED BY <1>1, <1>4, <1>5, <1>8, <3>1, <4>2, AsideKept
      <3>2. CASE Resting
        <4>1. NoAnswerIn(p2b) /\ b2p' = <<>> /\ Awaits("nothing")
          BY <1>1, <3>2 DEF Resting
        <4>2. Awaits("nothing")'
          BY <1>4, <2>1, <4>1 DEF Awaits, response, FailCommandForward
        <4> QED BY <1>1, <1>8, <4>1, <4>2, RestKept
      <3>3. CASE Weighing
        <4>1. NoAnswerIn(p2b) /\ b2p' = <<>> /\ Awaits("command") /\ Runs(m)
          BY <1>0, <1>1, <3>3 DEF Weighing
        <4>2. FailCommandForward
          BY <1>8, <4>1 DEF AfterRefusal, Runs
        <4>3. Awaits("nothing")'
          BY <1>4, <4>1, <4>2 DEF Awaits, FailCommandForward
        <4> QED BY <1>1, <1>8, <4>1, <4>3, RestKept
      <3> QED BY <1>2, <3>1, <3>2, <3>3 DEF Phase
    <2>3. RegAgree'
      BY <1>2, <1>4, <1>8, RegKept
    <2>4. LastAgree'
      BY <1>1, <1>2, <1>4, <1>8 DEF LastAgree
    <2> QED BY <1>5, <1>6, <2>2, <2>3, <2>4 DEF TrackInv
  <1> QED BY <1>1, <1>7, <1>8

\* A connection that is closed tracks nothing any more.
LEMMA ClosedTrack ==
  ASSUME TrackInv, open' = FALSE, UNCHANGED <<verdict, judged, executed>>
  PROVE  TrackInv'
  BY DEF TrackInv, NoGap, RanJudged

\* The tracker of the session follows the places of an answer.
LEMMA TrackFollows ==
  ASSUME ResponseTyped, pendingCmd, NEW p \in Packet, Track(p)
  PROVE  /\ Ends(<<stage, columns>>, p) => FailCommandForward
         /\ \A b : Goes(<<stage, columns>>, p, b) => pendingCmd' /\ b = <<stage', columns'>>
  <1>1. p.marker \in {"ok", "err", "eof", "data"} /\ p.more \in BOOLEAN /\ p.meta \in BOOLEAN /\ p.n \in Nat
    BY DEF Packet
  <1>2. stage \in {"initial", "metadata", "metadata_eof", "rows"} /\ columns \in Nat
    BY DEF ResponseTyped
  <1>3. ASSUME Ends(<<stage, columns>>, p) PROVE FailCommandForward
    BY <1>1, <1>2, <1>3 DEF Ends, Track, Acceptable, FinishOrContinue
  <1>4. ASSUME NEW b, Goes(<<stage, columns>>, p, b) PROVE pendingCmd' /\ b = <<stage', columns'>>
    <2>1. p.marker # "err" /\ Acceptable(p)
      BY <1>1, <1>2, <1>4 DEF Goes, Acceptable
    <2>2. CASE stage = "initial" /\ p.marker = "ok" /\ p.more /\ b = Start
      <3>1. BeginCommandResponse
        BY <2>1, <2>2 DEF Track, FinishOrContinue
      <3> QED BY <2>2, <3>1 DEF BeginCommandResponse, Start
    <2>3. CASE stage = "initial" /\ p.marker = "data" /\ p.n > 0 /\ p.meta /\ b = <<"metadata", p.n>>
      BY <2>1, <2>3 DEF Track
    <2>4. CASE stage = "initial" /\ p.marker = "data" /\ p.n > 0 /\ ~p.meta /\ b = Rows
      BY <2>1, <2>4 DEF Track, AwaitRows, Rows
    <2>5. CASE stage = "metadata" /\ columns = 1 /\ b = Rows
      BY <2>1, <2>5 DEF Track, AwaitRows, Rows
    <2>6. CASE stage = "metadata" /\ columns # 1 /\ b = <<"metadata", columns - 1>>
      BY <2>1, <2>6 DEF Track
    <2>7. CASE stage = "metadata_eof" /\ p.marker = "eof" /\ b = <<"rows", columns>>
      BY <2>1, <2>7 DEF Track
    <2>8. CASE stage = "rows" /\ p.marker = "eof" /\ p.more /\ b = Start
      <3>1. BeginCommandResponse
        BY <2>1, <2>8 DEF Track, FinishOrContinue
      <3> QED BY <2>8, <3>1 DEF BeginCommandResponse, Start
    <2>9. CASE stage = "rows" /\ p.marker \in {"ok", "data"} /\ b = <<stage, columns>>
      BY <2>1, <2>9 DEF Track, response
    <2> QED BY <1>4, <2>2, <2>3, <2>4, <2>5, <2>6, <2>7, <2>8, <2>9 DEF Goes
  <1> QED BY <1>3, <1>4

\* What a step of the backend pump leaves alone.
Relayed == UNCHANGED <<sent, c2p, p2b, task, server>>

\* The last packet of an answer arrives: the session rests.
LEMMA DoneTrack ==
  ASSUME IInv, TrackInv, open, Answering, Relayed, b2p' = Tail(b2p), Len(b2p) = 1,
         Awaits("nothing")', RegAgree', LastAgree'
  PROVE  TrackInv'
  <1>1. /\ WaitsForPrepare /\ SentIs /\ NoGap /\ RanJudged
        /\ UNCHANGED <<sent, c2p, p2b, pc, cur, verdict, judged, bStmts, bLast, executed>>
    BY DEF TrackInv, Relayed, task, server
  <1>2. b2p \in Seq(Packet) /\ b2p # <<>> /\ b2p' = <<>>
    BY DEF Answering, IInv, TypeOK, AnswersTyped
  <1>3. NoAnswerIn(p2b)
    BY DEF Answering, OnlyQuits, NoAnswerIn, HasAnswer
  <1>4. pc' \in {"read", "wait"} \/ Refusing'
    BY <1>1 DEF Answering, Aside, Refusing
  <1>5. Phase'
    BY <1>1, <1>2, <1>3, <1>4, RestKept
  <1>6. pc' # "read" => IsSent(cur'[1])
    BY <1>1 DEF SentIs
  <1>7. SentIs'
    BY <1>1, <1>2, <1>6, SentKept
  <1> QED BY <1>1, <1>5, <1>7 DEF TrackInv, NoGap, RanJudged, WaitsForPrepare

\* A packet arrives and the answer goes on.
LEMMA MoreTrack ==
  ASSUME IInv, TrackInv, open, Answering, Relayed, b2p' = Tail(b2p), b2p' # <<>>,
         Fits(b2p)', Awaits("prepare") => Awaits("prepare")', RegAgree', LastAgree'
  PROVE  TrackInv'
  <1>1. /\ WaitsForPrepare /\ SentIs /\ NoGap /\ RanJudged
        /\ UNCHANGED <<sent, c2p, p2b, pc, cur, verdict, judged, bStmts, bLast, executed>>
    BY DEF TrackInv, Relayed, task, server
  <1>2. Aside'
    BY <1>1 DEF Answering, Aside, Refusing, Runs
  <1>3. OnlyQuits(p2b)'
    BY <1>1 DEF Answering, OnlyQuits
  <1>4. Phase'
    BY <1>2, <1>3 DEF Answering, Phase
  <1>5. pc' # "read" => IsSent(cur'[1])
    BY <1>1 DEF SentIs
  <1>6. b2p # <<>>
    BY DEF Answering
  <1>7. SentIs'
    BY <1>1, <1>5, <1>6, SentKept
  <1> QED BY <1>1, <1>4, <1>7 DEF TrackInv, NoGap, RanJudged, WaitsForPrepare

\* PING, RESET and INIT_DB are acknowledged by one packet.
LEMMA AcknowledgedTrack ==
  ASSUME IInv, TrackInv, open, Answering, RegAgree, LastAgree,
         PingAnswered \/ ResetAnswered \/ DatabaseAnswered
  PROVE  TrackInv'
  <1>1. /\ Relayed /\ b2p' = Tail(b2p)
        /\ UNCHANGED <<pendingSql, pendingCmd, lastId, bLast, bStmts, p2b>>
    BY DEF PingAnswered, ResetAnswered, DatabaseAnswered, Packets, Relayed, response, registry, server
  <1>2. pendingPing \/ pendingReset # None \/ pendingDb # None
    BY DEF PingAnswered, ResetAnswered, DatabaseAnswered
  <1>3. Len(b2p) = 1 /\ (Awaits("ping") \/ Awaits("reset") \/ Awaits("database"))
    <2>1. ~Awaits("prepare") /\ ~Awaits("command")
      BY <1>2 DEF Awaits
    <2> QED BY <2>1 DEF Answering, Fits
  <1>4. Awaits("nothing")'
    <2>1. CASE PingAnswered
      BY <1>1, <1>3, <2>1 DEF PingAnswered, Awaits
    <2>2. CASE ResetAnswered
      BY <1>1, <1>3, <2>2 DEF ResetAnswered, Awaits
    <2>3. CASE DatabaseAnswered
      BY <1>1, <1>3, <2>3 DEF DatabaseAnswered, Awaits
    <2> QED BY <2>1, <2>2, <2>3
  <1>5. \A i \in Ids : /\ statements'[i] # None <=> statements[i] # None
                       /\ statements'[i] # None => statements'[i].sql = statements[i].sql
    <2>1. CASE UNCHANGED statements
      BY <2>1
    <2>2. CASE ResetAnswered /\ statements' # statements
      <3>1. PICK t : t = pendingReset
        OBVIOUS
      <3>2. /\ t \in Ids /\ statements[t] \in Entries
            /\ statements' = [statements EXCEPT ![t].types = FALSE, ![t].long = FALSE]
        BY <2>2, <3>1 DEF ResetAnswered, IInv, Registered, TypeOK, LifecycleTyped
      <3>3. PICK e : e = [[statements[t] EXCEPT !.types = FALSE] EXCEPT !.long = FALSE]
        OBVIOUS
      <3>4. e \in Entries /\ e.sql = statements[t].sql
        BY <3>2, <3>3 DEF Entries
      <3>5. RegistryTyped
        BY DEF IInv, TypeOK
      <3>6. statements' = [statements EXCEPT ![t] = e]
        BY <3>2, <3>3, <3>5 DEF RegistryTyped
      <3>7. PICK f : f = statements'
        OBVIOUS
      <3>8. \A i \in Ids : /\ f[i] # None <=> statements[i] # None
                           /\ f[i] # None => f[i].sql = statements[i].sql
        <4>1. f = [statements EXCEPT ![t] = e]
          BY <3>6, <3>7
        <4>2. t \in Ids /\ statements[t] \in Entries
          BY <3>2
        <4> QED BY ONLY <3>4, <3>5, <4>1, <4>2, MarksKeepText
      <3> QED BY <3>7, <3>8
    <2> QED BY <2>1, <2>2 DEF PingAnswered, ResetAnswered, DatabaseAnswered, registry
  <1>6. RegAgree'
    BY <1>1, <1>5, RegKept
  <1>7. LastAgree'
    <2>1. lastId \in Ids \cup {None}
      BY DEF IInv, TypeOK, RegistryTyped
    <2> QED BY <1>1, <1>5, <2>1 DEF LastAgree
  <1> QED BY <1>1, <1>3, <1>4, <1>6, <1>7, DoneTrack

\* The rest of the packets is what the rest of the list says.
LEMMA MatchesTail ==
  ASSUME NEW S, NEW kinds \in Seq(S), NEW q \in Seq(Packet), Matches(kinds, q), Len(kinds) > 1
  PROVE  Matches(Tail(kinds), Tail(q)) /\ Tail(q) # <<>>
  <1>1. Len(q) = Len(kinds) /\ Len(q) \in Nat /\ Len(kinds) \in Nat /\ kinds # <<>> /\ q # <<>>
    BY DEF Matches
  <1>2. /\ Len(Tail(q)) = Len(q) - 1 /\ Len(Tail(kinds)) = Len(kinds) - 1
        /\ \A i \in 1..Len(q) - 1 : Tail(q)[i] = q[i + 1]
        /\ \A i \in 1..Len(kinds) - 1 : Tail(kinds)[i] = kinds[i + 1]
        /\ Tail(q) \in Seq(Packet)
    BY <1>1, TailFacts
  <1>3. ASSUME NEW i \in 1..Len(Tail(q))
        PROVE  Tail(q)[i].marker # "err" /\ (Tail(kinds)[i] = "eof" => Tail(q)[i].marker = "eof")
    <2>1. i + 1 \in 1..Len(q) /\ Tail(q)[i] = q[i + 1] /\ Tail(kinds)[i] = kinds[i + 1]
      BY <1>1, <1>2
    <2> QED BY <2>1 DEF Matches
  <1>4. Tail(q) # <<>>
    BY <1>1, <1>2
  <1> QED BY <1>1, <1>2, <1>3, <1>4 DEF Matches

\* The answer to a PREPARE.
LEMMA PrepareTrack ==
  ASSUME IInv, TrackInv, open, Answering, RegAgree, LastAgree,
         PrepareFails \/ PrepareAccepted \/ MetadataArrives
  PROVE  TrackInv'
  <1>0. PICK p : p = Head(b2p)
    OBVIOUS
  <1>1. /\ Relayed /\ b2p' = Tail(b2p) /\ pendingSql # None
        /\ UNCHANGED <<pendingDb, pendingPing, pendingReset, pendingCmd, bLast, bStmts, p2b>>
    BY DEF PrepareFails, PrepareAccepted, MetadataArrives, Preparing, Packets, Relayed, response, server
  <1>2. /\ b2p \in Seq(Packet) /\ b2p # <<>> /\ Len(b2p) \in Nat \ {0} /\ p = b2p[1] /\ p \in Packet
        /\ b2p' \in Seq(Packet) /\ Len(b2p') = Len(b2p) - 1
    BY <1>0, <1>1, TailFacts DEF Answering, IInv, TypeOK, AnswersTyped
  <1>3. Awaits("prepare") /\ PrepareFits(b2p)
    <2>1. ~Awaits("ping") /\ ~Awaits("reset") /\ ~Awaits("database") /\ ~Awaits("command")
      BY <1>1 DEF Awaits
    <2> QED BY <2>1 DEF Answering, Fits
  <1>4. pendingSql' = None => Awaits("nothing")'
    BY <1>1, <1>3 DEF Awaits
  <1>5. UNCHANGED pendingSql => Awaits("prepare")'
    BY <1>1, <1>3 DEF Awaits
  <1>6. pendingSql \in SQL /\ OnlyQuits(p2b)
    BY <1>1 DEF IInv, TypeOK, PrepareTyped, Answering
  <1>7. CASE PrepareFails
    <2>1. p.marker = "err"
      BY <1>0, <1>7 DEF PrepareFails
    <2>2. pendingId = None /\ Len(b2p) = 1
      <3>1. CASE pendingId = None /\ Len(b2p) = 1 /\ b2p[1].marker = "err"
        BY <3>1
      <3>2. ~(b2p[1].marker = "ok")
        BY <1>2, <2>1
      <3>3. ~Matches(metadata, b2p)
        <4>1. 1 \in 1..Len(b2p)
          BY <1>2
        <4> QED BY <1>2, <2>1, <4>1 DEF Matches
      <3> QED BY <1>3, <3>1, <3>2, <3>3 DEF PrepareFits
    <2>3. UNCHANGED statements /\ pendingSql' = None /\ lastId' = None
      BY <1>7, <2>2 DEF PrepareFails, FailPrepare
    <2>4. RegAgree'
      BY <1>1, <2>3, RegKept
    <2>5. LastAgree'
      BY <2>3 DEF LastAgree
    <2> QED BY <1>1, <1>4, <2>2, <2>3, <2>4, <2>5, DoneTrack
  <1>8. CASE PrepareAccepted
    <2>1. CASE ~open'
      <3>1. open' = FALSE /\ UNCHANGED <<verdict, judged, executed>>
        BY <1>1, <1>8, <2>1 DEF PrepareAccepted, Relay, Relayed, task, server
      <3> QED BY <3>1, ClosedTrack
    <2>2. CASE open'
      <3>1. PICK t : t = p.stmt
        OBVIOUS
      <3>2. PICK kinds : kinds = MetadataKinds(pendingSql)
        OBVIOUS
      <3>3. /\ pendingId = None /\ p.marker # "err" /\ t # None
            /\ statements' = [statements EXCEPT ![t] = Entry(pendingSql)]
            /\ \/ kinds = <<>> /\ FinishPrepare(t)
               \/ /\ kinds # <<>> /\ pendingId' = t /\ metadata' = kinds
                  /\ UNCHANGED <<pendingSql, lastId, prepFailed>>
        BY <1>0, <1>8, <2>2, <3>1, <3>2 DEF PrepareAccepted, Relay
      <3>4. /\ t \in 1..Len(bStmts) /\ bStmts[t] = pendingSql /\ bLast = t
            /\ Matches(kinds, b2p')
        BY <1>1, <1>2, <1>3, <3>1, <3>2, <3>3 DEF PrepareFits
      <3>5. t \in Ids /\ Entry(pendingSql) \in Entries /\ Entry(pendingSql).sql = pendingSql
        BY <1>2, <1>6, <3>1, <3>3 DEF Packet, Entry, Entries
      <3>6. /\ statements'[t] = Entry(pendingSql) /\ statements'[t] # None
            /\ \A i \in Ids : i # t => statements'[i] = statements[i]
        BY <3>3, <3>5, NoneAssumption DEF IInv, TypeOK, RegistryTyped
      <3>7. RegAgree'
        <4>1. ASSUME NEW i \in Ids, statements'[i] # None
              PROVE  /\ i \in 1..Len(bStmts') /\ bStmts'[i] = statements'[i].sql
                     /\ \A k \in 1..Len(p2b') : ~(p2b'[k].type = "CLOSE" /\ p2b'[k].stmt = i)
          <5>1. i \in 1..Len(bStmts') /\ bStmts'[i] = statements'[i].sql
            BY <1>1, <3>4, <3>5, <3>6, <4>1 DEF RegAgree
          <5>2. \A k \in 1..Len(p2b') : p2b'[k].type = "QUIT"
            BY <1>1, <1>6 DEF OnlyQuits
          <5> QED BY <5>1, <5>2
        <4> QED BY <4>1 DEF RegAgree
      <3>8. CASE kinds = <<>> /\ FinishPrepare(t)
        <4>1. pendingSql' = None /\ lastId' = t
          BY <3>8 DEF FinishPrepare
        <4>2. Len(b2p) = 1
          <5>1. Len(b2p') = 0
            BY <3>4, <3>8 DEF Matches
          <5> QED BY <1>2, <5>1
        <4>3. LastAgree'
          BY <1>1, <3>4, <3>6, <4>1 DEF LastAgree
        <4> QED BY <1>1, <1>4, <3>7, <4>1, <4>2, <4>3, DoneTrack
      <3>9. CASE /\ kinds # <<>> /\ pendingId' = t /\ metadata' = kinds
                 /\ UNCHANGED <<pendingSql, lastId, prepFailed>>
        <4>1. b2p' # <<>>
          <5>1. kinds \in Seq({"definition", "eof"})
            BY <1>6, <3>2, MetadataTyped
          <5>2. Len(kinds) # 0
            BY <3>9, <5>1
          <5> QED BY <3>4, <5>2 DEF Matches
        <4>2. PrepareFits(b2p)'
          BY <1>1, <3>3, <3>4, <3>6, <3>9 DEF PrepareFits
        <4>3. LastAgree'
          BY <1>1, <3>9 DEF LastAgree
        <4>4. Awaits("prepare")'
          BY <1>5, <3>9
        <4>5. Fits(b2p)'
          BY <4>2, <4>4 DEF Fits
        <4> QED BY <1>1, <3>7, <4>1, <4>3, <4>4, <4>5, MoreTrack
      <3> QED BY <3>3, <3>8, <3>9
    <2> QED BY <2>1, <2>2
  <1>9. CASE MetadataArrives
    <2>1. PICK t : t = pendingId
      OBVIOUS
    <2>2. /\ pendingId # None /\ UNCHANGED statements
          /\ \/ Len(metadata) = 1 /\ FinishPrepare(t)
             \/ /\ Len(metadata) > 1 /\ metadata' = Tail(metadata)
                /\ UNCHANGED <<pendingSql, pendingId, lastId, prepFailed>>
      BY <1>9, <2>1 DEF MetadataArrives
    <2>3. bLast = t /\ statements[t] # None /\ Matches(metadata, b2p)
      BY <1>3, <2>1, <2>2 DEF PrepareFits
    <2>4. RegAgree'
      BY <1>1, <2>2, RegKept
    <2>5. CASE Len(metadata) = 1 /\ FinishPrepare(t)
      <3>1. pendingSql' = None /\ lastId' = t /\ Len(b2p) = 1
        BY <2>3, <2>5 DEF FinishPrepare, Matches
      <3>2. LastAgree'
        BY <1>1, <2>2, <2>3, <3>1 DEF LastAgree
      <3> QED BY <1>1, <1>4, <2>4, <3>1, <3>2, DoneTrack
    <2>6. CASE /\ Len(metadata) > 1 /\ metadata' = Tail(metadata)
               /\ UNCHANGED <<pendingSql, pendingId, lastId, prepFailed>>
      <3>1. metadata \in Seq({"definition", "eof"})
        BY DEF IInv, TypeOK, PrepareTyped
      <3>2. Matches(metadata', b2p') /\ b2p' # <<>>
        BY <1>1, <1>2, <2>3, <2>6, <3>1, MatchesTail
      <3>3. PrepareFits(b2p)'
        BY <1>1, <2>1, <2>2, <2>3, <2>6, <3>2 DEF PrepareFits
      <3>4. LastAgree'
        BY <1>1, <2>6 DEF LastAgree
      <3>5. Awaits("prepare")'
        BY <1>5, <2>6
      <3>6. Fits(b2p)'
        BY <3>3, <3>5 DEF Fits
      <3> QED BY <1>1, <2>4, <3>2, <3>4, <3>5, <3>6, MoreTrack
    <2> QED BY <2>2, <2>5, <2>6
  <1> QED BY <1>7, <1>8, <1>9

\* The answer to a QUERY or an EXECUTE.
LEMMA CommandTrack ==
  ASSUME IInv, TrackInv, open, Answering, RegAgree, LastAgree, CommandAnswered
  PROVE  TrackInv'
  <1>0. PICK p : p = Head(b2p)
    OBVIOUS
  <1>1. /\ Relayed /\ b2p' = Tail(b2p) /\ pendingCmd /\ Track(p)
        /\ UNCHANGED <<pendingDb, pendingSql, pendingPing, pendingReset, statements, lastId,
                       bLast, bStmts, p2b>>
    BY <1>0 DEF CommandAnswered, Packets, Relayed, lifecycle, registry, server
  <1>2. b2p \in Seq(Packet) /\ b2p # <<>> /\ p = b2p[1] /\ p \in Packet /\ Len(b2p) \in Nat \ {0}
    BY <1>0, TailFacts DEF Answering, IInv, TypeOK, AnswersTyped
  <1>3. Awaits("command") /\ Parses(<<stage, columns>>, b2p)
    <2>1. ~Awaits("ping") /\ ~Awaits("reset") /\ ~Awaits("database") /\ ~Awaits("prepare")
      BY <1>1 DEF Awaits
    <2> QED BY <2>1 DEF Answering, Fits
  <1>4. /\ Ends(<<stage, columns>>, p) => FailCommandForward
        /\ \A b : Goes(<<stage, columns>>, p, b) => pendingCmd' /\ b = <<stage', columns'>>
    <2>1. ResponseTyped
      BY DEF IInv, TypeOK
    <2> QED BY <1>1, <1>2, <2>1, TrackFollows
  <1>5. RegAgree' /\ LastAgree'
    <2>1. RegAgree'
      BY <1>1, RegKept
    <2> QED BY <1>1, <2>1 DEF LastAgree
  <1>6. PICK a : a = <<stage, columns>>
    OBVIOUS
  <1>7. \/ Len(b2p) = 1 /\ Ends(a, p)
        \/ Len(b2p) > 1 /\ \E b : Goes(a, p, b) /\ Parses(b, Tail(b2p))
    BY <1>2, <1>3, <1>6, ParseHead
  <1>8. CASE Len(b2p) = 1 /\ Ends(a, p)
    <2>1. Awaits("nothing")'
      BY <1>1, <1>3, <1>4, <1>6, <1>8 DEF FailCommandForward, Awaits
    <2> QED BY <1>1, <1>5, <1>8, <2>1, DoneTrack
  <1>9. CASE Len(b2p) > 1 /\ \E b : Goes(a, p, b) /\ Parses(b, Tail(b2p))
    <2>1. PICK b : Goes(a, p, b) /\ Parses(b, Tail(b2p))
      BY <1>9
    <2>2. pendingCmd' /\ b = <<stage', columns'>>
      BY <1>4, <1>6, <2>1
    <2>3. Awaits("command")'
      BY <1>1, <1>3, <2>2 DEF Awaits
    <2>4. b2p' # <<>> /\ Fits(b2p)'
      BY <1>1, <2>1, <2>2, <2>3 DEF Fits, Parses
    <2>5. ~Awaits("prepare")
      BY <1>1 DEF Awaits
    <2> QED BY <1>1, <1>5, <2>4, <2>5, MoreTrack
  <1> QED BY <1>7, <1>8, <1>9

\* The backend pump.
LEMMA BackendPumpTrack ==
  ASSUME IInv, TrackInv, BackendPump
  PROVE  TrackInv'
  <1>1. open /\ b2p # <<>>
    BY DEF BackendPump, PingAnswered, ResetAnswered, DatabaseAnswered, PrepareFails,
           PrepareAccepted, MetadataArrives, CommandAnswered, UntrackedAnswer, Packets
  <1>2. Phase /\ RegAgree /\ LastAgree
    BY <1>1 DEF TrackInv
  <1>3. Answering /\ HasPending
    <2>1. Answering
      BY <1>1, <1>2, PhaseFacts
    <2>2. b2p # <<>> => ~Resting
      BY DEF Resting
    <2> QED BY <1>1, <1>2, <2>1, <2>2, PhaseFacts
  <1>4. ~UntrackedAnswer
    BY <1>3 DEF UntrackedAnswer
  <1> QED BY <1>1, <1>2, <1>3, <1>4, AcknowledgedTrack, PrepareTrack, CommandTrack DEF BackendPump

-----------------------------------------------------------------------------
\* Marking the last packet of an answer changes nothing the proxy looks at.
LEMMA MarkFacts ==
  ASSUME NEW q \in Seq(Packet)
  PROVE  /\ MarkLast(q) \in Seq(Packet) /\ Len(MarkLast(q)) = Len(q) /\ <<>> \o MarkLast(q) = MarkLast(q)
         /\ \A i \in 1..Len(q) : /\ MarkLast(q)[i].marker = q[i].marker
                                 /\ MarkLast(q)[i].id = q[i].id
                                 /\ MarkLast(q)[i].stmt = q[i].stmt
  <1>1. PICK w : w = MarkLast(q)
    OBVIOUS
  <1>2. DOMAIN q = 1..Len(q) /\ Len(q) \in Nat
    OBVIOUS
  <1>3. w = [i \in 1..Len(q) |-> [q[i] EXCEPT !.last = (i = Len(q))]]
    BY <1>1, <1>2 DEF MarkLast
  <1>4. ASSUME NEW i \in 1..Len(q)
        PROVE  /\ w[i] \in Packet /\ w[i].marker = q[i].marker /\ w[i].id = q[i].id
               /\ w[i].stmt = q[i].stmt
    <2>1. q[i] \in Packet /\ (i = Len(q)) \in BOOLEAN
      OBVIOUS
    <2>2. w[i] = [q[i] EXCEPT !.last = (i = Len(q))]
      BY <1>3
    <2> QED BY <2>1, <2>2 DEF Packet
  <1>5. w \in [1..Len(q) -> Packet]
    BY <1>3, <1>4
  <1>6. w \in Seq(Packet) /\ Len(w) = Len(q)
    BY <1>2, <1>5, SeqDef
  <1>7. <<>> \o w = w
    BY <1>6
  <1> QED BY <1>1, <1>4, <1>6, <1>7

\* The server answers the command at the head of its queue.
LEMMA AnsweredTrack ==
  ASSUME IInv, TrackInv, open, p2b # <<>>, HasAnswer(Head(p2b)), p2b' = Tail(p2b),
         NEW q \in Seq(Packet), q # <<>>, Own(q, Head(p2b)), Answer(q),
         UNCHANGED <<sent, c2p, lifecycle, response, task>>,
         Fits(b2p)', RegAgree', LastAgree', RanJudged'
  PROVE  TrackInv'
  <1>0. PICK m : m = Head(p2b)
    OBVIOUS
  <1>1. /\ Phase /\ WaitsForPrepare /\ SentIs /\ NoGap
        /\ UNCHANGED <<pc, cur, verdict, judged, audited>>
        /\ UNCHANGED <<pendingDb, pendingSql, pendingId, metadata, pendingPing, pendingReset, pendingCmd>>
    BY DEF TrackInv, task, lifecycle, response
  <1>2. Aside /\ b2p = <<>> /\ Expects(m) /\ OnlyQuits(p2b')
    BY <1>0, <1>1, PhaseFacts
  <1>3. b2p' = MarkLast(q) /\ b2p' \in Seq(Packet) /\ b2p' # <<>> /\ Len(b2p') = Len(q)
    <2>1. b2p' = MarkLast(q) /\ b2p' \in Seq(Packet) /\ Len(b2p') = Len(q)
      BY <1>2, MarkFacts DEF Answer
    <2>2. Len(q) # 0
      OBVIOUS
    <2> QED BY <2>1, <2>2
  <1>4. Aside'
    BY <1>1, <1>2 DEF Aside, Refusing, Awaits, Runs
  <1>5. Phase'
    BY <1>2, <1>3, <1>4 DEF Phase, Answering, OnlyQuits
  <1>6. m \in Message /\ IsSent(m) /\ HasAnswer(m) /\ m.type # "OTHER"
    <2>1. m.type # "OTHER"
      BY <1>2 DEF Expects, Runs
    <2> QED BY <1>0, <1>1, <2>1, HeadsSent
  <1>7. \A i \in 1..Len(b2p') : b2p'[i].id = m.id
    BY <1>0, <1>3, MarkFacts DEF Own
  <1>8. pc' # "read" => IsSent(cur'[1])
    BY <1>1 DEF SentIs
  <1>9. \E c \in Message : /\ IsSent(c) /\ HasAnswer(c) /\ c.type # "OTHER"
                           /\ \A i \in 1..Len(b2p') : b2p'[i].id = c.id
    BY <1>6, <1>7
  <1>10. SentIs'
    BY <1>1, <1>8, <1>9, SentKept
  <1> QED BY <1>1, <1>5, <1>10 DEF TrackInv, NoGap, WaitsForPrepare

\* The server takes a command; its statements stay, or one is added.
LEMMA RegServed ==
  ASSUME IInv, RegAgree, p2b # <<>>, p2b' = Tail(p2b), UNCHANGED statements,
         \A i \in 1..Len(bStmts) : i \in 1..Len(bStmts') /\ bStmts'[i] = bStmts[i]
  PROVE  RegAgree'
  <1>1. /\ Len(p2b) \in Nat \ {0} /\ Len(p2b') = Len(p2b) - 1
        /\ \A k \in 1..Len(p2b) - 1 : p2b'[k] = p2b[k + 1]
    BY TailFacts DEF IInv, Core, StreamTyped
  <1>2. \A k \in 1..Len(p2b') : k \in 1..Len(p2b) - 1 /\ k + 1 \in 1..Len(p2b)
    BY <1>1
  <1>3. ASSUME NEW i \in Ids, statements'[i] # None
        PROVE  /\ i \in 1..Len(bStmts') /\ bStmts'[i] = statements'[i].sql
               /\ \A k \in 1..Len(p2b') : ~(p2b'[k].type = "CLOSE" /\ p2b'[k].stmt = i)
    <2>1. /\ i \in 1..Len(bStmts) /\ bStmts[i] = statements[i].sql
          /\ \A k \in 1..Len(p2b) : ~(p2b[k].type = "CLOSE" /\ p2b[k].stmt = i)
      BY <1>3 DEF RegAgree
    <2> QED BY <1>1, <1>2, <2>1
  <1> QED BY <1>3 DEF RegAgree

\* One packet ends the answer to any command but a PREPARE that succeeds.
LEMMA SingleFits ==
  ASSUME NEW m \in Message, Expects(m), NEW marker \in {"ok", "err"}, NEW tx \in BOOLEAN,
         marker = "ok" => m.type \in {"INIT_DB", "PING", "RESET"},
         UNCHANGED <<lifecycle, response>>, NEW q, q = MarkLast(<<Plain(m, marker, tx)>>)
  PROVE  Fits(q)'
  <1>0. /\ UNCHANGED <<pendingDb, pendingSql, pendingId, pendingPing, pendingReset>>
        /\ UNCHANGED <<pendingCmd, stage, columns>>
    BY DEF lifecycle, response
  <1>1. PICK p : p = Plain(m, marker, tx)
    OBVIOUS
  <1>2. p \in Packet /\ p.marker = marker
    BY <1>1, PlainFields
  <1>3. PICK one : one = <<p>>
    OBVIOUS
  <1>4. one \in Seq(Packet) /\ Len(one) = 1 /\ one[1] = p /\ 1 \in 1..Len(one)
    BY <1>2, <1>3
  <1>5. q = MarkLast(one) /\ Len(q) = 1 /\ q[1].marker = marker
    <2>1. q = MarkLast(one)
      BY <1>1, <1>3
    <2> QED BY <1>2, <1>4, <2>1, MarkFacts
  <1>6. CASE Awaits("ping") \/ Awaits("reset") \/ Awaits("database")
    BY <1>0, <1>5, <1>6 DEF Fits, Awaits
  <1>7. CASE m.type = "PREPARE" /\ Awaits("prepare") /\ pendingId = None
    BY <1>0, <1>5, <1>7 DEF Fits, PrepareFits, Awaits
  <1>8. CASE Runs(m) /\ Awaits("command") /\ stage = "initial" /\ columns = 0
    <2>1. p.marker = "err"
      BY <1>2, <1>8 DEF Runs
    <2>2. Ends(Start, p)
      BY <2>1 DEF Ends
    <2>0. PICK none : none = <<>>
      OBVIOUS
    <2>3. none \in Seq(Packet) /\ Walks(Start, none, Start)
      BY <2>0, WalkNone
    <2>4. Parses(Start, none \o <<p>>)
      BY <1>2, <2>2, <2>3, WalkEnds
    <2>5. none \o <<p>> = one
      BY <1>2, <1>3, <2>0
    <2>6. Parses(Start, q)
      BY <1>4, <1>5, <2>4, <2>5, ParseMarked
    <2>7. <<stage, columns>> = Start
      BY <1>8 DEF Start
    <2> QED BY <1>0, <1>8, <2>6, <2>7 DEF Fits, Awaits
  <1> QED BY <1>6, <1>7, <1>8 DEF Expects

\* The server acknowledges a command, or fails.
LEMMA SingleTrack ==
  ASSUME IInv, TrackInv, ServerFails \/ ServerAcknowledges
  PROVE  TrackInv'
  <1>0. PICK m : m = Head(p2b)
    OBVIOUS
  <1>1. /\ open /\ p2b # <<>> /\ p2b' = Tail(p2b) /\ HasAnswer(m)
        /\ UNCHANGED <<sent, c2p, lifecycle, response, registry, task, bStmts, executed>>
        /\ bLast' = bLast \/ m.type = "PREPARE"
    BY <1>0 DEF ServerFails, ServerAcknowledges, Receive, HasAnswer
  <1>2. Phase /\ RegAgree /\ LastAgree /\ SentIs /\ RanJudged
    BY <1>1 DEF TrackInv
  <1>3. m \in Message /\ m.id \in Ids
    <2>1. m \in Message
      BY <1>0, <1>1, <1>2, HeadsSent
    <2> QED BY <2>1 DEF Message
  <1>4. Expects(m) /\ b2p = <<>>
    BY <1>0, <1>1, <1>2, PhaseFacts
  <1>5. \E k \in {"ok", "err"}, tx \in BOOLEAN :
          /\ k = "ok" => m.type \in {"INIT_DB", "PING", "RESET"}
          /\ Answer(<<Plain(m, k, tx)>>)
    <2>1. CASE ServerFails
      BY <1>0, <2>1 DEF ServerFails
    <2>2. CASE ServerAcknowledges
      <3>1. bTx \in BOOLEAN
        BY DEF IInv, TypeOK, ServerTyped
      <3> QED BY <1>0, <2>2, <3>1 DEF ServerAcknowledges, Receive
    <2> QED BY <2>1, <2>2
  <1>6. PICK k \in {"ok", "err"}, tx \in BOOLEAN :
          /\ k = "ok" => m.type \in {"INIT_DB", "PING", "RESET"}
          /\ Answer(<<Plain(m, k, tx)>>)
    BY <1>5
  <1>7. PICK p : p = Plain(m, k, tx)
    OBVIOUS
  <1>8. p \in Packet /\ p.id = m.id
    <2>1. k \in {"ok", "err", "eof", "data"}
      OBVIOUS
    <2> QED BY <1>3, <1>7, <2>1, PlainFields
  <1>9. PICK one : one = <<p>>
    OBVIOUS
  <1>10. /\ one \in Seq(Packet) /\ one # <<>> /\ Own(one, m) /\ Answer(one)
    BY <1>6, <1>7, <1>8, <1>9 DEF Own
  <1>11. PICK q : q = MarkLast(one)
    OBVIOUS
  <1>12. b2p' = q
    BY <1>4, <1>10, <1>11, MarkFacts DEF Answer
  <1>13. Fits(q)'
    BY <1>1, <1>3, <1>4, <1>6, <1>7, <1>9, <1>11, SingleFits
  <1>14. Fits(b2p)'
    BY <1>12, <1>13
  <1>15. RegAgree'
    BY <1>1, <1>2, RegServed DEF registry
  <1>16. LastAgree'
    <2>1. UNCHANGED <<pendingSql, lastId, statements>>
      BY <1>1 DEF lifecycle, registry
    <2>2. m.type = "PREPARE" => pendingSql # None
      BY <1>4 DEF Expects, Awaits, Runs
    <2> QED BY <1>1, <1>2, <2>1, <2>2 DEF LastAgree
  <1>17. RanJudged'
    BY <1>1, <1>2 DEF RanJudged, task
  <1> QED BY <1>0, <1>1, <1>10, <1>14, <1>15, <1>16, <1>17, AnsweredTrack

\* A command the proxy does not support never reaches the server.
LEMMA NeverResets ==
  ASSUME IInv, TrackInv
  PROVE  ~ServerResets
  <1> SUFFICES ASSUME ServerResets PROVE FALSE
    OBVIOUS
  <1>1. open /\ p2b # <<>> /\ Head(p2b).type = "OTHER"
    BY DEF ServerResets, Receive
  <1>2. Expects(Head(p2b))
    BY <1>1, PhaseFacts DEF TrackInv, HasAnswer
  <1> QED BY <1>1, <1>2 DEF Expects, Runs

\* The server runs a QUERY or an EXECUTE: the text that was judged.
LEMMA RunsTrack ==
  ASSUME IInv, TrackInv, ServerRuns
  PROVE  TrackInv'
  <1>0. PICK m : m = Head(p2b)
    OBVIOUS
  <1>1. /\ open /\ p2b # <<>> /\ p2b' = Tail(p2b) /\ Runs(m) /\ HasAnswer(m)
        /\ UNCHANGED <<sent, c2p, lifecycle, response, registry, task, bStmts, bLast>>
    BY <1>0 DEF ServerRuns, Receive, HasAnswer, Runs
  <1>2. Phase /\ RegAgree /\ LastAgree /\ SentIs /\ RanJudged
    BY <1>1 DEF TrackInv
  <1>3. m \in Message /\ m.id \in Ids /\ m.sql \in SQL
    <2>1. m \in Message
      BY <1>0, <1>1, <1>2, HeadsSent
    <2> QED BY <2>1 DEF Message
  <1>4. Expects(m) /\ b2p = <<>>
    BY <1>0, <1>1, <1>2, PhaseFacts
  <1>5. Awaits("command") /\ <<stage, columns>> = Start /\ RunsJudged(m)
    BY <1>1, <1>4 DEF Expects, Start, Runs
  <1>6. PICK sql : sql = TextOf(m)
    OBVIOUS
  <1>7. sql = judged[m.id]
    <2>1. CASE m.type = "QUERY"
      BY <1>5, <1>6, <2>1 DEF RunsJudged, TextOf
    <2>2. CASE m.type = "EXECUTE"
      <3>1. PICK t : t = Target(m)
        OBVIOUS
      <3>2. t \in Ids /\ statements[t] # None /\ statements[t].sql = judged[m.id]
        BY <1>5, <2>2, <3>1 DEF RunsJudged
      <3>3. t = IF m.stmt = LAST THEN bLast ELSE m.stmt
        <4>1. pendingSql = None
          BY <1>5 DEF Awaits
        <4>2. t # None
          BY <3>2, NoneAssumption
        <4> QED BY <1>2, <3>1, <4>1, <4>2 DEF Target, LastAgree
      <3>4. t \in 1..Len(bStmts) /\ bStmts[t] = statements[t].sql
        BY <1>2, <3>2 DEF RegAgree
      <3>5. DOMAIN bStmts = 1..Len(bStmts)
        BY DEF IInv, TypeOK, ServerTyped
      <3> QED BY <1>6, <2>2, <3>2, <3>3, <3>4, <3>5 DEF TextOf
    <2> QED BY <1>1, <2>1, <2>2 DEF Runs
  <1>8. PICK tx : tx = CASE TxEffect[sql] = "begin" -> TRUE
                         [] TxEffect[sql] = "end"   -> FALSE
                         [] TxEffect[sql] = "none"  -> bTx
    OBVIOUS
  <1>9. /\ sql # None
        /\ executed' = executed \cup {[id |-> m.id, sql |-> sql]}
        /\ \E packets \in Results(m, sql, tx) :
              \/ Answer(packets)
              \/ Answer(SubSeq(packets, 1, Len(packets) - 1) \o <<Plain(m, "err", FALSE)>>)
    BY <1>0, <1>6, <1>8 DEF ServerRuns
  <1>10. sql \in SQL /\ tx \in BOOLEAN
    <2>1. sql \in SQL
      BY <1>3, <1>7, <1>9 DEF IInv, TypeOK, TaskTyped
    <2>2. TxEffect[sql] \in {"begin", "end", "none"} /\ bTx \in BOOLEAN
      BY <2>1, TextsAssumption DEF IInv, TypeOK, ServerTyped
    <2> QED BY <1>8, <2>1, <2>2
  <1>11. PICK packets \in Results(m, sql, tx) :
              \/ Answer(packets)
              \/ Answer(SubSeq(packets, 1, Len(packets) - 1) \o <<Plain(m, "err", FALSE)>>)
    BY <1>9
  <1>12. PICK q : /\ Answer(q)
                  /\ \/ q = packets
                     \/ q = SubSeq(packets, 1, Len(packets) - 1) \o <<Plain(m, "err", FALSE)>>
    BY <1>11
  <1>13. q \in Seq(Packet) /\ Parses(Start, q) /\ Own(q, m)
    BY <1>3, <1>10, <1>12, ResultsParse
  <1>14. q # <<>>
    BY <1>13 DEF Parses
  <1>15. b2p' = MarkLast(q) /\ Parses(Start, MarkLast(q))
    BY <1>4, <1>12, <1>13, MarkFacts, ParseMarked DEF Answer
  <1>16. Fits(b2p)'
    <2>1. Awaits("command")'
      BY <1>1, <1>5 DEF Awaits, lifecycle, response
    <2>2. <<stage, columns>>' = Start
      BY <1>1, <1>5 DEF response
    <2>3. Parses(<<stage, columns>>, b2p)'
      BY <1>15, <2>2
    <2> QED BY <2>1, <2>3 DEF Fits
  <1>17. RegAgree'
    BY <1>1, <1>2, RegServed DEF registry
  <1>18. LastAgree'
    BY <1>1, <1>2 DEF LastAgree, lifecycle, registry
  <1>19. RanJudged'
    <2>1. ASSUME NEW e \in executed' PROVE judged'[e.id] = e.sql
      BY <1>1, <1>2, <1>7, <1>9 DEF RanJudged, task
    <2> QED BY <2>1 DEF RanJudged
  <1> QED BY <1>0, <1>1, <1>12, <1>13, <1>14, <1>16, <1>17, <1>18, <1>19, AnsweredTrack

\* Two lists of packets behind one another.
LEMMA MatchesConcat ==
  ASSUME NEW S, NEW k \in Seq(S), NEW l \in Seq(S), NEW q \in Seq(Packet), NEW r \in Seq(Packet),
         Matches(k, q), Matches(l, r)
  PROVE  Matches(k \o l, q \o r)
  <1>1. /\ Len(k) \in Nat /\ Len(l) \in Nat /\ Len(k \o l) = Len(k) + Len(l)
        /\ \A i \in 1..Len(k) : (k \o l)[i] = k[i]
        /\ \A i \in Len(k) + 1..Len(k) + Len(l) : (k \o l)[i] = l[i - Len(k)]
    BY ConcatFacts
  <1>2. /\ Len(q \o r) = Len(q) + Len(r)
        /\ \A i \in 1..Len(q) : (q \o r)[i] = q[i]
        /\ \A i \in Len(q) + 1..Len(q) + Len(r) : (q \o r)[i] = r[i - Len(q)]
    BY ConcatFacts
  <1>3. Len(q) = Len(k) /\ Len(r) = Len(l)
    BY DEF Matches
  <1>4. ASSUME NEW i \in 1..Len(q \o r)
        PROVE  (q \o r)[i].marker # "err" /\ ((k \o l)[i] = "eof" => (q \o r)[i].marker = "eof")
    <2>1. CASE i \in 1..Len(q)
      <3>1. (q \o r)[i] = q[i] /\ (k \o l)[i] = k[i]
        BY <1>1, <1>2, <1>3, <2>1
      <3> QED BY <2>1, <3>1 DEF Matches
    <2>2. CASE i \in Len(q) + 1..Len(q) + Len(r)
      <3>1. (q \o r)[i] = r[i - Len(q)] /\ (k \o l)[i] = l[i - Len(q)] /\ i - Len(q) \in 1..Len(r)
        BY <1>1, <1>2, <1>3, <2>2
      <3> QED BY <3>1 DEF Matches
    <2> QED BY <1>1, <1>2, <1>3, <2>1, <2>2
  <1> QED BY <1>1, <1>2, <1>3, <1>4 DEF Matches

\* A section of definitions, with its EOF when the session has them, is what
\* the proxy counts on.
LEMMA MatchesSection ==
  ASSUME NEW m, NEW d \in Packet, NEW e \in Packet, d.marker = "data", e.marker = "eof",
         d.id = m.id, e.id = m.id, NEW n \in Nat,
         NEW k, k = Copies("definition", n) \o (IF n > 0 /\ ~DeprecateEof THEN <<"eof">> ELSE <<>>),
         NEW q, q = Copies(d, n) \o (IF n > 0 /\ ~DeprecateEof THEN <<e>> ELSE <<>>)
  PROVE  q \in Seq(Packet) /\ k \in Seq({"definition", "eof"}) /\ Matches(k, q) /\ Own(q, m)
  <1> DEFINE K == {"definition", "eof"}
  <1>1. PICK a, b, c, f : /\ a = Copies("definition", n) /\ b = Copies(d, n)
                          /\ c = (IF n > 0 /\ ~DeprecateEof THEN <<"eof">> ELSE <<>>)
                          /\ f = (IF n > 0 /\ ~DeprecateEof THEN <<e>> ELSE <<>>)
    OBVIOUS
  <1>2. a \in Seq(K) /\ Len(a) = n /\ \A i \in 1..n : a[i] = "definition"
    BY <1>1, CopiesTyped, CopiesFacts
  <1>3. b \in Seq(Packet) /\ Len(b) = n /\ \A i \in 1..n : b[i] = d
    BY <1>1, CopiesTyped, CopiesFacts
  <1>4. Matches(a, b)
    BY <1>2, <1>3 DEF Matches
  <1>5. c \in Seq(K) /\ f \in Seq(Packet) /\ Matches(c, f)
    <2>1. CASE n > 0 /\ ~DeprecateEof
      BY <1>1, <2>1 DEF Matches
    <2>2. CASE ~(n > 0 /\ ~DeprecateEof)
      BY <1>1, <2>2 DEF Matches
    <2> QED BY <2>1, <2>2
  <1>6. k = a \o c /\ q = b \o f
    BY <1>1
  <1>7. k \in Seq(K) /\ q \in Seq(Packet)
    BY <1>2, <1>3, <1>5, <1>6, ConcatType
  <1>8. Matches(a \o c, b \o f)
    BY <1>2, <1>3, <1>4, <1>5, MatchesConcat
  <1>9. Own(b, m) /\ Own(f, m)
    <2>1. Own(b, m)
      BY <1>3 DEF Own
    <2>2. CASE n > 0 /\ ~DeprecateEof
      BY <1>1, <2>1, <2>2 DEF Own
    <2>3. CASE ~(n > 0 /\ ~DeprecateEof)
      BY <1>1, <2>1, <2>3 DEF Own
    <2> QED BY <2>2, <2>3
  <1>10. Own(b \o f, m)
    BY <1>3, <1>5, <1>9, OwnConcat
  <1> QED BY <1>6, <1>7, <1>8, <1>10

\* The answer to a PREPARE: PREPARE_OK and two sections, of definitions d and
\* EOF packets e.
Composed(q, sql, ok, d, e, s, t) ==
  /\ s = Copies(d, Parameters[sql])
         \o (IF Parameters[sql] > 0 /\ ~DeprecateEof THEN <<e>> ELSE <<>>)
  /\ t = Copies(d, Columns[sql])
         \o (IF Columns[sql] > 0 /\ ~DeprecateEof THEN <<e>> ELSE <<>>)
  /\ q = <<ok>> \o s \o t

\* What the server puts together after PREPARE_OK are the packets the proxy
\* counts on.
LEMMA PrepareMatches ==
  ASSUME NEW m, NEW sql \in SQL, NEW ok \in Packet, ok.id = m.id,
         NEW d \in Packet, d.marker = "data", d.id = m.id,
         NEW e \in Packet, e.marker = "eof", e.id = m.id,
         NEW s, NEW t, NEW q, Composed(q, sql, ok, d, e, s, t)
  PROVE  /\ q \in Seq(Packet) /\ q # <<>> /\ q[1] = ok /\ Own(q, m)
         /\ Matches(MetadataKinds(sql), Tail(q))
  <1>1. PICK n, c : n = Parameters[sql] /\ c = Columns[sql]
    OBVIOUS
  <1>2. n \in Nat /\ c \in Nat
    BY <1>1, TextsAssumption
  <1>3. PICK k, l : /\ k = Copies("definition", n) \o (IF n > 0 /\ ~DeprecateEof THEN <<"eof">> ELSE <<>>)
                    /\ l = Copies("definition", c) \o (IF c > 0 /\ ~DeprecateEof THEN <<"eof">> ELSE <<>>)
    OBVIOUS
  <1>4. MetadataKinds(sql) = k \o l
    BY <1>1, <1>3 DEF MetadataKinds
  <1>6. s \in Seq(Packet) /\ k \in Seq({"definition", "eof"}) /\ Matches(k, s) /\ Own(s, m)
    <2>1. s = Copies(d, n) \o (IF n > 0 /\ ~DeprecateEof THEN <<e>> ELSE <<>>)
      BY <1>1 DEF Composed
    <2> QED BY <1>2, <1>3, <2>1, MatchesSection
  <1>7. t \in Seq(Packet) /\ l \in Seq({"definition", "eof"}) /\ Matches(l, t) /\ Own(t, m)
    <2>1. t = Copies(d, c) \o (IF c > 0 /\ ~DeprecateEof THEN <<e>> ELSE <<>>)
      BY <1>1 DEF Composed
    <2> QED BY <1>2, <1>3, <2>1, MatchesSection
  <1>8. PICK r, one : r = s \o t /\ one = <<ok>>
    OBVIOUS
  <1>9. r \in Seq(Packet) /\ Matches(k \o l, r) /\ Own(r, m)
    BY <1>6, <1>7, <1>8, MatchesConcat, OwnConcat, ConcatType
  <1>10. one \in Seq(Packet) /\ Own(one, m)
    BY <1>8 DEF Own
  <1>11. q = one \o r
    <2>1. q = (one \o s) \o t
      BY <1>8 DEF Composed
    <2>2. (one \o s) \o t = one \o (s \o t)
      BY ONLY <1>6, <1>7, <1>10, ConcatAssoc
    <2> QED BY <1>8, <2>1, <2>2
  <1>12. q \in Seq(Packet) /\ Own(q, m)
    BY <1>9, <1>10, <1>11, ConcatType, OwnConcat
  <1>13. /\ Len(one) = 1 /\ one[1] = ok /\ Len(r) \in Nat /\ Len(q) = 1 + Len(r)
         /\ q[1] = ok /\ \A i \in 2..1 + Len(r) : q[i] = r[i - 1]
    <2>1. Len(one) = 1 /\ one[1] = ok /\ 1 \in 1..Len(one)
      BY <1>8
    <2>2. /\ Len(r) \in Nat /\ Len(q) = Len(one) + Len(r)
          /\ \A i \in 1..Len(one) : q[i] = one[i]
          /\ \A i \in Len(one) + 1..Len(one) + Len(r) : q[i] = r[i - Len(one)]
      BY ONLY <1>9, <1>10, <1>11, ConcatFacts
    <2> QED BY ONLY <2>1, <2>2
  <1>14. q # <<>>
    BY <1>12, <1>13
  <1>15. Matches(k \o l, Tail(q))
    <2>1. /\ Len(Tail(q)) = Len(q) - 1
          /\ \A i \in 1..Len(q) - 1 : Tail(q)[i] = q[i + 1]
      BY ONLY <1>12, <1>14, TailFacts
    <2>2. Len(Tail(q)) = Len(r) /\ \A i \in 1..Len(r) : Tail(q)[i] = r[i]
      BY ONLY <1>13, <2>1
    <2> QED BY ONLY <1>9, <2>2 DEF Matches
  <1> QED BY <1>4, <1>12, <1>13, <1>14, <1>15

\* The server prepares a statement.
LEMMA PreparesTrack ==
  ASSUME IInv, TrackInv, ServerPrepares
  PROVE  TrackInv'
  <1>0. PICK m, id : m = Head(p2b) /\ id = Len(bStmts) + 1
    OBVIOUS
  <1>1. /\ open /\ p2b # <<>> /\ p2b' = Tail(p2b) /\ m.type = "PREPARE" /\ HasAnswer(m)
        /\ bStmts' = Append(bStmts, m.sql) /\ bLast' = id
        /\ UNCHANGED <<sent, c2p, lifecycle, response, registry, task, executed>>
    BY <1>0 DEF ServerPrepares, Receive, HasAnswer
  <1>2. Phase /\ RegAgree /\ LastAgree /\ SentIs /\ RanJudged
    BY <1>1 DEF TrackInv
  <1>3. m \in Message /\ m.id \in Ids /\ m.sql \in SQL
    <2>1. m \in Message
      BY <1>0, <1>1, <1>2, HeadsSent
    <2> QED BY <2>1 DEF Message
  <1>4. Expects(m) /\ b2p = <<>>
    BY <1>0, <1>1, <1>2, PhaseFacts
  <1>5. Awaits("prepare") /\ pendingId = None /\ pendingSql = m.sql
    BY <1>1, <1>4 DEF Expects, Runs
  <1>6. id \in Ids
    <2>1. Len(bStmts) + Len(p2b) <= Left /\ Left <= MaxSent /\ Left \in Int
      <3>1. Len(sent) \in Nat /\ Len(c2p) \in Nat /\ Len(sent) <= MaxSent /\ MaxSent \in Nat
        BY BoundsAssumption DEF IInv, Core, StreamTyped
      <3> QED BY <3>1 DEF IInv, Core, ForwardedIsOlder, Left, Taken
    <2>2. Len(bStmts) \in Nat /\ Len(p2b) \in Nat \ {0}
      BY <1>1, TailFacts DEF IInv, TypeOK, ServerTyped, Core, StreamTyped
    <2> QED BY <1>0, <2>1, <2>2, BoundsAssumption DEF Ids
  <1>7. PICK d, e, ok, tx : /\ tx = bTx /\ d = Plain(m, "data", FALSE) /\ e = Plain(m, "eof", tx)
                            /\ ok = [Plain(m, "ok", FALSE) EXCEPT !.stmt = id]
    OBVIOUS
  <1>8. ok \in Packet /\ ok.id = m.id /\ ok.marker = "ok" /\ ok.stmt = id /\ tx \in BOOLEAN
    <2>1. PICK p : p = Plain(m, "ok", FALSE)
      OBVIOUS
    <2>2. p \in Packet /\ p.id = m.id /\ p.marker = "ok"
      BY <1>3, <2>1, PlainFields
    <2>3. tx \in BOOLEAN
      BY <1>7 DEF IInv, TypeOK, ServerTyped
    <2> QED BY <1>6, <1>7, <2>1, <2>2, <2>3 DEF Packet
  <1>9. PICK s, t, q : /\ s = Copies(d, Parameters[m.sql])
                               \o (IF Parameters[m.sql] > 0 /\ ~DeprecateEof THEN <<e>> ELSE <<>>)
                       /\ t = Copies(d, Columns[m.sql])
                               \o (IF Columns[m.sql] > 0 /\ ~DeprecateEof THEN <<e>> ELSE <<>>)
                       /\ q = <<ok>> \o s \o t
    OBVIOUS
  <1>10. Answer(q)
    BY <1>0, <1>7, <1>9 DEF ServerPrepares
  <1>11. /\ q \in Seq(Packet) /\ q # <<>> /\ q[1] = ok /\ Own(q, m)
         /\ Matches(MetadataKinds(m.sql), Tail(q))
    <2>1. PICK sql : sql = m.sql
      OBVIOUS
    <2>2. Composed(q, sql, ok, d, e, s, t) /\ sql \in SQL
      BY <1>3, <1>9, <2>1 DEF Composed
    <2>3. d \in Packet /\ d.marker = "data" /\ d.id = m.id
      BY <1>3, <1>7, PlainFields
    <2>4. e \in Packet /\ e.marker = "eof" /\ e.id = m.id
      BY <1>3, <1>7, <1>8, PlainFields
    <2>5. /\ q \in Seq(Packet) /\ q # <<>> /\ q[1] = ok /\ Own(q, m)
          /\ Matches(MetadataKinds(sql), Tail(q))
      BY ONLY <1>8, <2>2, <2>3, <2>4, PrepareMatches
    <2> QED BY <2>1, <2>5
  <1>12. PICK w : w = MarkLast(q)
    OBVIOUS
  <1>13. /\ b2p' = w /\ w \in Seq(Packet) /\ Len(w) = Len(q)
         /\ \A i \in 1..Len(q) : w[i].marker = q[i].marker /\ w[i].stmt = q[i].stmt
    BY <1>4, <1>10, <1>11, <1>12, MarkFacts DEF Answer
  <1>14. w[1].marker = "ok" /\ w[1].stmt = id /\ Len(q) \in Nat \ {0} /\ w # <<>>
    <2>1. Len(q) \in Nat \ {0} /\ 1 \in 1..Len(q)
      BY <1>11, TailFacts
    <2> QED BY <1>8, <1>11, <1>13, <2>1
  <1>15. Matches(MetadataKinds(m.sql), Tail(w))
    <2>1. /\ Len(Tail(q)) = Len(q) - 1 /\ \A i \in 1..Len(q) - 1 : Tail(q)[i] = q[i + 1]
      BY <1>11, TailFacts
    <2>2. /\ Len(Tail(w)) = Len(q) - 1 /\ \A i \in 1..Len(q) - 1 : Tail(w)[i] = w[i + 1]
      BY <1>13, <1>14, TailFacts
    <2>3. \A i \in 1..Len(q) - 1 : i + 1 \in 1..Len(q)
      BY <1>14
    <2>4. \A i \in 1..Len(q) - 1 : Tail(w)[i].marker = Tail(q)[i].marker
      BY <1>13, <2>1, <2>2, <2>3
    <2> QED BY <1>11, <2>1, <2>2, <2>4 DEF Matches
  <1>16. /\ Len(bStmts') = Len(bStmts) + 1 /\ Len(bStmts) \in Nat
         /\ \A i \in 1..Len(bStmts) : bStmts'[i] = bStmts[i]
         /\ bStmts'[Len(bStmts) + 1] = m.sql
    <2>1. bStmts \in Seq(SQL \cup {None}) /\ m.sql \in SQL \cup {None}
      BY <1>3 DEF IInv, TypeOK, ServerTyped
    <2> QED BY <1>1, <2>1, AppendFacts
  <1>17. Fits(b2p)'
    <2>1. Awaits("prepare")' /\ pendingId' = None /\ pendingSql' = m.sql
      BY <1>1, <1>5 DEF Awaits, lifecycle, response
    <2>2. id \in 1..Len(bStmts') /\ bStmts'[id] = m.sql
      BY <1>0, <1>16
    <2>3. PrepareFits(b2p)'
      BY <1>1, <1>13, <1>14, <1>15, <2>1, <2>2 DEF PrepareFits
    <2> QED BY <2>1, <2>3 DEF Fits
  <1>18. RegAgree'
    <2>1. \A i \in 1..Len(bStmts) : i \in 1..Len(bStmts') /\ bStmts'[i] = bStmts[i]
      BY <1>16
    <2> QED BY <1>1, <1>2, <2>1, RegServed DEF registry
  <1>19. LastAgree'
    <2>1. pendingSql' # None
      BY <1>1, <1>5 DEF Awaits, lifecycle
    <2> QED BY <2>1 DEF LastAgree
  <1>20. RanJudged'
    BY <1>1, <1>2 DEF RanJudged, task
  <1> QED BY <1>0, <1>1, <1>10, <1>11, <1>17, <1>18, <1>19, <1>20, AnsweredTrack

\* The server takes a command it does not answer.
LEMMA TakesTrack ==
  ASSUME IInv, TrackInv, ServerTakes
  PROVE  TrackInv'
  <1>0. PICK m : m = Head(p2b)
    OBVIOUS
  <1>1. /\ open /\ p2b # <<>> /\ p2b' = Tail(p2b) /\ ~HasAnswer(m)
        /\ \/ /\ m.type = "CLOSE" /\ m.stmt \in DOMAIN bStmts
              /\ bStmts' = [bStmts EXCEPT ![m.stmt] = None]
              /\ bLast' = IF bLast = m.stmt THEN None ELSE bLast
           \/ UNCHANGED <<bStmts, bLast>>
        /\ UNCHANGED <<sent, c2p, b2p, lifecycle, response, registry, task, executed>>
    BY <1>0 DEF ServerTakes, Receive, HasAnswer
  <1>2. Phase /\ RegAgree /\ LastAgree /\ WaitsForPrepare /\ SentIs /\ NoGap /\ RanJudged
    BY <1>1 DEF TrackInv
  <1>3. /\ UNCHANGED <<pendingDb, pendingSql, pendingId, metadata, pendingPing, pendingReset>>
        /\ UNCHANGED <<pendingCmd, stage, columns, statements, lastId>>
        /\ UNCHANGED <<pc, cur, verdict, judged, audited>>
    BY <1>1 DEF lifecycle, response, registry, task
  <1>4. /\ p2b \in Seq(Message) /\ Len(p2b) \in Nat \ {0} /\ Len(p2b') = Len(p2b) - 1 /\ m = p2b[1]
        /\ \A i \in 1..Len(p2b) - 1 : p2b'[i] = p2b[i + 1]
    BY <1>0, <1>1, TailFacts DEF IInv, Core, StreamTyped
  <1>5. \A i \in 1..Len(p2b') : i + 1 \in 1..Len(p2b) /\ p2b'[i] = p2b[i + 1]
    BY <1>4
  <1>6. \A a : Awaits(a)' <=> Awaits(a)
    BY <1>3 DEF Awaits
  <1>7. \A x : /\ Expects(x)' <=> Expects(x)
               /\ RunsJudged(x)' <=> RunsJudged(x)
    BY <1>3 DEF Expects, Awaits, RunsJudged, Target, Runs
  <1>8. Phase'
    <2>1. NoAnswerIn(p2b) => NoAnswerIn(p2b)'
      BY <1>5 DEF NoAnswerIn, HasAnswer
    <2>2. CASE Resting
      BY <1>1, <1>3, <1>6, <2>1, <2>2 DEF Resting, Refusing, Phase
    <2>3. CASE Weighing
      <3>1. RunsJudged(cur[1])'
        BY <1>3, <2>3 DEF Weighing, RunsJudged, Target
      <3> QED BY <1>1, <1>3, <1>6, <2>1, <2>3, <3>1 DEF Weighing, Phase, Runs
    <2>4. Aside => Aside'
      BY <1>3, <1>6 DEF Aside, Refusing, Runs
    <2>5. CASE Asked
      <3>1. PICK c \in Message, k \in 1..Len(p2b) : AskedAt(c, k)
        BY <2>5 DEF Asked
      <3>2. k # 1
        BY <1>1, <1>4, <3>1 DEF AskedAt
      <3>3. PICK l : l = k - 1
        OBVIOUS
      <3>4. l \in 1..Len(p2b') /\ l + 1 = k
        BY <1>4, <3>2, <3>3
      <3>5. p2b'[l] = c /\ HasAnswer(c) /\ Expects(c)'
        BY <1>5, <1>7, <3>1, <3>4 DEF AskedAt
      <3>6. ASSUME NEW i \in 1..Len(p2b')
            PROVE  (i < l => ~HasAnswer(p2b'[i])) /\ (i > l => p2b'[i].type = "QUIT")
        <4>1. (i < l => i + 1 < k) /\ (i > l => i + 1 > k)
          BY <3>4
        <4> QED BY <1>5, <3>1, <4>1 DEF AskedAt
      <3>7. AskedAt(c, l)'
        BY <3>5, <3>6 DEF AskedAt, HasAnswer
      <3> QED BY <1>1, <2>4, <2>5, <3>4, <3>7 DEF Asked, Phase
    <2>6. CASE Answering
      <3>1. m.type = "QUIT"
        <4>1. 1 \in 1..Len(p2b)
          BY <1>4
        <4> QED BY <1>4, <2>6, <4>1 DEF Answering, OnlyQuits
      <3>2. UNCHANGED <<bStmts, bLast>>
        BY <1>1, <3>1
      <3>3. OnlyQuits(p2b)'
        BY <1>5, <2>6 DEF Answering, OnlyQuits
      <3>4. Fits(b2p)'
        <4>1. PrepareFits(b2p) => PrepareFits(b2p)'
          BY <1>1, <1>3, <3>2 DEF PrepareFits
        <4>2. Parses(<<stage, columns>>, b2p) => Parses(<<stage, columns>>, b2p)'
          BY <1>1, <1>3
        <4> QED BY <1>1, <1>6, <2>6, <4>1, <4>2 DEF Answering, Fits
      <3> QED BY <1>1, <2>4, <2>6, <3>3, <3>4 DEF Answering, Phase
    <2> QED BY <1>2, <2>2, <2>3, <2>5, <2>6 DEF Phase
  <1>9. ASSUME NEW i \in Ids, statements[i] # None
        PROVE  /\ i \in 1..Len(bStmts') /\ bStmts'[i] = statements[i].sql
               /\ m.type = "CLOSE" => m.stmt # i
    <2>1. /\ i \in 1..Len(bStmts) /\ bStmts[i] = statements[i].sql
          /\ \A k \in 1..Len(p2b) : ~(p2b[k].type = "CLOSE" /\ p2b[k].stmt = i)
      BY <1>2, <1>9 DEF RegAgree
    <2>2. m.type = "CLOSE" => m.stmt # i
      <3>1. 1 \in 1..Len(p2b)
        BY <1>4
      <3> QED BY <1>4, <2>1, <3>1
    <2>3. bStmts \in Seq(SQL \cup {None})
      BY DEF IInv, TypeOK, ServerTyped
    <2>4. CASE m.type = "CLOSE" /\ m.stmt \in DOMAIN bStmts /\ bStmts' = [bStmts EXCEPT ![m.stmt] = None]
      <3>1. Len(bStmts') = Len(bStmts) /\ bStmts'[i] = bStmts[i]
        BY <2>1, <2>2, <2>3, <2>4
      <3> QED BY <2>1, <2>2, <3>1
    <2>5. CASE UNCHANGED bStmts
      BY <2>1, <2>2, <2>5
    <2> QED BY <1>1, <2>4, <2>5
  <1>10. RegAgree'
    <2>1. ASSUME NEW i \in Ids, statements'[i] # None
          PROVE  /\ i \in 1..Len(bStmts') /\ bStmts'[i] = statements'[i].sql
                 /\ \A k \in 1..Len(p2b') : ~(p2b'[k].type = "CLOSE" /\ p2b'[k].stmt = i)
      <3>1. i \in 1..Len(bStmts') /\ bStmts'[i] = statements'[i].sql
        BY <1>3, <1>9, <2>1
      <3>2. \A k \in 1..Len(p2b) : ~(p2b[k].type = "CLOSE" /\ p2b[k].stmt = i)
        BY <1>2, <1>3, <2>1 DEF RegAgree
      <3> QED BY <1>5, <3>1, <3>2
    <2> QED BY <2>1 DEF RegAgree
  <1>11. LastAgree'
    <2>1. ASSUME pendingSql = None, lastId # None PROVE bLast' = lastId /\ statements[lastId] # None
      <3>1. bLast = lastId /\ statements[lastId] # None /\ lastId \in Ids
        BY <1>2, <2>1 DEF LastAgree, IInv, TypeOK, RegistryTyped
      <3>2. m.type = "CLOSE" => m.stmt # lastId
        BY <1>9, <3>1
      <3> QED BY <1>1, <3>1, <3>2
    <2> QED BY <1>3, <2>1 DEF LastAgree
  <1>12. pc' # "read" => IsSent(cur'[1])
    BY <1>2, <1>3 DEF SentIs
  <1>13. SentIs'
    BY <1>1, <1>2, <1>12, SentKept
  <1> QED BY <1>1, <1>2, <1>3, <1>8, <1>10, <1>11, <1>13 DEF TrackInv, NoGap, RanJudged, WaitsForPrepare

\* No step loses track of an answer.
LEMMA TrackNext ==
  ASSUME Mode # "permissive", IInv, TrackInv, [Next]_vars
  PROVE  TrackInv'
  <1>1. CASE \E r \in Requests : ClientSend(r)
    BY <1>1, ClientSendTrack
  <1>2. CASE ClientPump
    <2>1. CASE ClientPumpEnds
      <3>1. open' = FALSE /\ UNCHANGED <<verdict, judged, executed>>
        BY <2>1 DEF ClientPumpEnds, task, server
      <3> QED BY <3>1, ClosedTrack
    <2> QED BY <1>2, <2>1, PassingTrack, JudgingTrack, ResumingTrack, AuditTrack DEF ClientPump
  <1>3. CASE BackendPump
    BY <1>3, BackendPumpTrack
  <1>4. CASE Server
    BY <1>4, RunsTrack, PreparesTrack, SingleTrack, TakesTrack, NeverResets DEF Server
  <1>5. CASE UNCHANGED vars
    <2>1. /\ UNCHANGED <<sent, c2p, p2b, b2p, open, pendingDb, pendingSql, pendingId, metadata>>
          /\ UNCHANGED <<pendingPing, pendingReset, pendingCmd, stage, columns, statements, lastId>>
          /\ UNCHANGED <<pc, cur, verdict, judged, audited, bStmts, bLast, executed>>
      BY <1>5 DEF vars, lifecycle, response, registry, task, server
    <2>2. Phase => Phase'
      BY <2>1 DEF Phase, Resting, Weighing, Asked, AskedAt, Answering, Awaits, Refusing, Aside,
          Fits, PrepareFits, Expects, RunsJudged, Target, NoAnswerIn, OnlyQuits, HasAnswer, Runs
    <2>3. /\ RegAgree => RegAgree'
          /\ LastAgree => LastAgree'
          /\ WaitsForPrepare => WaitsForPrepare'
      BY <2>1 DEF RegAgree, LastAgree, WaitsForPrepare
    <2>4. SentIs => SentIs'
      BY <2>1 DEF SentIs, IsSent, HasAnswer
    <2>5. (NoGap => NoGap') /\ (RanJudged => RanJudged')
      BY <2>1 DEF NoGap, RanJudged
    <2> QED BY <2>1, <2>2, <2>3, <2>4, <2>5 DEF TrackInv
  <1> QED BY <1>1, <1>2, <1>3, <1>4, <1>5 DEF Next

\* The tracking invariant is an invariant.
LEMMA TrackInvariance ==
  ASSUME Mode # "permissive"
  PROVE  Spec => [](IInv /\ TrackInv)
  <1>1. Init => IInv /\ TrackInv
    BY InitInv, TrackInit
  <1>2. IInv /\ TrackInv /\ [Next]_vars => IInv' /\ TrackInv'
    BY NextInv, TrackNext
  <1> QED BY <1>1, <1>2, PTL DEF Spec

\* In the phase the session is in, something is awaited exactly when a
\* tracked command or a part of its answer is on its way.
LEMMA PhaseTracks ==
  ASSUME IInv, TrackInv
  PROVE  PendingIsOutstanding
  <1> DEFINE InCommands == \E i \in 1..Len(p2b) : Tracked(p2b[i])
             InAnswers  == \E i \in 1..Len(b2p) : Tracked(sent[b2p[i].id])
  <1> SUFFICES ASSUME open, pc = "read" PROVE HasPending <=> InCommands \/ InAnswers
    BY DEF PendingIsOutstanding
  <1>1. Phase /\ SentIs /\ NoGap
    BY DEF TrackInv
  <1>2. ASSUME Resting PROVE ~InCommands /\ ~InAnswers /\ ~HasPending
    <2>1. ~HasPending
      BY <1>1, <1>2, PhaseFacts
    <2>2. ~InCommands
      BY <1>2 DEF Resting, NoAnswerIn, Tracked
    <2>3. ~InAnswers
      BY <1>2 DEF Resting
    <2> QED BY <2>1, <2>2, <2>3
  <1>3. ~Weighing
    BY DEF Weighing
  <1>4. ASSUME Asked PROVE InCommands
    <2>1. PICK m \in Message, k \in 1..Len(p2b) : AskedAt(m, k)
      BY <1>4 DEF Asked
    <2>2. m.id \in Ids /\ HasAnswer(m) /\ p2b[k] = m
      BY <2>1 DEF AskedAt, Message
    <2>3. m.type # "OTHER"
      BY <2>1 DEF AskedAt, Expects, Runs
    <2>4. Tracked(p2b[k])
      BY <1>1, <2>2, <2>3 DEF Tracked, NoGap
    <2> QED BY <2>4
  <1>5. ASSUME Answering PROVE InAnswers
    <2>1. b2p \in Seq(Packet) /\ 1 \in 1..Len(b2p)
      BY <1>5, TailFacts DEF Answering, IInv, TypeOK, AnswersTyped
    <2>2. PICK c : c = sent[b2p[1].id]
      OBVIOUS
    <2>3. b2p[1].id \in 1..Len(sent) /\ HasAnswer(c) /\ c.type # "OTHER"
      BY <1>1, <2>1, <2>2 DEF SentIs
    <2>4. c.id \in Ids
      <3>1. c \in Message
        BY <2>2, <2>3 DEF IInv, Core, StreamTyped
      <3> QED BY <3>1 DEF Message
    <2>5. Tracked(c)
      BY <1>1, <2>3, <2>4 DEF Tracked, NoGap
    <2> QED BY <2>1, <2>2, <2>5
  <1>6. ~HasPending => Resting
    BY <1>1, PhaseFacts
  <1>7. HasPending => ~Resting
    BY <1>1, PhaseFacts
  <1> HIDE DEF InCommands, InAnswers
  <1> QED BY <1>1, <1>2, <1>3, <1>4, <1>5, <1>6, <1>7 DEF Phase

\* The proxy awaits an acknowledgement exactly as long as a tracked command
\* or a part of its answer is on its way (has_pending_lifecycle_operation), for
\* result sets, PREPAREs and batches of any length: no command is let into the
\* middle of an answer, and none refused for an answer that is complete.
THEOREM AnswersAreTracked ==
  ASSUME Mode # "permissive"
  PROVE  Spec => []PendingIsOutstanding
  <1>1. IInv /\ TrackInv => PendingIsOutstanding
    BY PhaseTracks
  <1> QED BY <1>1, TrackInvariance, PTL

\* The text the server runs for a command is the text that was judged: the
\* registry keeps up with the statement ids of the server.
THEOREM RunsWhatWasJudged ==
  ASSUME Mode # "permissive"
  PROVE  Spec => []ExecutedIsJudged
  <1>1. TrackInv => ExecutedIsJudged
    BY DEF TrackInv, RanJudged, ExecutedIsJudged
  <1> QED BY <1>1, TrackInvariance, PTL

-----------------------------------------------------------------------------
(***************************************************************************)
(* The database of the session follows the server's from each INIT_DB that *)
(* succeeds up to the next USE statement.                                  *)
(***************************************************************************)
\* The server has switched and the proxy has not seen it yet.
Switching == pendingDb # None /\ b2p # <<>> /\ b2p[1].marker = "ok"

DatabaseInv ==
  open =>
    /\ moved \/ bDb = IF Switching THEN pendingDb ELSE database
    /\ \A i \in 1..Len(p2b) : p2b[i].type = "INIT_DB" => pendingDb = p2b[i].db

\* What the client pump lets through to the server was inspected, for a
\* command refused goes nowhere.
LEMMA LetThroughRuns ==
  ASSUME IInv, TrackInv, open, pc = "audit", verdict[cur[1].id] \in LetThrough
  PROVE  Weighing /\ Runs(cur[1])
  <1>1. ~Refusing
    BY DEF Refusing, LetThrough, Refused
  <1>2. ~Aside /\ ~Resting
    BY <1>1 DEF Aside, Resting
  <1> QED BY <1>2 DEF TrackInv, Phase, Asked, Answering, Weighing

\* What a step of the client pump leaves alone.
LEMMA PumpLeaves ==
  ASSUME ClientPump
  PROVE  UNCHANGED <<sent, b2p, database, txActive, bStmts, bLast, bDb, bTx, moved, quiet, executed>> /\ open
  BY DEF ClientPump, BlockedByPending, HandleProtocolGap, HandleQuery, HandleInitDb, HandleQuit,
         HandlePing, HandlePrepare, HandleClose, HandleReset, HandleStateError, HandleExecute,
         ResumeExecute, EstimateDone, UserDecides, AuditWritten, ClientPumpEnds, Command, server

\* The client pump forwards an INIT_DB only from its handler.
LEMMA PumpForwards ==
  ASSUME IInv, TrackInv, ClientPump, ~HandleInitDb
  PROVE  /\ UNCHANGED pendingDb
         /\ UNCHANGED p2b \/ \E q \in Message : q.type # "INIT_DB" /\ p2b' = Append(p2b, q)
  <1>1. open /\ SentIs
    BY PumpLeaves DEF TrackInv
  <1>2. /\ c2p # <<>> => Head(c2p) \in Message
        /\ pc # "read" => cur[1] \in Message
    BY <1>1, HeadsSent
  <1>3. CASE AuditWritten
    <2>1. UNCHANGED pendingDb /\ pc = "audit"
      BY <1>3 DEF AuditWritten, lifecycle
    <2>2. UNCHANGED p2b \/ (verdict[cur[1].id] \in LetThrough /\ p2b' = Append(p2b, cur[1]))
      BY <1>3 DEF AuditWritten, Forward
    <2>3. verdict[cur[1].id] \in LetThrough => Runs(cur[1])
      BY <1>1, <2>1, LetThroughRuns
    <2> QED BY <1>2, <2>1, <2>2, <2>3 DEF Runs
  <1>4. CASE HandleQuit \/ HandlePing \/ HandlePrepare \/ HandleClose \/ HandleReset
    <2>1. /\ c2p # <<>> /\ Head(c2p).type # "INIT_DB" /\ p2b' = Append(p2b, Head(c2p))
          /\ UNCHANGED pendingDb
      BY <1>4 DEF HandleQuit, HandlePing, HandlePrepare, HandleClose, HandleReset, Command, Forward, lifecycle
    <2> QED BY <1>2, <2>1
  <1>5. CASE BlockedByPending \/ HandleProtocolGap \/ HandleQuery \/ HandleStateError \/ HandleExecute
             \/ ResumeExecute \/ EstimateDone \/ UserDecides \/ ClientPumpEnds
    BY <1>5 DEF BlockedByPending, HandleProtocolGap, HandleQuery, HandleStateError, HandleExecute,
                ResumeExecute, EstimateDone, UserDecides, ClientPumpEnds, lifecycle
  <1> QED BY <1>3, <1>4, <1>5 DEF ClientPump

\* The client pump.
LEMMA PumpDatabase ==
  ASSUME IInv, TrackInv, DatabaseInv, ClientPump
  PROVE  DatabaseInv'
  <1>1. open /\ UNCHANGED <<b2p, database, bDb, moved>> /\ Phase /\ SentIs
    BY PumpLeaves DEF TrackInv
  <1>2. p2b \in Seq(Message) /\ Len(p2b) \in Nat /\ (c2p # <<>> => Head(c2p) \in Message)
    BY <1>1, HeadsSent DEF IInv, TypeOK, StreamTyped
  <1>3. CASE HandleInitDb
    <2>1. /\ c2p # <<>> /\ Head(c2p).type = "INIT_DB" /\ p2b' = Append(p2b, Head(c2p))
          /\ pendingDb' = Head(c2p).db /\ ~HasPending
      BY <1>3 DEF HandleInitDb, Command, Forward, MayDispatch, PipelinedExecute
    <2>2. NoAnswerIn(p2b) /\ b2p = <<>>
      BY <1>1, <2>1, PhaseFacts DEF Resting
    <2>3. (moved' \/ bDb' = database') /\ ~Switching'
      BY <1>1, <2>2 DEF DatabaseInv, Switching
    <2>4. \A i \in 1..Len(p2b) : p2b[i].type # "INIT_DB"
      BY <2>2 DEF NoAnswerIn, HasAnswer
    <2>5. ASSUME NEW i \in 1..Len(p2b'), p2b'[i].type = "INIT_DB" PROVE p2b'[i] = Head(c2p)
      BY <1>2, <2>1, <2>4, <2>5, AppendFacts
    <2> QED BY <2>1, <2>3, <2>5 DEF DatabaseInv
  <1>4. CASE ~HandleInitDb
    <2>1. /\ UNCHANGED pendingDb
          /\ UNCHANGED p2b \/ \E q \in Message : q.type # "INIT_DB" /\ p2b' = Append(p2b, q)
      BY <1>4, PumpForwards
    <2>2. moved' \/ bDb' = IF Switching' THEN pendingDb' ELSE database'
      BY <1>1, <2>1 DEF DatabaseInv, Switching
    <2>3. ASSUME NEW i \in 1..Len(p2b'), p2b'[i].type = "INIT_DB"
          PROVE  i \in 1..Len(p2b) /\ p2b'[i] = p2b[i]
      BY <1>2, <2>1, <2>3, AppendFacts
    <2> QED BY <1>1, <2>1, <2>2, <2>3 DEF DatabaseInv
  <1> QED BY <1>3, <1>4

\* The backend pump.
LEMMA RelayDatabase ==
  ASSUME IInv, TrackInv, DatabaseInv, BackendPump, open'
  PROVE  DatabaseInv'
  <1>1. open /\ b2p # <<>> /\ b2p' = Tail(b2p) /\ UNCHANGED <<p2b, bDb, moved>>
    BY DEF BackendPump, PingAnswered, ResetAnswered, DatabaseAnswered, PrepareFails, PrepareAccepted,
           MetadataArrives, CommandAnswered, UntrackedAnswer, Packets, server
  <1>2. Answering /\ OnlyQuits(p2b) /\ Fits(b2p)
    BY <1>1, PhaseFacts DEF TrackInv, Answering
  <1>3. \A i \in 1..Len(p2b') : p2b'[i].type # "INIT_DB"
    BY <1>1, <1>2 DEF OnlyQuits
  <1>4. CASE DatabaseAnswered
    <2>1. pendingDb # None /\ pendingDb' = None /\ database' = DatabaseAfter(Head(b2p))
      BY <1>4 DEF DatabaseAnswered
    <2>2. b2p[1] = Head(b2p)
      BY <1>1 DEF IInv, TypeOK, AnswersTyped
    <2>3. moved \/ bDb = IF Head(b2p).marker = "ok" THEN pendingDb ELSE database
      BY <1>1, <2>1, <2>2 DEF DatabaseInv, Switching
    <2>4. moved' \/ bDb' = database'
      BY <1>1, <2>1, <2>3 DEF DatabaseAfter
    <2> QED BY <1>3, <2>1, <2>4 DEF DatabaseInv, Switching
  <1>5. CASE ~DatabaseAnswered
    <2>1. UNCHANGED <<database, pendingDb>>
      BY <1>5 DEF BackendPump, PingAnswered, ResetAnswered, PrepareFails, PrepareAccepted,
                  MetadataArrives, CommandAnswered, UntrackedAnswer, lifecycle
    <2>2. pendingDb = None
      <3>1. pendingPing \/ pendingReset # None \/ pendingSql # None \/ pendingCmd \/ ~HasPending
        BY <1>5 DEF BackendPump, PingAnswered, ResetAnswered, PrepareFails, PrepareAccepted,
                    MetadataArrives, CommandAnswered, UntrackedAnswer, Preparing
      <3>2. Awaits("ping") \/ Awaits("reset") \/ Awaits("database") \/ Awaits("prepare") \/ Awaits("command")
        BY <1>2 DEF Fits
      <3> QED BY <3>1, <3>2 DEF Awaits, HasPending
    <2> QED BY <1>1, <1>3, <2>1, <2>2 DEF DatabaseInv, Switching
  <1> QED BY <1>4, <1>5

\* The server.
LEMMA ServerDatabase ==
  ASSUME IInv, TrackInv, DatabaseInv, Server
  PROVE  DatabaseInv'
  <1>0. PICK m : m = Head(p2b)
    OBVIOUS
  <1>1. /\ open /\ p2b # <<>> /\ p2b' = Tail(p2b) /\ UNCHANGED <<database, pendingDb>>
    BY DEF Server, ServerRuns, ServerPrepares, ServerFails, ServerAcknowledges,
           ServerResets, ServerTakes, Receive, lifecycle
  <1>2. /\ m \in Message /\ m = p2b[1] /\ p2b \in Seq(Message) /\ Phase
        /\ Len(p2b) \in Nat /\ Len(p2b') = Len(p2b) - 1
        /\ \A i \in 1..Len(p2b') : p2b'[i] = p2b[i + 1] /\ i + 1 \in 1..Len(p2b)
    BY <1>0, <1>1, TailFacts DEF IInv, TypeOK, StreamTyped, TrackInv
  <1>3. \A i \in 1..Len(p2b') : p2b'[i].type = "INIT_DB" => pendingDb' = p2b'[i].db
    BY <1>1, <1>2 DEF DatabaseInv
  <1>4. CASE ServerTakes
    BY <1>1, <1>3, <1>4 DEF ServerTakes, DatabaseInv, Switching
  <1>5. CASE ~ServerTakes
    <2>1. HasAnswer(m)
      BY <1>0, <1>5 DEF Server, ServerRuns, ServerPrepares, ServerFails, ServerAcknowledges,
           ServerResets, Receive, HasAnswer
    <2>2. b2p = <<>> /\ Expects(m)
      BY <1>0, <1>1, <1>2, <2>1, PhaseFacts
    <2>3. moved \/ bDb = database
      BY <1>1, <2>2 DEF DatabaseInv, Switching
    <2>4. /\ m.type = "INIT_DB" => pendingDb = m.db
          /\ m.type # "INIT_DB" => pendingDb = None
      <3>1. m.type = "INIT_DB" => pendingDb = m.db
        BY <1>1, <1>2 DEF DatabaseInv
      <3>2. m.type # "INIT_DB" => pendingDb = None
        BY <2>2 DEF Expects, Awaits
      <3> QED BY <3>1, <3>2
    <2>5. CASE ServerRuns
      <3>1. /\ m.type \in {"QUERY", "EXECUTE"}
            /\ bDb' = IF UseDb[TextOf(m)] = None THEN bDb ELSE UseDb[TextOf(m)]
            /\ moved' = (moved \/ UseDb[TextOf(m)] # None)
        BY <1>0, <2>5 DEF ServerRuns, Receive
      <3>2. moved' \/ bDb' = database
        BY <2>3, <3>1
      <3> QED BY <1>1, <1>3, <2>4, <3>1, <3>2 DEF DatabaseInv, Switching
    <2>6. CASE ServerPrepares
      BY <1>0, <1>1, <1>3, <2>3, <2>4, <2>6 DEF DatabaseInv, Switching, ServerPrepares, Receive
    <2>7. CASE ServerFails
      <3>1. PICK p : p = Plain(m, "err", FALSE)
        OBVIOUS
      <3>2. p \in Packet /\ p.marker = "err"
        BY <1>2, <3>1, PlainFields
      <3>3. PICK one : one = <<p>>
        OBVIOUS
      <3>4. one \in Seq(Packet) /\ Len(one) = 1 /\ one[1] = p
        BY <3>2, <3>3
      <3>5. b2p' = <<>> \o MarkLast(one)
        BY <1>0, <2>2, <2>7, <3>1, <3>3 DEF ServerFails, Answer
      <3>6. b2p'[1].marker = "err"
        BY <3>2, <3>4, <3>5, MarkFacts
      <3>7. UNCHANGED <<bDb, moved>>
        BY <2>7 DEF ServerFails
      <3> QED BY <1>1, <1>3, <2>3, <3>6, <3>7 DEF DatabaseInv, Switching
    <2>8. CASE ServerAcknowledges
      <3>1. /\ bDb' = (IF m.type = "INIT_DB" THEN m.db ELSE bDb)
            /\ moved' = (moved /\ m.type # "INIT_DB") /\ Answer(<<Plain(m, "ok", bTx)>>)
        BY <1>0, <2>8 DEF ServerAcknowledges
      <3>2. PICK p : p = Plain(m, "ok", bTx)
        OBVIOUS
      <3>3. p \in Packet /\ p.marker = "ok"
        <4>1. bTx \in BOOLEAN
          BY DEF IInv, TypeOK, ServerTyped
        <4> QED BY <1>2, <3>2, <4>1, PlainFields
      <3>4. PICK one : one = <<p>>
        OBVIOUS
      <3>5. one \in Seq(Packet) /\ Len(one) = 1 /\ one[1] = p
        BY <3>3, <3>4
      <3>6. b2p' = <<>> \o MarkLast(one)
        BY <2>2, <3>1, <3>2, <3>4 DEF Answer
      <3>7. b2p'[1].marker = "ok" /\ b2p' # <<>>
        <4>1. MarkLast(one) \in Seq(Packet) /\ Len(MarkLast(one)) = 1 /\ b2p' = MarkLast(one)
          BY <3>5, <3>6, MarkFacts
        <4>2. MarkLast(one)[1].marker = "ok"
          BY <3>3, <3>5, MarkFacts
        <4> QED BY <4>1, <4>2
      <3>8. m.type = "INIT_DB" => pendingDb # None
        BY <1>2, <2>4, TextsAssumption DEF Message
      <3> QED BY <1>1, <1>3, <2>3, <2>4, <3>1, <3>7, <3>8 DEF DatabaseInv, Switching
    <2> QED BY <1>5, <2>5, <2>6, <2>7, <2>8, NeverResets DEF Server
  <1> QED BY <1>4, <1>5

\* The row estimate of a command is made in the database the command will run
\* in, whatever the client sends ahead and whichever INIT_DB fails, except
\* between a USE statement, which the proxy does not follow, and the next
\* INIT_DB that succeeds.
THEOREM EstimatesWhereItRuns ==
  ASSUME Mode # "permissive"
  PROVE  Spec => []EstimateInActiveDatabase
  <1>1. Init => DatabaseInv
    BY DEF Init, DatabaseInv, Switching
  <1>2. IInv /\ TrackInv /\ DatabaseInv /\ [Next]_vars => DatabaseInv'
    <2> SUFFICES ASSUME IInv, TrackInv, DatabaseInv, [Next]_vars, open' PROVE DatabaseInv'
      BY DEF DatabaseInv
    <2>1. CASE UNCHANGED <<p2b, b2p, database, pendingDb, bDb, moved, open>>
      BY <2>1 DEF DatabaseInv, Switching
    <2>2. CASE \E r \in Requests : ClientSend(r)
      BY <2>1, <2>2 DEF ClientSend, lifecycle, server
    <2>3. CASE UNCHANGED vars
      BY <2>1, <2>3 DEF vars, lifecycle, server
    <2> QED BY <2>2, <2>3, PumpDatabase, RelayDatabase, ServerDatabase DEF Next
  <1>3. IInv /\ TrackInv /\ DatabaseInv => EstimateInActiveDatabase
    <2> SUFFICES ASSUME IInv, TrackInv, DatabaseInv, open, pc = "estimate" PROVE database = bDb \/ moved
      BY DEF EstimateInActiveDatabase
    <2>1. Weighing
      BY PhaseFacts DEF TrackInv
    <2>2. b2p = <<>>
      BY <2>1 DEF Weighing
    <2> QED BY <2>2 DEF DatabaseInv, Switching
  <1> QED BY <1>1, <1>2, <1>3, TrackInvariance, PTL DEF Spec

-----------------------------------------------------------------------------
(***************************************************************************)
(* The transaction status.  The proxy reads it from an OK where a result   *)
(* begins and from the EOF packets of a result set.                        *)
(***************************************************************************)
\* An OK where a result begins tells the status, every EOF does, and the
\* other packets are not read.
Honest(p, tx) == p.marker = "ok" => p.tx = tx
Tells(q, tx) ==
  /\ \A i \in 1..Len(q) : q[i].marker = "eof" => q[i].tx = tx
  /\ q # <<>> => Honest(q[1], tx)
  /\ \A i \in 1..Len(q) - 1 : q[i].more => Honest(q[i + 1], tx)

\* A packet in the middle of a result set.
Inner(tx) == {p \in Packet : ~p.more /\ (p.marker = "eof" => p.tx = tx)}

\* One result: inner packets behind a header, and its end.
LEMMA TellsResult ==
  ASSUME NEW tx, NEW v \in Seq(Inner(tx)), v # <<>> => v[1].marker = "data",
         NEW e \in Packet, e.marker \in {"ok", "eof"} => e.tx = tx
  PROVE  v \o <<e>> \in Seq(Packet) /\ Tells(v \o <<e>>, tx)
  <1>1. PICK o, q : o = <<e>> /\ q = v \o o
    OBVIOUS
  <1>2. v \in Seq(Packet) /\ \A i \in 1..Len(v) : v[i] \in Inner(tx)
    BY DEF Inner
  <1>3. o \in Seq(Packet) /\ Len(o) = 1 /\ o[1] = e
    BY <1>1
  <1>4. /\ q \in Seq(Packet) /\ Len(v) \in Nat /\ Len(q) = Len(v) + 1
        /\ \A i \in 1..Len(v) : q[i] = v[i]
        /\ q[Len(v) + 1] = e
    <2>1. /\ q \in Seq(Packet) /\ Len(v) \in Nat /\ Len(q) = Len(v) + Len(o)
          /\ \A i \in 1..Len(v) : q[i] = v[i]
          /\ \A i \in Len(v) + 1..Len(v) + Len(o) : q[i] = o[i - Len(v)]
      BY <1>1, <1>2, <1>3, ConcatFacts
    <2>2. Len(v) + 1 \in Len(v) + 1..Len(v) + 1 /\ (Len(v) + 1) - Len(v) = 1
      BY <2>1
    <2> QED BY <1>3, <2>1, <2>2
  <1>5. ASSUME NEW i \in 1..Len(q), q[i].marker = "eof" PROVE q[i].tx = tx
    <2>1. i \in 1..Len(v) \/ i = Len(v) + 1
      BY <1>4
    <2> QED BY <1>2, <1>4, <1>5, <2>1 DEF Inner
  <1>6. Honest(q[1], tx)
    <2>1. CASE v = <<>>
      <3>1. Len(v) = 0
        BY <2>1
      <3>2. q[1] = e
        BY <1>4, <3>1
      <3> QED BY <3>2 DEF Honest
    <2>2. CASE v # <<>>
      <3>1. 1 \in 1..Len(v)
        BY <1>2, <2>2, TailFacts
      <3> QED BY <1>4, <2>2, <3>1 DEF Honest
    <2> QED BY <2>1, <2>2
  <1>7. ASSUME NEW i \in 1..Len(q) - 1 PROVE ~q[i].more
    <2>1. i \in 1..Len(v)
      BY <1>4
    <2> QED BY <1>2, <1>4, <2>1 DEF Inner
  <1>8. Tells(q, tx)
    BY <1>5, <1>6, <1>7 DEF Tells
  <1> QED BY <1>1, <1>4, <1>8

\* One result behind another.
LEMMA TellsConcat ==
  ASSUME NEW tx, NEW u \in Seq(Packet), NEW v \in Seq(Packet), Tells(u, tx), Tells(v, tx)
  PROVE  Tells(u \o v, tx)
  <1>1. PICK q : q = u \o v
    OBVIOUS
  <1>2. /\ q \in Seq(Packet) /\ Len(u) \in Nat /\ Len(v) \in Nat /\ Len(q) = Len(u) + Len(v)
        /\ \A i \in 1..Len(u) : q[i] = u[i]
        /\ \A i \in Len(u) + 1..Len(u) + Len(v) : q[i] = v[i - Len(u)]
    BY <1>1, ConcatFacts
  <1>3. ASSUME NEW i \in 1..Len(q), q[i].marker = "eof" PROVE q[i].tx = tx
    <2>1. CASE i \in 1..Len(u)
      BY <1>2, <1>3, <2>1 DEF Tells
    <2>2. CASE i \in Len(u) + 1..Len(u) + Len(v)
      <3>1. i - Len(u) \in 1..Len(v)
        BY <1>2, <2>2
      <3> QED BY <1>2, <1>3, <2>2, <3>1 DEF Tells
    <2> QED BY <1>2, <2>1, <2>2
  <1>4. v # <<>> => 1 \in 1..Len(v)
    BY TailFacts
  <1>5. ASSUME q # <<>> PROVE Honest(q[1], tx)
    <2>1. CASE u # <<>>
      <3>1. 1 \in 1..Len(u)
        BY <2>1, TailFacts
      <3> QED BY <1>2, <2>1, <3>1 DEF Tells
    <2>2. CASE u = <<>>
      <3>1. Len(u) = 0 /\ v # <<>>
        BY <1>1, <1>5, <2>2
      <3>2. q[1] = v[1]
        BY <1>2, <1>4, <3>1
      <3> QED BY <3>1, <3>2 DEF Tells
    <2> QED BY <2>1, <2>2
  <1>6. ASSUME NEW i \in 1..Len(q) - 1, q[i].more PROVE Honest(q[i + 1], tx)
    <2>1. CASE i < Len(u)
      <3>1. i \in 1..Len(u) - 1 /\ i \in 1..Len(u) /\ i + 1 \in 1..Len(u)
        BY <1>2, <2>1
      <3> QED BY <1>2, <1>6, <3>1 DEF Tells
    <2>2. CASE i = Len(u)
      <3>1. i + 1 \in Len(u) + 1..Len(u) + Len(v) /\ (i + 1) - Len(u) = 1 /\ Len(v) # 0
        BY <1>2, <2>2
      <3>2. q[i + 1] = v[1] /\ v # <<>>
        BY <1>2, <3>1
      <3> QED BY <3>2 DEF Tells
    <2>3. CASE i > Len(u)
      <3>1. /\ i - Len(u) \in 1..Len(v) - 1 /\ (i + 1) - Len(u) = (i - Len(u)) + 1
            /\ i \in Len(u) + 1..Len(u) + Len(v) /\ i + 1 \in Len(u) + 1..Len(u) + Len(v)
        BY <1>2, <2>3
      <3>2. q[i] = v[i - Len(u)] /\ q[i + 1] = v[(i - Len(u)) + 1]
        BY <1>2, <3>1
      <3> QED BY <1>6, <3>1, <3>2 DEF Tells
    <2> QED BY <1>2, <2>1, <2>2, <2>3
  <1>7. Tells(q, tx)
    BY <1>3, <1>5, <1>6 DEF Tells
  <1> QED BY <1>1, <1>7

\* The server gives up before the last packet.
LEMMA TellsCut ==
  ASSUME NEW tx, NEW q \in Seq(Packet), Tells(q, tx), Len(q) > 1, NEW e \in Packet, e.marker = "err"
  PROVE  LET r == SubSeq(q, 1, Len(q) - 1) \o <<e>>
         IN  r \in Seq(Packet) /\ Tells(r, tx) /\ r[1] = q[1]
  <1>1. PICK s, o, r : s = SubSeq(q, 1, Len(q) - 1) /\ o = <<e>> /\ r = s \o o
    OBVIOUS
  <1>2. /\ s \in Seq(Packet) /\ Len(q) \in Nat /\ Len(s) = Len(q) - 1
        /\ \A i \in 1..Len(q) - 1 : s[i] = q[i]
    BY <1>1
  <1>3. o \in Seq(Packet) /\ Len(o) = 1 /\ o[1] = e
    BY <1>1
  <1>4. /\ r \in Seq(Packet) /\ Len(r) = Len(q)
        /\ \A i \in 1..Len(q) - 1 : r[i] = q[i]
        /\ r[Len(q)] = e
    <2>1. /\ r \in Seq(Packet) /\ Len(r) = Len(s) + Len(o)
          /\ \A i \in 1..Len(s) : r[i] = s[i]
          /\ \A i \in Len(s) + 1..Len(s) + Len(o) : r[i] = o[i - Len(s)]
      BY <1>1, <1>2, <1>3, ConcatFacts
    <2>2. Len(q) \in Len(s) + 1..Len(s) + Len(o) /\ Len(q) - Len(s) = 1
      BY <1>2, <1>3
    <2> QED BY <1>2, <1>3, <2>1, <2>2
  <1>5. ASSUME NEW i \in 1..Len(r), r[i].marker = "eof" PROVE r[i].tx = tx
    <2>1. i \in 1..Len(q) - 1 /\ i \in 1..Len(q)
      BY <1>2, <1>4, <1>5
    <2> QED BY <1>4, <1>5, <2>1 DEF Tells
  <1>6. r[1] = q[1] /\ Honest(r[1], tx)
    <2>1. 1 \in 1..Len(q) - 1 /\ q # <<>>
      BY <1>2
    <2> QED BY <1>4, <2>1 DEF Tells
  <1>7. ASSUME NEW i \in 1..Len(r) - 1, r[i].more PROVE Honest(r[i + 1], tx)
    <2>1. i \in 1..Len(q) - 1 /\ q[i].more
      BY <1>4, <1>7
    <2>2. CASE i + 1 = Len(q)
      BY <1>4, <2>2 DEF Honest
    <2>3. CASE i + 1 # Len(q)
      <3>1. i + 1 \in 1..Len(q) - 1
        BY <1>2, <2>1, <2>3
      <3> QED BY <1>4, <2>1, <3>1 DEF Tells
    <2> QED BY <2>2, <2>3
  <1>8. Tells(r, tx)
    BY <1>5, <1>6, <1>7 DEF Tells
  <1> QED BY <1>1, <1>4, <1>6, <1>8

\* Marking the last packet changes no status.
LEMMA TellsMarked ==
  ASSUME NEW tx, NEW q \in Seq(Packet), Tells(q, tx)
  PROVE  Tells(MarkLast(q), tx)
  <1>1. PICK w : w = MarkLast(q)
    OBVIOUS
  <1>2. DOMAIN q = 1..Len(q) /\ Len(q) \in Nat /\ w \in Seq(Packet) /\ Len(w) = Len(q)
    BY <1>1, MarkFacts
  <1>3. ASSUME NEW i \in 1..Len(q)
        PROVE  w[i].marker = q[i].marker /\ w[i].tx = q[i].tx /\ w[i].more = q[i].more
    <2>1. q[i] \in Packet /\ (i = Len(q)) \in BOOLEAN
      BY <1>2
    <2>2. w[i] = [q[i] EXCEPT !.last = (i = Len(q))]
      BY <1>1, <1>2 DEF MarkLast
    <2> QED BY <2>1, <2>2 DEF Packet
  <1>4. \A i \in 1..Len(w) : w[i].marker = "eof" => w[i].tx = tx
    BY <1>2, <1>3 DEF Tells
  <1>5. w # <<>> => Honest(w[1], tx)
    <2>1. w # <<>> => q # <<>> /\ 1 \in 1..Len(q)
      BY <1>2, TailFacts
    <2> QED BY <1>3, <2>1 DEF Tells, Honest
  <1>6. ASSUME NEW i \in 1..Len(w) - 1, w[i].more PROVE Honest(w[i + 1], tx)
    <2>1. i \in 1..Len(q) - 1 /\ i \in 1..Len(q) /\ i + 1 \in 1..Len(q)
      BY <1>2
    <2> QED BY <1>3, <1>6, <2>1 DEF Tells, Honest
  <1>7. Tells(w, tx)
    BY <1>4, <1>5, <1>6 DEF Tells
  <1> QED BY <1>1, <1>7

\* One result tells the status it was made with.
LEMMA ResultTells ==
  ASSUME NEW m \in Message, NEW sql \in SQL, NEW tx \in BOOLEAN, NEW rows \in Nat,
         NEW meta \in BOOLEAN, NEW more \in BOOLEAN
  PROVE  LET q == ResultOf(m, sql, tx, rows, meta, more)
         IN  q \in Seq(Packet) /\ q # <<>> /\ Tells(q, tx) /\ q[Len(q)].marker # "err"
  <1> DEFINE end == [Plain(m, IF Columns[sql] = 0 THEN "ok" ELSE "eof", tx) EXCEPT !.more = more]
             header == [Plain(m, "data", FALSE) EXCEPT !.n = Columns[sql], !.meta = meta]
             definitions == IF meta THEN Copies(Plain(m, "data", FALSE), Columns[sql]) ELSE <<>>
             separator == IF DeprecateEof THEN <<>> ELSE <<Plain(m, "eof", tx)>>
             row == Plain(m, IF m.type = "EXECUTE" THEN "ok" ELSE "data", FALSE)
             result == ResultOf(m, sql, tx, rows, meta, more)
  <1>0. Columns[sql] \in Nat
    BY TextsAssumption
  <1>1. result = IF Columns[sql] = 0 THEN <<end>>
                 ELSE <<header>> \o definitions \o separator \o Copies(row, rows) \o <<end>>
    BY DEF ResultOf
  <1>p. ASSUME NEW mk \in {"ok", "err", "eof", "data"}, NEW t \in BOOLEAN, mk = "eof" => t = tx
        PROVE  Plain(m, mk, t) \in Inner(tx) /\ Plain(m, mk, t).marker = mk /\ Plain(m, mk, t).tx = t
    <2>1. Plain(m, mk, t) \in Packet /\ Plain(m, mk, t).marker = mk /\ ~Plain(m, mk, t).more
      BY PlainFields
    <2>2. Plain(m, mk, t).tx = t
      BY DEF Plain, ErrorPacket
    <2> QED BY <1>p, <2>1, <2>2 DEF Inner
  <1>2. end \in Packet /\ end.marker = (IF Columns[sql] = 0 THEN "ok" ELSE "eof") /\ end.tx = tx
    <2>1. PICK mk : mk = IF Columns[sql] = 0 THEN "ok" ELSE "eof"
      OBVIOUS
    <2>2. mk \in {"ok", "err", "eof", "data"}
      BY <2>1
    <2>3. PICK p : p = Plain(m, mk, tx)
      OBVIOUS
    <2>4. p \in Packet /\ p.marker = mk /\ p.tx = tx
      BY <1>p, <2>2, <2>3 DEF Inner
    <2>5. end = [p EXCEPT !.more = more]
      BY <2>1, <2>3
    <2> HIDE DEF end
    <2>6. end \in Packet /\ end.marker = mk /\ end.tx = tx
      BY <2>4, <2>5 DEF Packet
    <2> QED BY <2>1, <2>6
  <1>3. header \in Inner(tx) /\ header.marker = "data"
    <2>1. PICK p : p = Plain(m, "data", FALSE)
      OBVIOUS
    <2>2. p \in Inner(tx) /\ p.marker = "data"
      BY <1>p, <2>1
    <2>3. header = [p EXCEPT !.n = Columns[sql], !.meta = meta]
      BY <2>1
    <2> HIDE DEF header
    <2> QED BY <1>0, <2>2, <2>3 DEF Inner, Packet
  <1>4. Copies(row, rows) \in Seq(Inner(tx))
    <2>1. row \in Inner(tx)
      <3>1. PICK mk : mk = IF m.type = "EXECUTE" THEN "ok" ELSE "data"
        OBVIOUS
      <3>2. mk \in {"ok", "err", "eof", "data"} /\ mk # "eof"
        BY <3>1
      <3>3. row = Plain(m, mk, FALSE)
        BY <3>1
      <3> QED BY <1>p, <3>2, <3>3
    <2> HIDE DEF row
    <2> QED BY <2>1, CopiesTyped
  <1>5. definitions \in Seq(Inner(tx))
    <2>1. Plain(m, "data", FALSE) \in Inner(tx)
      BY <1>p
    <2>2. Copies(Plain(m, "data", FALSE), Columns[sql]) \in Seq(Inner(tx))
      BY <1>0, <2>1, CopiesTyped
    <2>3. <<>> \in Seq(Inner(tx))
      OBVIOUS
    <2> QED BY <2>2, <2>3, Zenon
  <1>6. separator \in Seq(Inner(tx))
    <2>1. PICK p : p = Plain(m, "eof", tx)
      OBVIOUS
    <2>2. p \in Inner(tx)
      BY <1>p, <2>1
    <2>3. <<p>> \in Seq(Inner(tx)) /\ <<>> \in Seq(Inner(tx))
      BY <2>2
    <2> QED BY <2>1, <2>3, Zenon
  <1> HIDE DEF end, header, definitions, separator, row
  <1>7. CASE Columns[sql] = 0
    <2>1. PICK v : v = <<>>
      OBVIOUS
    <2>2. v \in Seq(Inner(tx)) /\ v \o <<end>> = <<end>>
      BY <1>2, <2>1
    <2>3. v \o <<end>> \in Seq(Packet) /\ Tells(v \o <<end>>, tx)
      BY <1>2, <2>1, <2>2, TellsResult
    <2>4. PICK one : one = <<end>>
      OBVIOUS
    <2>5. one # <<>> /\ one[Len(one)].marker # "err"
      BY <1>2, <1>7, <2>4
    <2>6. result = one
      BY <1>1, <1>7, <2>4
    <2>7. one \in Seq(Packet) /\ Tells(one, tx)
      BY <2>2, <2>3, <2>4
    <2> HIDE DEF result
    <2> QED BY <2>5, <2>6, <2>7 DEF result
  <1>8. CASE Columns[sql] # 0
    <2>0. PICK hs, rs : hs = <<header>> /\ rs = Copies(row, rows)
      OBVIOUS
    <2>1. hs \in Seq(Inner(tx)) /\ rs \in Seq(Inner(tx)) /\ Len(hs) = 1 /\ hs[1] = header
      BY <1>3, <1>4, <2>0
    <2>b. ASSUME NEW x \in Seq(Inner(tx)), NEW y \in Seq(Inner(tx)), Len(x) > 0, x[1] = header
          PROVE  x \o y \in Seq(Inner(tx)) /\ Len(x \o y) > 0 /\ (x \o y)[1] = header
      <3>1. /\ x \o y \in Seq(Inner(tx)) /\ Len(x) \in Nat /\ Len(y) \in Nat
            /\ Len(x \o y) = Len(x) + Len(y)
            /\ \A i \in 1..Len(x) : (x \o y)[i] = x[i]
        BY ConcatFacts
      <3>2. 1 \in 1..Len(x)
        BY <2>b, <3>1
      <3> QED BY <2>b, <3>1, <3>2
    <2>3. PICK a : a = hs \o definitions
      OBVIOUS
    <2>2. a \in Seq(Inner(tx)) /\ Len(a) > 0 /\ a[1] = header
      BY <1>5, <2>1, <2>3, <2>b
    <2>5. PICK b : b = a \o separator
      OBVIOUS
    <2>4. b \in Seq(Inner(tx)) /\ Len(b) > 0 /\ b[1] = header
      BY <1>6, <2>2, <2>5, <2>b
    <2>6. PICK v : v = b \o rs
      OBVIOUS
    <2>7. v \in Seq(Inner(tx)) /\ v[1] = header
      BY <2>1, <2>4, <2>6, <2>b
    <2>8. v \o <<end>> \in Seq(Packet) /\ Tells(v \o <<end>>, tx)
      BY <1>2, <1>3, <2>7, TellsResult
    <2>9. v \o <<end>> # <<>>
      BY <1>2, <2>7
    <2>10. result = v \o <<end>>
      BY <1>1, <1>8, <2>0, <2>3, <2>5, <2>6
    <2>11. PICK q, o : q = v \o o /\ o = <<end>>
      OBVIOUS
    <2>12. o \in Seq(Packet) /\ Len(o) = 1 /\ o[1] = end /\ v \in Seq(Packet)
      BY <1>2, <2>7, <2>11 DEF Inner
    <2>13. /\ Len(v) \in Nat /\ Len(q) = Len(v) + Len(o)
           /\ \A i \in Len(v) + 1..Len(v) + Len(o) : q[i] = o[i - Len(v)]
      BY <2>11, <2>12, ConcatFacts
    <2>14. Len(q) \in Len(v) + 1..Len(v) + Len(o) /\ Len(q) - Len(v) = 1
      BY <2>12, <2>13
    <2>15. q[Len(q)].marker # "err"
      BY <1>2, <2>12, <2>13, <2>14
    <2> HIDE DEF result
    <2> QED BY <2>8, <2>9, <2>10, <2>11, <2>15 DEF result
  <1> QED BY <1>7, <1>8

\* So do the results of a command.
LEMMA ResultsTell ==
  ASSUME NEW m \in Message, NEW sql \in SQL, NEW tx \in BOOLEAN,
         NEW packets \in Results(m, sql, tx)
  PROVE  /\ packets \in Seq(Packet) /\ packets # <<>> /\ Tells(packets, tx)
         /\ packets[Len(packets)].marker # "err"
  <1> DEFINE metas == IF m.type = "EXECUTE" THEN BOOLEAN ELSE {TRUE}
             single == UNION {{ResultOf(m, sql, tx, rows, meta, FALSE) : rows \in 0..MaxRows} :
                                meta \in metas}
             first == ResultOf(m, sql, tx, 0, TRUE, TRUE)
             Good(q) == q \in Seq(Packet) /\ q # <<>> /\ Tells(q, tx) /\ q[Len(q)].marker # "err"
  <1>0. \A meta \in metas : meta \in BOOLEAN
    BY Zenon
  <1>1. \/ packets \in single
        \/ packets \in {first \o s : s \in single}
    <2>1. Results(m, sql, tx) = IF Class[sql].impact_kind = "batch"
                                  THEN {first \o s : s \in single} ELSE single
      BY DEF Results
    <2> HIDE DEF single
    <2> QED BY <2>1
  <1> HIDE DEF metas
  <1>2. ASSUME NEW s \in single PROVE Good(s)
    <2>1. PICK rows \in 0..MaxRows, meta \in metas : s = ResultOf(m, sql, tx, rows, meta, FALSE)
      BY <1>2
    <2>2. rows \in Nat /\ meta \in BOOLEAN
      BY <1>0, <2>1, BoundsAssumption
    <2> HIDE DEF single
    <2> QED BY <2>1, <2>2, ResultTells
  <1>3. Good(first)
    BY ResultTells
  <1> HIDE DEF single, first
  <1>4. ASSUME NEW s \in single PROVE Good(first \o s)
    <2>1. Good(s) /\ Len(first) \in Nat \ {0}
      BY <1>2, <1>3, TailFacts
    <2>a. PICK q : q = first \o s
      OBVIOUS
    <2>b. /\ q \in Seq(Packet) /\ Len(s) \in Nat \ {0} /\ Len(q) = Len(first) + Len(s)
          /\ \A i \in Len(first) + 1..Len(first) + Len(s) : q[i] = s[i - Len(first)]
      BY <1>3, <2>1, <2>a, ConcatFacts, TailFacts
    <2>c. Len(q) \in Len(first) + 1..Len(first) + Len(s) /\ Len(q) - Len(first) = Len(s) /\ Len(q) # 0
      BY <2>1, <2>b
    <2>2. first \o s \in Seq(Packet) /\ first \o s # <<>> /\ (first \o s)[Len(first \o s)].marker # "err"
      BY <2>1, <2>a, <2>b, <2>c
    <2>3. Tells(first \o s, tx)
      BY <1>3, <2>1, TellsConcat
    <2> QED BY <1>3, <2>2, <2>3
  <1> QED BY <1>1, <1>2, <1>4

\* The next packet is the first of a result.
Fresh == pendingCmd => stage = "initial"

\* The packets on their way tell the server's status where the proxy reads it,
\* and the proxy knows it already or the end of the answer will tell.
Told ==
  /\ \A i \in 1..Len(b2p) : b2p[i].marker = "eof" => b2p[i].tx = bTx
  /\ Fresh => Honest(b2p[1], bTx)
  /\ \A i \in 1..Len(b2p) - 1 : b2p[i].more => Honest(b2p[i + 1], bTx)
  /\ txActive = bTx \/ b2p[Len(b2p)].marker # "err"

StatusInv ==
  (open /\ ~quiet) => IF b2p = <<>> \/ pendingSql # None THEN txActive = bTx ELSE Told

\* The client pump changes nothing the status depends on while an answer other
\* than that of a PREPARE is on its way.
LEMMA PumpStatus ==
  ASSUME IInv, TrackInv, StatusInv, ClientPump
  PROVE  StatusInv'
  <1>1. open /\ UNCHANGED <<b2p, txActive, bTx, quiet>> /\ Phase
    BY PumpLeaves DEF TrackInv
  <1>2. CASE UNCHANGED <<pendingSql, pendingCmd, stage>>
    BY <1>1, <1>2 DEF StatusInv, Told, Fresh
  <1>3. CASE b2p = <<>> \/ (pendingSql # None /\ UNCHANGED pendingSql)
    BY <1>1, <1>3 DEF StatusInv
  <1>4. CASE HandleQuery \/ HandlePrepare
    <2>1. c2p # <<>> /\ Head(c2p).type \in {"QUERY", "PREPARE"} /\ MayDispatch(Head(c2p))
      BY <1>4 DEF HandleQuery, HandlePrepare, Command
    <2>2. ~HasPending
      BY <2>1 DEF MayDispatch, PipelinedExecute
    <2>3. b2p = <<>>
      BY <1>1, <2>2, PhaseFacts DEF Resting
    <2> QED BY <1>3, <2>3
  <1>5. CASE HandleExecute
    <2>1. MayDispatch(Head(c2p)) /\ UNCHANGED pendingSql /\ Head(c2p).type = "EXECUTE"
      BY <1>5 DEF HandleExecute, Command, lifecycle
    <2>2. CASE HasPending
      BY <1>3, <2>1, <2>2 DEF MayDispatch, PipelinedExecute
    <2>3. CASE ~HasPending
      <3>1. b2p = <<>>
        BY <1>1, <2>3, PhaseFacts DEF Resting
      <3> QED BY <1>3, <3>1
    <2> QED BY <2>2, <2>3
  <1>6. CASE ResumeExecute
    <2>1. pc = "wait" /\ pendingSql = None
      BY <1>6 DEF ResumeExecute
    <2>2. b2p = <<>>
      <3>1. ~Answering
        BY <2>1 DEF Answering, Aside, Awaits, Refusing
      <3> QED BY <1>1, <3>1, PhaseFacts
    <2> QED BY <1>3, <2>2
  <1>7. CASE AuditWritten
    <2>1. pc = "audit" /\ UNCHANGED pendingSql
      BY <1>7 DEF AuditWritten, lifecycle
    <2>2. CASE Answering
      <3>1. Runs(cur[1]) => pendingSql # None
        BY <2>1, <2>2 DEF Answering, Aside, Refusing, Awaits
      <3>2. CASE Runs(cur[1])
        BY <1>3, <2>1, <3>1, <3>2
      <3>3. CASE ~Runs(cur[1])
        <4>1. UNCHANGED response
          BY <1>7, <3>3 DEF AuditWritten, AfterRefusal, Runs
        <4> QED BY <1>2, <2>1, <4>1 DEF response
      <3> QED BY <3>2, <3>3
    <2>3. CASE ~Answering
      <3>1. b2p = <<>>
        BY <1>1, <2>3, PhaseFacts
      <3> QED BY <1>3, <3>1
    <2> QED BY <2>2, <2>3
  <1>8. CASE BlockedByPending \/ HandleProtocolGap \/ HandleInitDb \/ HandleQuit \/ HandlePing
             \/ HandleClose \/ HandleReset \/ HandleStateError \/ EstimateDone \/ UserDecides
             \/ ClientPumpEnds
    <2>1. UNCHANGED <<pendingSql, pendingCmd, stage>>
      BY <1>8 DEF BlockedByPending, HandleProtocolGap, HandleInitDb, HandleQuit, HandlePing,
                  HandleClose, HandleReset, HandleStateError, EstimateDone, UserDecides,
                  ClientPumpEnds, lifecycle, response
    <2> QED BY <1>2, <2>1
  <1> QED BY <1>4, <1>5, <1>6, <1>7, <1>8 DEF ClientPump

\* A new result begins within an answer only where the packet before said so.
LEMMA NextResult ==
  ASSUME NEW p, Track(p), pendingCmd', stage' = "initial"
  PROVE  p.more
  BY DEF Track, FailCommandForward, FinishOrContinue, BeginCommandResponse, AwaitRows, response

\* The backend pump.
LEMMA RelayStatus ==
  ASSUME IInv, TrackInv, TrackInv', StatusInv, BackendPump
  PROVE  StatusInv'
  <1> SUFFICES ASSUME open', ~quiet' PROVE StatusInv'
    BY DEF StatusInv
  <1>0. PICK p : p = Head(b2p)
    OBVIOUS
  <1>1. open /\ b2p # <<>> /\ b2p' = Tail(b2p) /\ UNCHANGED <<bTx, quiet>>
    BY DEF BackendPump, PingAnswered, ResetAnswered, DatabaseAnswered, PrepareFails, PrepareAccepted,
           MetadataArrives, CommandAnswered, UntrackedAnswer, Packets, server
  <1>2. /\ p = b2p[1] /\ p \in Packet /\ Len(b2p) \in Nat \ {0} /\ Len(b2p') = Len(b2p) - 1
        /\ \A i \in 1..Len(b2p) - 1 : b2p'[i] = b2p[i + 1]
    BY <1>0, <1>1, TailFacts DEF IInv, TypeOK, AnswersTyped
  <1>3. Answering /\ Fits(b2p) /\ HasPending
    <2>1. Answering /\ ~Resting
      BY <1>1, PhaseFacts DEF TrackInv, Resting
    <2> QED BY <1>1, <2>1, PhaseFacts DEF TrackInv, Answering
  <1>4. CASE PingAnswered \/ ResetAnswered \/ DatabaseAnswered
    <2>1. /\ pendingPing \/ pendingReset # None \/ pendingDb # None
          /\ txActive' = StatusOf(p)
      BY <1>0, <1>4 DEF PingAnswered, ResetAnswered, DatabaseAnswered
    <2>2. ~Awaits("prepare") /\ ~Awaits("command")
      BY <2>1 DEF Awaits
    <2>3. /\ Len(b2p) = 1 /\ pendingSql = None /\ ~pendingCmd
          /\ b2p[1].marker \in {"ok", "err"}
      BY <1>3, <2>2 DEF Fits, Awaits
    <2>4. Told
      BY <1>1, <2>3 DEF StatusInv
    <2>5. txActive' = bTx
      BY <1>2, <2>1, <2>3, <2>4 DEF Told, Fresh, Honest, StatusOf
    <2>6. b2p' = <<>>
      BY <1>2, <2>3 DEF IInv, TypeOK, AnswersTyped
    <2> QED BY <1>1, <2>5, <2>6 DEF StatusInv
  <1>5. CASE PrepareFails \/ PrepareAccepted \/ MetadataArrives
    <2>1. /\ pendingSql # None
          /\ UNCHANGED <<txActive, pendingDb, pendingPing, pendingReset, pendingCmd>>
      BY <1>5 DEF PrepareFails, PrepareAccepted, MetadataArrives, Preparing, response
    <2>2. txActive' = bTx'
      BY <1>1, <2>1 DEF StatusInv
    <2>3. Awaits("prepare")
      BY <1>1, <2>1, PhaseFacts DEF TrackInv
    <2>4. pendingSql' = None => ~HasPending'
      BY <2>1, <2>3 DEF Awaits, HasPending
    <2>5. b2p' # <<>> => HasPending'
      <3>1. b2p' # <<>> => Fits(b2p)'
        BY DEF TrackInv, Phase, Resting, Weighing, Asked, Answering
      <3>2. Fits(b2p)' => HasPending'
        BY DEF Fits, Awaits, HasPending
      <3> QED BY <3>1, <3>2
    <2> QED BY <2>2, <2>4, <2>5 DEF StatusInv
  <1>6. CASE CommandAnswered
    <2>1. /\ pendingCmd /\ pendingSql = None /\ Track(p)
          /\ txActive' = IF CarriesStatus(p) THEN p.tx ELSE txActive
      BY <1>0, <1>6 DEF CommandAnswered, NothingElsePending
    <2>2. Told
      BY <1>1, <2>1 DEF StatusInv
    <2>3. 1 \in 1..Len(b2p)
      BY <1>2
    <2>4. CarriesStatus(p) => txActive' = bTx
      BY <1>2, <2>1, <2>2, <2>3 DEF Told, CarriesStatus, Fresh, Honest
    <2>a. ~CarriesStatus(p) => txActive' = txActive
      BY <2>1
    <2>b. \/ Len(b2p) = 1 /\ Ends(<<stage, columns>>, p)
          \/ Len(b2p) > 1
      <3>1. Awaits("command") /\ Parses(<<stage, columns>>, b2p)
        <4>1. ~Awaits("ping") /\ ~Awaits("reset") /\ ~Awaits("database") /\ ~Awaits("prepare")
          BY <2>1 DEF Awaits
        <4> QED BY <1>3, <4>1 DEF Fits
      <3>2. b2p \in Seq(Packet)
        BY DEF IInv, TypeOK, AnswersTyped
      <3>3. PICK a : a = <<stage, columns>>
        OBVIOUS
      <3> QED BY <1>1, <1>2, <3>1, <3>2, <3>3, ParseHead
    <2>5. CASE b2p' = <<>>
      <3>1. Len(b2p) = 1
        BY <1>2, <2>5
      <3>2. p.marker = "err" \/ CarriesStatus(p)
        BY <2>b, <3>1 DEF Ends, CarriesStatus
      <3>3. p.marker = "err" => txActive = bTx
        BY <1>2, <2>2, <3>1 DEF Told
      <3>4. txActive' = bTx
        BY <2>4, <2>a, <3>2, <3>3
      <3> QED BY <1>1, <2>5, <3>4 DEF StatusInv
    <2>6. CASE b2p' # <<>>
      <3>1. Fits(b2p)' /\ pendingSql' = None
        <4>1. Answering'
          BY <2>6 DEF TrackInv, Phase, Resting, Weighing, Asked
        <4>2. pendingSql' = None
          BY <1>6, <2>1 DEF CommandAnswered, lifecycle
        <4> QED BY <4>1, <4>2 DEF Answering
      <3>2. Len(b2p) > 1
        BY <1>2, <2>6 DEF IInv, TypeOK, AnswersTyped
      <3>3. b2p'[1] = b2p[2] /\ 1 \in 1..Len(b2p) - 1
        BY <1>2, <3>2
      <3>4. pendingCmd'
        <4>1. UNCHANGED <<pendingPing, pendingReset, pendingDb>>
          BY <1>6 DEF CommandAnswered, lifecycle
        <4>2. ~pendingPing /\ pendingReset = None /\ pendingDb = None
          BY <1>6 DEF CommandAnswered, NothingElsePending
        <4> QED BY <3>1, <4>1, <4>2 DEF Fits, Awaits
      <3>5. Fresh' => Honest(b2p'[1], bTx)
        <4>1. Fresh' => p.more
          BY <2>1, <3>4, NextResult DEF Fresh
        <4> QED BY <1>2, <2>2, <3>3, <4>1 DEF Told
      <3>6. \A i \in 1..Len(b2p') : b2p'[i].marker = "eof" => b2p'[i].tx = bTx
        BY <1>2, <2>2 DEF Told
      <3>7. \A i \in 1..Len(b2p') - 1 : b2p'[i].more => Honest(b2p'[i + 1], bTx)
        <4>1. ASSUME NEW i \in 1..Len(b2p') - 1
              PROVE  /\ b2p'[i] = b2p[i + 1] /\ b2p'[i + 1] = b2p[(i + 1) + 1]
                     /\ i + 1 \in 1..Len(b2p) - 1
          BY <1>2
        <4> QED BY <2>2, <4>1 DEF Told
      <3>9. txActive' = bTx \/ b2p'[Len(b2p')].marker # "err"
        <4>1. Len(b2p') \in 1..Len(b2p) - 1 /\ Len(b2p') + 1 = Len(b2p)
          BY <1>2, <3>2
        <4>2. b2p'[Len(b2p')] = b2p[Len(b2p)]
          BY <1>2, <4>1
        <4> QED BY <2>2, <2>4, <2>a, <4>2 DEF Told
      <3>8. Told'
        BY <1>1, <3>5, <3>6, <3>7, <3>9 DEF Told
      <3> QED BY <2>6, <3>1, <3>8 DEF StatusInv
    <2> QED BY <2>5, <2>6
  <1>7. ~UntrackedAnswer
    BY <1>3 DEF UntrackedAnswer
  <1> QED BY <1>4, <1>5, <1>6, <1>7 DEF BackendPump

\* An answer the server makes is told.
LEMMA AnswerTold ==
  ASSUME IInv, open, b2p = <<>>, pendingSql = None, Fresh, UNCHANGED <<pendingSql, pendingCmd, stage, txActive>>,
         NEW q \in Seq(Packet), q # <<>>, Answer(q), Tells(q, bTx'),
         txActive = bTx' \/ q[Len(q)].marker # "err"
  PROVE  StatusInv'
  <1>1. b2p' = MarkLast(q) /\ Len(b2p') = Len(q) /\ b2p' \in Seq(Packet)
    BY MarkFacts DEF Answer
  <1>2. Len(q) \in Nat \ {0} /\ 1 \in 1..Len(q)
    BY TailFacts
  <1>3. b2p' # <<>> /\ b2p'[Len(b2p')].marker = q[Len(q)].marker
    BY <1>1, <1>2, MarkFacts
  <1>4. PICK t : t = bTx'
    OBVIOUS
  <1>5. Tells(MarkLast(q), t)
    BY <1>4, TellsMarked
  <1>6. Told'
    BY <1>1, <1>3, <1>4, <1>5 DEF Tells, Told, Fresh
  <1> QED BY <1>3, <1>6 DEF StatusInv

\* The server.
LEMMA ServerStatus ==
  ASSUME IInv, TrackInv, StatusInv, Server
  PROVE  StatusInv'
  <1> SUFFICES ASSUME ~quiet' PROVE StatusInv'
    BY DEF StatusInv
  <1>0. PICK m : m = Head(p2b)
    OBVIOUS
  <1>1. open /\ p2b # <<>> /\ UNCHANGED <<pendingSql, pendingCmd, stage, txActive>>
    BY DEF Server, ServerRuns, ServerPrepares, ServerFails, ServerAcknowledges,
           ServerResets, ServerTakes, Receive,
           lifecycle, response
  <1>2. m \in Message /\ Phase
    BY <1>0, <1>1, TailFacts DEF IInv, TypeOK, StreamTyped, TrackInv
  <1>3. CASE ServerTakes
    <2>1. UNCHANGED <<b2p, bTx, quiet>>
      BY <1>3 DEF ServerTakes
    <2> QED BY <1>1, <2>1 DEF StatusInv, Told, Fresh
  <1>4. CASE ~ServerTakes
    <2>1. HasAnswer(m)
      BY <1>0, <1>4 DEF Server, ServerRuns, ServerPrepares, ServerFails, ServerAcknowledges,
           ServerResets, Receive, HasAnswer
    <2>2. b2p = <<>> /\ Expects(m)
      BY <1>0, <1>1, <1>2, <2>1, PhaseFacts
    <2>3. ~quiet => txActive = bTx
      BY <1>1, <2>2 DEF StatusInv
    <2>4. m.type # "PREPARE" => pendingSql = None
      BY <2>2 DEF Expects, Awaits, Runs
    <2>5. Fresh
      BY <2>2 DEF Expects, Awaits, Fresh
    <2>b. bTx \in BOOLEAN
      BY DEF IInv, TypeOK, ServerTyped
    <2>6. CASE m.type = "PREPARE"
      <3>1. pendingSql # None
        BY <2>2, <2>6 DEF Expects, Awaits, Runs
      <3>2. UNCHANGED bTx /\ ~quiet
        <4>1. ServerPrepares \/ ServerFails
          BY <1>0, <1>4, <2>6 DEF Server, ServerRuns, ServerAcknowledges, ServerResets, Receive
        <4>2. CASE ServerPrepares
          BY <4>2 DEF ServerPrepares
        <4>3. CASE ServerFails
          BY <1>0, <2>6, <4>3 DEF ServerFails, Unsaid
        <4> QED BY <4>1, <4>2, <4>3
      <3> QED BY <1>1, <2>3, <3>1, <3>2 DEF StatusInv
    <2>7. CASE m.type # "PREPARE" /\ (ServerFails \/ ServerAcknowledges)
      <3>1. /\ UNCHANGED bTx
            /\ \/ Answer(<<Plain(m, "err", FALSE)>>) /\ ~quiet
               \/ Answer(<<Plain(m, "ok", bTx)>>)
        BY <1>0, <2>7 DEF ServerFails, ServerAcknowledges, Unsaid
      <3>2. PICK k \in {"err", "ok"}, tx \in BOOLEAN :
              Answer(<<Plain(m, k, tx)>>) /\ (k = "ok" => tx = bTx) /\ (k = "err" => ~quiet)
        BY <2>b, <3>1
      <3>3. PICK p, v : p = Plain(m, k, tx) /\ v = <<>>
        OBVIOUS
      <3>4. p \in Packet /\ p.marker = k /\ p.tx = tx
        <4>1. k \in {"ok", "err", "eof", "data"}
          OBVIOUS
        <4>2. p.tx = tx
          BY <3>3 DEF Plain, ErrorPacket
        <4> QED BY <1>2, <3>3, <4>1, <4>2, PlainFields
      <3>5. v \in Seq(Inner(bTx)) /\ v \o <<p>> = <<p>>
        BY <3>3, <3>4
      <3>6. p.marker \in {"ok", "eof"} => p.tx = bTx
        BY <3>2, <3>4
      <3>7. v \o <<p>> \in Seq(Packet) /\ Tells(v \o <<p>>, bTx)
        BY <3>3, <3>4, <3>5, <3>6, TellsResult
      <3>8. PICK one : one = <<p>>
        OBVIOUS
      <3>9. one \in Seq(Packet) /\ one # <<>> /\ Tells(one, bTx) /\ Answer(one)
        BY <3>2, <3>3, <3>4, <3>5, <3>7, <3>8
      <3>10. txActive = bTx \/ one[Len(one)].marker # "err"
        BY <2>3, <3>2, <3>4, <3>8
      <3> QED BY <1>1, <2>2, <2>4, <2>5, <2>7, <3>1, <3>9, <3>10, AnswerTold
    <2>8. CASE ServerRuns
      <3>1. Runs(m)
        BY <1>0, <2>8 DEF ServerRuns, Receive, Runs
      <3>2. PICK sql : sql = TextOf(m)
        OBVIOUS
      <3>3. sql \in SQL
        <4>1. TextOf(m) # None
          BY <1>0, <2>8 DEF ServerRuns
        <4>2. m.sql \in SQL /\ \A i \in 1..Len(bStmts) : bStmts[i] \in SQL \cup {None}
          BY <1>2 DEF Message, IInv, TypeOK, ServerTyped
        <4>3. DOMAIN bStmts = 1..Len(bStmts)
          BY DEF IInv, TypeOK, ServerTyped
        <4> QED BY <3>2, <4>1, <4>2, <4>3 DEF TextOf
      <3>4. PICK tx : tx = CASE TxEffect[sql] = "begin" -> TRUE
                             [] TxEffect[sql] = "end"   -> FALSE
                             [] TxEffect[sql] = "none"  -> bTx
        OBVIOUS
      <3>8. PICK packets \in Results(m, sql, tx) :
              \/ Answer(packets) /\ bTx' = tx
              \/ /\ Len(packets) > 1
                 /\ Answer(SubSeq(packets, 1, Len(packets) - 1) \o <<Plain(m, "err", FALSE)>>)
                 /\ Unsaid(tx)
        BY <1>0, <2>8, <3>2, <3>4 DEF ServerRuns
      <3>7. tx \in BOOLEAN
        <4>1. TxEffect[sql] \in {"begin", "end", "none"}
          BY <3>3, TextsAssumption
        <4> QED BY <2>b, <3>4, <4>1
      <3>9. /\ packets \in Seq(Packet) /\ packets # <<>> /\ Tells(packets, tx)
            /\ packets[Len(packets)].marker # "err"
        BY <1>2, <3>3, <3>7, ResultsTell
      <3>11. CASE Answer(packets) /\ bTx' = tx
        BY <1>1, <2>2, <2>4, <2>5, <3>1, <3>9, <3>11, AnswerTold DEF Runs
      <3>12. CASE /\ Len(packets) > 1
                  /\ Answer(SubSeq(packets, 1, Len(packets) - 1) \o <<Plain(m, "err", FALSE)>>)
                  /\ Unsaid(tx)
        <4>0. bTx' = tx /\ txActive = tx
          BY <2>3, <3>12 DEF Unsaid
        <4>1. PICK e : e = Plain(m, "err", FALSE)
          OBVIOUS
        <4>2. e \in Packet /\ e.marker = "err"
          BY <1>2, <4>1, PlainFields
        <4>3. PICK r : r = SubSeq(packets, 1, Len(packets) - 1) \o <<e>>
          OBVIOUS
        <4>4. r \in Seq(Packet) /\ Tells(r, tx) /\ r[1] = packets[1]
          BY <3>9, <3>12, <4>2, <4>3, TellsCut
        <4>5. r # <<>>
          BY <3>9, <4>2, <4>3
        <4>6. Answer(r)
          BY <3>12, <4>1, <4>3
        <4> QED BY <1>1, <2>2, <2>4, <2>5, <3>1, <4>0, <4>4, <4>5, <4>6, AnswerTold DEF Runs
      <3> QED BY <3>8, <3>11, <3>12
    <2>9. ServerPrepares => m.type = "PREPARE"
      BY <1>0 DEF ServerPrepares, Receive
    <2> QED BY <1>4, <2>6, <2>7, <2>8, <2>9, NeverResets DEF Server
  <1> QED BY <1>3, <1>4

\* Once everything is answered the session's transaction status is the
\* server's, whatever the client sends ahead and whichever command fails,
\* except from an ERR that ended the transaction, since ERR carries no status,
\* up to the next answer that the proxy reads a status from.
THEOREM StatusFollows ==
  ASSUME Mode # "permissive"
  PROVE  Spec => []StatusIsTrue
  <1>1. Init => StatusInv
    BY DEF Init, StatusInv
  <1>2. IInv /\ TrackInv /\ TrackInv' /\ StatusInv /\ [Next]_vars => StatusInv'
    <2> SUFFICES ASSUME IInv, TrackInv, TrackInv', StatusInv, [Next]_vars PROVE StatusInv'
      OBVIOUS
    <2>1. CASE UNCHANGED <<b2p, pendingSql, pendingCmd, stage, txActive, bTx, quiet, open>>
      BY <2>1 DEF StatusInv, Told, Fresh
    <2>2. CASE \E r \in Requests : ClientSend(r)
      BY <2>1, <2>2 DEF ClientSend, lifecycle, response, server
    <2>3. CASE UNCHANGED vars
      BY <2>1, <2>3 DEF vars, lifecycle, response, server
    <2> QED BY <2>2, <2>3, PumpStatus, RelayStatus, ServerStatus DEF Next
  <1>3. StatusInv => StatusIsTrue
    BY DEF StatusInv, StatusIsTrue
  <1> QED BY <1>1, <1>2, <1>3, Invariance, TrackInvariance, PTL DEF Spec

-----------------------------------------------------------------------------
(***************************************************************************)
(* A client that waits for its answers, but for the EXECUTE of LAST behind *)
(* a PREPARE: its answers come in order.                                   *)
(***************************************************************************)
\* A command with an answer is at the server, or the answer is on its way.
Back(k) == \/ \E i \in 1..Len(p2b) : p2b[i].id = k /\ HasAnswer(p2b[i])
           \/ \E i \in 1..Len(b2p) : b2p[i].id = k

\* It is there, or has not left the proxy yet.
Unanswered(k) == Back(k) \/ (k \in Left + 1..Len(sent) /\ HasAnswer(sent[k]))

\* The client sent EXECUTE of LAST behind the PREPARE and nothing since.
FollowsPrepare(k) ==
  /\ k + 1 = Len(sent) /\ sent[k].type = "PREPARE"
  /\ sent[k + 1].type = "EXECUTE" /\ sent[k + 1].stmt = LAST

\* The client has sent nothing behind what is not answered but that EXECUTE.
OneAsked == \A k \in Ids : Unanswered(k) => k = Len(sent) \/ FollowsPrepare(k)

\* What was delivered belongs to earlier commands, or to the beginning of the
\* answer that is on its way.
Behind ==
  \A i \in 1..Len(delivered) :
    /\ delivered[i].id <= Left
    /\ \A k \in Ids : Back(k) => delivered[i].id <= k /\ (delivered[i].last => delivered[i].id # k)

\* A judgement is made only while nothing is at the server.
Undisturbed == pc \notin {"read", "wait"} => b2p = <<>> /\ NoAnswerIn(p2b)

\* The packets on their way are one answer up to its last packet, and that to
\* a PREPARE is the one the proxy takes it for.
OneAnswer ==
  /\ \A i \in 1..Len(b2p) : /\ b2p[i].id = b2p[1].id /\ b2p[i].id <= Left
                            /\ b2p[i].last <=> i = Len(b2p)
  /\ (b2p # <<>> /\ sent[b2p[1].id].type = "PREPARE") => pendingSql # None

\* The EXECUTE of LAST can be parsed.
Parseable(m) == (m.type = "EXECUTE" /\ m.stmt = LAST) => m.wf

OrderInv ==
  open => OneAsked /\ Behind /\ Undisturbed /\ OneAnswer
          /\ \A i \in 1..Len(sent) : sent[i].id = i /\ Parseable(sent[i])

\* Where the client pump is in the stream of the client.
LEMMA PumpPlace ==
  ASSUME IInv, SentIs
  PROVE  /\ Len(sent) \in Nat /\ Taken \in Int /\ Left \in Int /\ Taken <= Len(sent) /\ Len(sent) <= MaxSent
         /\ pc = "read" => Left = Taken
         /\ pc # "read" => /\ Left + 1 = Taken /\ cur[1] \in Message /\ cur[1].id = Left + 1
                           /\ cur[1].id \in Ids /\ IsSent(cur[1])
         /\ c2p # <<>> => /\ Head(c2p) \in Message /\ Head(c2p).id = Taken + 1 /\ Taken + 1 <= Len(sent)
                          /\ Head(c2p).id \in Ids /\ IsSent(Head(c2p))
  <1>1. Len(sent) \in Nat /\ Len(c2p) \in Nat /\ Taken \in Int /\ Taken <= Len(sent) /\ Len(sent) <= MaxSent
    BY DEF IInv, Core, StreamTyped, Taken
  <1>2. Left \in Int /\ (pc = "read" => Left = Taken) /\ (pc # "read" => Left + 1 = Taken)
    BY <1>1 DEF Left
  <1>3. pc # "read" => cur[1] \in Message /\ cur[1].id = Taken /\ cur[1].id \in Ids /\ IsSent(cur[1])
    BY CurrentTyped, HeadsSent DEF IInv, Core, CurrentIsLast
  <1>4. ASSUME c2p # <<>>
        PROVE  /\ Head(c2p) \in Message /\ Head(c2p).id = Taken + 1 /\ Taken + 1 <= Len(sent)
               /\ Head(c2p).id \in Ids /\ IsSent(Head(c2p))
    <2>1. Len(c2p) > 0 /\ Head(c2p) = c2p[1] /\ Head(c2p) \in Message /\ IsSent(Head(c2p))
      BY <1>4, HeadsSent DEF IInv, Core, StreamTyped
    <2>2. Head(c2p).id = Taken + 1
      BY <1>1, <2>1 DEF IInv, Core, QueueNumbered
    <2> QED BY <1>1, <2>1, <2>2 DEF Taken, Message
  <1> QED BY <1>1, <1>2, <1>3, <1>4

\* Behind what is not answered comes the EXECUTE of LAST only, and the proxy
\* is waiting for the PREPARE then.
LEMMA OnlyExecuteFollows ==
  ASSUME IInv, TrackInv, OrderInv, open, HasPending, pc = "read", c2p # <<>>
  PROVE  PipelinedExecute(Head(c2p)) /\ Head(c2p).wf
  <1>1. Phase /\ SentIs
    BY DEF TrackInv
  <1>2. Asked \/ Answering
    BY <1>1, PhaseFacts DEF Phase, Weighing
  <1>3. /\ Len(sent) \in Nat /\ Left \in Int /\ Left = Taken /\ Len(sent) <= MaxSent
        /\ Head(c2p).id = Left + 1 /\ Left + 1 <= Len(sent) /\ IsSent(Head(c2p))
    BY <1>1, PumpPlace
  <1>4. ASSUME NEW k \in Ids, Back(k), k <= Left, sent[k].type = "PREPARE" => pendingSql # None
        PROVE  PipelinedExecute(Head(c2p)) /\ Head(c2p).wf
    <2>1. FollowsPrepare(k)
      <3>1. k # Len(sent)
        BY <1>3, <1>4 DEF Ids
      <3> QED BY <1>4, <3>1 DEF OrderInv, OneAsked, Unanswered
    <2>2. Head(c2p).id = k + 1 /\ k + 1 \in 1..Len(sent)
      BY <1>3, <1>4, <2>1 DEF FollowsPrepare, Ids
    <2>3. Head(c2p) = sent[k + 1]
      BY <1>3, <2>2 DEF IsSent
    <2>4. Parseable(sent[k + 1])
      BY <2>2 DEF OrderInv
    <2> QED BY <1>4, <2>1, <2>3, <2>4 DEF FollowsPrepare, Parseable, PipelinedExecute
  <1>5. CASE Asked
    <2>1. PICK m \in Message, j \in 1..Len(p2b) : AskedAt(m, j)
      BY <1>5 DEF Asked
    <2>2. p2b[j] = m /\ HasAnswer(m) /\ Expects(m)
      BY <2>1 DEF AskedAt
    <2>3. m.id \in Ids /\ Back(m.id) /\ m.id <= Left
      BY <2>2 DEF Message, Back, IInv, Core, ForwardedIsOlder
    <2>4. sent[m.id] = m
      BY <1>1, <2>2 DEF SentIs, IsSent
    <2>5. m.type = "PREPARE" => pendingSql # None
      BY <2>2 DEF Expects, Awaits, Runs
    <2> QED BY <1>4, <2>3, <2>4, <2>5
  <1>6. CASE Answering
    <2>1. b2p # <<>> /\ b2p \in Seq(Packet) /\ Len(b2p) > 0
      BY <1>6 DEF Answering, IInv, TypeOK, AnswersTyped
    <2>2. 1 \in 1..Len(b2p) /\ b2p[1] \in Packet
      BY <2>1
    <2>3. b2p[1].id \in Ids /\ Back(b2p[1].id) /\ b2p[1].id <= Left
      BY <2>2 DEF Packet, Back, OrderInv, OneAnswer
    <2> QED BY <1>4, <2>1, <2>3 DEF OrderInv, OneAnswer
  <1> QED BY <1>2, <1>5, <1>6

\* Nothing is delivered; a command may leave for the server.
LEMMA OrderQuiet ==
  ASSUME IInv, TrackInv, OrderInv, open, UNCHANGED <<sent, delivered, b2p>>,
         Left' \in Int, Left <= Left',
         \/ UNCHANGED p2b
         \/ \E m \in Message : m.id = Left + 1 /\ Left' = Left + 1 /\ IsSent(m) /\ p2b' = Append(p2b, m),
         Undisturbed', pendingSql' = pendingSql \/ pendingSql' # None
  PROVE  OrderInv'
  <1>1. SentIs /\ OneAsked /\ Behind /\ OneAnswer
    BY DEF TrackInv, OrderInv
  <1>2. Len(sent) \in Nat /\ Left \in Int
    BY <1>1, PumpPlace
  <1>3. ASSUME NEW k \in Ids, Back(k)' PROVE Back(k) \/ (k = Left + 1 /\ Left' = Left + 1 /\ Unanswered(k))
    <2>1. CASE UNCHANGED p2b
      BY <1>3, <2>1 DEF Back
    <2>2. CASE \E m \in Message : m.id = Left + 1 /\ Left' = Left + 1 /\ IsSent(m) /\ p2b' = Append(p2b, m)
      <3>1. PICK m \in Message : m.id = Left + 1 /\ Left' = Left + 1 /\ IsSent(m) /\ p2b' = Append(p2b, m)
        BY <2>2
      <3>2. /\ Len(p2b) \in Nat /\ Len(p2b') = Len(p2b) + 1 /\ p2b'[Len(p2b) + 1] = m
            /\ \A i \in 1..Len(p2b) : p2b'[i] = p2b[i]
        BY <3>1, AppendFacts DEF IInv, Core, StreamTyped
      <3>3. CASE \E i \in 1..Len(b2p') : b2p'[i].id = k
        BY <3>3 DEF Back
      <3>4. CASE \E i \in 1..Len(p2b') : p2b'[i].id = k /\ HasAnswer(p2b'[i])
        <4>1. PICK i \in 1..Len(p2b') : p2b'[i].id = k /\ HasAnswer(p2b'[i])
          BY <3>4
        <4>2. CASE i \in 1..Len(p2b)
          BY <3>2, <4>1, <4>2 DEF Back
        <4>3. CASE i = Len(p2b) + 1
          <5>1. k = m.id /\ HasAnswer(m)
            BY <3>2, <4>1, <4>3
          <5>2. k \in Left + 1..Len(sent) /\ HasAnswer(sent[k])
            BY <1>2, <3>1, <5>1 DEF IsSent
          <5> QED BY <3>1, <5>1, <5>2 DEF Unanswered
        <4> QED BY <3>2, <4>1, <4>2, <4>3
      <3> QED BY <1>3, <3>3, <3>4 DEF Back
    <2> QED BY <2>1, <2>2
  <1>4. OneAsked'
    <2>1. ASSUME NEW k \in Ids, Unanswered(k)' PROVE Unanswered(k)
      <3>1. CASE Back(k)'
        BY <1>3, <3>1 DEF Unanswered
      <3>2. CASE k \in Left' + 1..Len(sent) /\ HasAnswer(sent[k])
        <4>0. PICK a, b, n : a = Left /\ b = Left' /\ n = Len(sent)
          OBVIOUS
        <4>1. a \in Int /\ b \in Int /\ n \in Nat /\ a <= b /\ k \in b + 1..n
          BY <1>2, <3>2, <4>0
        <4>2. k \in a + 1..n
          BY ONLY <4>1
        <4> QED BY <3>2, <4>0, <4>2 DEF Unanswered
      <3> QED BY <2>1, <3>1, <3>2 DEF Unanswered
    <2> QED BY <1>1, <2>1 DEF OneAsked, FollowsPrepare
  <1>5. Behind'
    <2>1. ASSUME NEW i \in 1..Len(delivered)
          PROVE  /\ delivered[i].id <= Left'
                 /\ \A k \in Ids : Back(k)' => /\ delivered[i].id <= k
                                               /\ delivered[i].last => delivered[i].id # k
      <3>0. delivered[i] \in Packet
        BY DEF IInv, TypeOK, AnswersTyped
      <3>1. delivered[i].id \in Ids
        BY <3>0 DEF Packet
      <3>2. delivered[i].id <= Left
        BY <1>1 DEF Behind
      <3>3. delivered[i].id <= Left'
        BY <1>2, <3>1, <3>2 DEF Ids
      <3> QED BY <1>1, <1>2, <1>3, <3>1, <3>2, <3>3 DEF Behind, Ids
    <2> QED BY <2>1 DEF Behind
  <1>6. OneAnswer'
    <2>1. ASSUME NEW i \in 1..Len(b2p) PROVE b2p[i].id <= Left'
      <3>0. b2p[i] \in Packet
        BY DEF IInv, TypeOK, AnswersTyped
      <3>1. b2p[i].id \in Ids /\ b2p[i].id <= Left
        BY <1>1, <3>0 DEF Packet, OneAnswer
      <3> QED BY <1>2, <3>1 DEF Ids
    <2> QED BY <1>1, <2>1 DEF OneAnswer
  <1> QED BY <1>4, <1>5, <1>6 DEF OrderInv

\* The proxy answers the command itself, while nothing is at the server.
LEMMA OrderError ==
  ASSUME IInv, TrackInv, OrderInv, AnswersInOrder, open, UNCHANGED <<sent, p2b, b2p>>,
         NEW m \in Message, m.id = Left + 1, Left' = Left + 1,
         delivered' = Append(delivered, ErrorPacket(m)), NoAnswerIn(p2b), b2p = <<>>
  PROVE  OrderInv' /\ AnswersInOrder'
  <1>1. SentIs /\ OneAsked /\ Behind
    BY DEF TrackInv, OrderInv
  <1>2. Len(sent) \in Nat /\ Left \in Int
    BY <1>1, PumpPlace
  <1>3. PICK p : p = ErrorPacket(m)
    OBVIOUS
  <1>4. p \in Packet /\ p.id = Left + 1 /\ p.id \in Ids
    BY <1>3 DEF ErrorPacket, Packet, Message
  <1>5. /\ Len(delivered) \in Nat /\ Len(delivered') = Len(delivered) + 1
        /\ \A i \in 1..Len(delivered) : delivered'[i] = delivered[i] /\ delivered[i].id \in Ids
        /\ delivered'[Len(delivered) + 1] = p
    <2>1. delivered \in Seq(Packet)
      BY DEF IInv, TypeOK, AnswersTyped
    <2>2. \A i \in 1..Len(delivered) : delivered[i] \in Packet
      BY <2>1
    <2>3. \A i \in 1..Len(delivered) : delivered[i].id \in Ids
      BY <2>2 DEF Packet
    <2> QED BY <1>3, <1>4, <2>1, <2>3, AppendFacts
  <1>6. \A i \in 1..Len(delivered) : delivered[i].id <= Left
    BY <1>1 DEF Behind
  <1>7. \A k \in Ids : ~Back(k) /\ ~Back(k)'
    BY DEF Back, NoAnswerIn
  <1>8. OneAsked'
    <2>1. ASSUME NEW k \in Ids, Unanswered(k)' PROVE Unanswered(k)
      BY <1>2, <1>7, <2>1 DEF Unanswered
    <2> QED BY <1>1, <2>1 DEF OneAsked, FollowsPrepare
  <1>9. Behind'
    <2>1. ASSUME NEW i \in 1..Len(delivered') PROVE delivered'[i].id <= Left'
      BY <1>2, <1>4, <1>5, <1>6 DEF Ids
    <2> QED BY <1>7, <2>1 DEF Behind
  <1>10. Undisturbed' /\ OneAnswer'
    BY DEF Undisturbed, OneAnswer, NoAnswerIn
  <1>11. \A i \in 1..Len(delivered) : delivered[i].id < p.id
    BY <1>2, <1>4, <1>5, <1>6 DEF Ids
  <1>12. AnswersInOrder'
    <2>1. ASSUME NEW i \in 1..Len(delivered'), NEW j \in 1..Len(delivered'), i < j
          PROVE  delivered'[i].id <= delivered'[j].id
      <3>1. i \in 1..Len(delivered)
        BY <1>5, <2>1
      <3>2. CASE j \in 1..Len(delivered)
        BY <1>5, <2>1, <3>1, <3>2 DEF AnswersInOrder
      <3>3. CASE j = Len(delivered) + 1
        BY <1>4, <1>5, <1>11, <3>1, <3>3 DEF Ids
      <3> QED BY <1>5, <3>2, <3>3
    <2> QED BY <2>1 DEF AnswersInOrder
  <1> QED BY <1>8, <1>9, <1>10, <1>12 DEF OrderInv

\* What is not answered is a command the client sent, and has an answer.
LEMMA UnansweredSent ==
  ASSUME IInv, SentIs, NEW k \in Ids, Unanswered(k)
  PROVE  k \in 1..Len(sent) /\ HasAnswer(sent[k])
  <1>1. CASE \E i \in 1..Len(p2b) : p2b[i].id = k /\ HasAnswer(p2b[i])
    BY <1>1 DEF SentIs, IsSent
  <1>2. CASE \E i \in 1..Len(b2p) : b2p[i].id = k
    BY <1>2 DEF SentIs
  <1>3. CASE k \in Left + 1..Len(sent) /\ HasAnswer(sent[k])
    <2>1. Left \in Int /\ Len(sent) \in Nat
      BY PumpPlace
    <2> QED BY <1>3, <2>1 DEF Ids
  <1> QED BY <1>1, <1>2, <1>3 DEF Unanswered, Back

\* The client sends a command.
LEMMA OrderSend ==
  ASSUME IInv, TrackInv, OrderInv, Window = "step", NEW r \in Requests, ClientSend(r), Parseable(r)
  PROVE  OrderInv'
  <1>1. PICK m : m = [type |-> r.type, wf |-> r.wf, stmt |-> r.stmt, bound |-> r.bound,
                      sql |-> r.sql, db |-> r.db, id |-> Len(sent) + 1]
    OBVIOUS
  <1>2. /\ open /\ MaySend(r) /\ sent' = Append(sent, m) /\ c2p' = Append(c2p, m)
        /\ UNCHANGED <<delivered, p2b, b2p, pendingSql, pc>>
    BY <1>1 DEF ClientSend, lifecycle, task
  <1>3. SentIs /\ OneAsked /\ Behind /\ OneAnswer
    BY <1>2 DEF TrackInv, OrderInv
  <1>4. Len(sent) \in Nat /\ Left \in Int /\ Len(sent) <= MaxSent
    BY <1>3, PumpPlace
  <1>5. sent \in Seq(Message) /\ c2p \in Seq(Message) /\ sent' \in Seq(Message) /\ c2p' \in Seq(Message)
    <2>1. sent' \in Seq(Message) /\ c2p' \in Seq(Message)
      BY ClientSendInv DEF IInv, Core, StreamTyped
    <2> QED BY <2>1 DEF IInv, Core, StreamTyped
  <1>6. PICK n : n = Len(sent)
    OBVIOUS
  <1>7. /\ Len(sent') = n + 1 /\ sent'[n + 1] = m /\ \A i \in 1..n : sent'[i] = sent[i]
        /\ Len(c2p') = Len(c2p) + 1 /\ Len(c2p) \in Nat
    BY <1>2, <1>5, <1>6
  <1>8. Left' = Left
    BY <1>2, <1>4, <1>6, <1>7 DEF Left, Taken
  <1>9. ASSUME NEW k \in Ids, Unanswered(k) PROVE k = n /\ sent[n].type = "PREPARE" /\ r.type = "EXECUTE" /\ r.stmt = LAST
    <2>1. k \in 1..n /\ HasAnswer(sent[k])
      BY <1>3, <1>6, <1>9, UnansweredSent
    <2>2. k = n \/ FollowsPrepare(k)
      BY <1>3, <1>6, <1>9 DEF OneAsked
    <2>3. sent # <<>> /\ sent[n].id = n
      BY <1>2, <1>5, <1>6, <2>1 DEF OrderInv
    <2>4. Answered(sent[n]) \/ ~HasAnswer(sent[n]) \/ (sent[n].type = "PREPARE" /\ r.type = "EXECUTE" /\ r.stmt = LAST)
      BY <1>2, <1>6, <2>3 DEF MaySend
    <2>5. HasAnswer(sent[n])
      BY <1>6, <2>1, <2>2 DEF FollowsPrepare, HasAnswer
    <2>6. ~Answered(sent[n])
      <3>1. ASSUME NEW i \in 1..Len(delivered), delivered[i].id = n, delivered[i].last PROVE FALSE
        <4>1. n <= Left
          BY <1>3, <3>1 DEF Behind
        <4>2. Back(k)
          BY <1>4, <1>6, <1>9, <2>1, <4>1 DEF Unanswered
        <4>3. n <= k /\ n # k
          BY <1>3, <3>1, <4>2 DEF Behind
        <4> QED BY <1>4, <1>6, <2>1, <4>3
      <3> QED BY <2>3, <3>1 DEF Answered
    <2>7. ~FollowsPrepare(k)
      <3>1. sent[n].type = "PREPARE"
        BY <2>4, <2>5, <2>6
      <3> QED BY <1>6, <3>1 DEF FollowsPrepare
    <2> QED BY <2>2, <2>4, <2>5, <2>6, <2>7
  <1>10. OneAsked'
    <2>1. ASSUME NEW k \in Ids, Unanswered(k)' PROVE k = n + 1 \/ FollowsPrepare(k)'
      <3>1. CASE k = n + 1
        BY <3>1
      <3>2. CASE k # n + 1
        <4>1. Unanswered(k)
          <5>1. CASE Back(k)'
            BY <1>2, <5>1 DEF Unanswered, Back
          <5>2. CASE k \in Left + 1..n + 1 /\ HasAnswer(sent'[k])
            <6>1. k \in Left + 1..n /\ k \in 1..n
              BY <1>4, <1>6, <3>2, <5>2 DEF Ids
            <6> QED BY <1>6, <1>7, <5>2, <6>1 DEF Unanswered
          <5> QED BY <1>7, <1>8, <2>1, <5>1, <5>2 DEF Unanswered
        <4>2. k = n /\ sent[n].type = "PREPARE" /\ r.type = "EXECUTE" /\ r.stmt = LAST
          BY <1>9, <4>1
        <4>3. n \in 1..n
          BY <4>2 DEF Ids
        <4> QED BY <1>1, <1>7, <4>2, <4>3 DEF FollowsPrepare
      <3> QED BY <3>1, <3>2
    <2> QED BY <1>7, <2>1 DEF OneAsked
  <1>11. Behind'
    BY <1>2, <1>3, <1>8 DEF Behind, Back
  <1>12. Undisturbed'
    BY <1>2 DEF OrderInv, Undisturbed, NoAnswerIn
  <1>13. OneAnswer'
    <2>1. b2p # <<>> => b2p[1].id \in 1..n
      <3>1. b2p # <<>> => 1 \in 1..Len(b2p)
        BY TailFacts DEF IInv, TypeOK, AnswersTyped
      <3> QED BY <1>3, <1>6, <3>1 DEF SentIs
    <2> QED BY <1>2, <1>3, <1>7, <1>8, <2>1 DEF OneAnswer
  <1>14. \A i \in 1..Len(sent') : sent'[i].id = i /\ Parseable(sent'[i])
    <2>1. m.id = n + 1 /\ Parseable(m)
      BY <1>1, <1>6 DEF Parseable
    <2>2. \A i \in 1..n : sent[i].id = i /\ Parseable(sent[i])
      BY <1>2, <1>6 DEF OrderInv
    <2> QED BY <1>4, <1>6, <1>7, <2>1, <2>2
  <1> QED BY <1>10, <1>11, <1>12, <1>13, <1>14 DEF OrderInv

\* The backend pump is done with a PREPARE only when its answer is complete.
LEMMA PrepareToTheEnd ==
  ASSUME IInv, TrackInv, TrackInv', open, open', BackendPump, pendingSql # None, pendingSql' = None
  PROVE  b2p' = <<>>
  <1>1. Awaits("prepare")
    BY PhaseFacts DEF TrackInv
  <1>2. PrepareFails \/ PrepareAccepted \/ MetadataArrives
    BY <1>1 DEF BackendPump, PingAnswered, ResetAnswered, DatabaseAnswered, CommandAnswered,
                NothingElsePending, UntrackedAnswer, HasPending, Awaits
  <1>3. UNCHANGED <<pendingDb, pendingPing, pendingReset, pendingCmd>>
    BY <1>2 DEF PrepareFails, PrepareAccepted, MetadataArrives, response
  <1>4. ~HasPending'
    BY <1>1, <1>3 DEF Awaits, HasPending
  <1>5. b2p' # <<>> => Fits(b2p)'
    BY DEF TrackInv, Phase, Resting, Weighing, Asked, Answering
  <1>6. Fits(b2p)' => HasPending'
    BY DEF Fits, Awaits, HasPending
  <1> QED BY <1>4, <1>5, <1>6

\* The backend pump relays a packet.
LEMMA OrderRelay ==
  ASSUME IInv, TrackInv, TrackInv', OrderInv, AnswersInOrder, BackendPump
  PROVE  OrderInv' /\ AnswersInOrder'
  <1>0. PICK p : p = Head(b2p)
    OBVIOUS
  <1>1. open /\ b2p # <<>> /\ b2p' = Tail(b2p) /\ UNCHANGED <<sent, c2p, p2b, pc>>
    BY DEF BackendPump, PingAnswered, ResetAnswered, DatabaseAnswered, PrepareFails, PrepareAccepted,
           MetadataArrives, CommandAnswered, UntrackedAnswer, Packets, task
  <1>2. delivered' = IF open' THEN Append(delivered, p) ELSE delivered
    BY <1>0 DEF BackendPump, PingAnswered, ResetAnswered, DatabaseAnswered, PrepareFails, PrepareAccepted,
           MetadataArrives, CommandAnswered, UntrackedAnswer, Relay
  <1>3. CASE ~open'
    BY <1>2, <1>3 DEF OrderInv, AnswersInOrder
  <1>4. CASE open'
    <2>1. SentIs /\ OneAsked /\ Behind /\ OneAnswer /\ Answering
      BY <1>1, PhaseFacts DEF TrackInv, OrderInv
    <2>2. /\ p = b2p[1] /\ p \in Packet /\ Len(b2p) \in Nat \ {0} /\ Len(b2p') = Len(b2p) - 1
          /\ \A i \in 1..Len(b2p) - 1 : b2p'[i] = b2p[i + 1]
      BY <1>0, <1>1, TailFacts DEF IInv, TypeOK, AnswersTyped
    <2>3. PICK k : k = p.id
      OBVIOUS
    <2>4. k \in Ids /\ k <= Left /\ 1 \in 1..Len(b2p) /\ (p.last <=> Len(b2p) = 1)
      BY <2>1, <2>2, <2>3 DEF Packet, OneAnswer
    <2>5. Back(k) /\ \A j \in Ids : Back(j) => j = k
      <3>1. Back(k)
        BY <2>2, <2>3, <2>4 DEF Back
      <3>2. \A i \in 1..Len(p2b) : ~HasAnswer(p2b[i])
        BY <2>1 DEF Answering, OnlyQuits, HasAnswer
      <3>3. \A i \in 1..Len(b2p) : b2p[i].id = k
        BY <2>1, <2>2, <2>3 DEF OneAnswer
      <3> QED BY <3>1, <3>2, <3>3 DEF Back
    <2>6. \A j \in Ids : Back(j)' => Back(j) /\ Len(b2p) # 1
      <3>1. ASSUME NEW j \in Ids, NEW i \in 1..Len(b2p'), b2p'[i].id = j PROVE Back(j) /\ Len(b2p) # 1
        <4>1. i \in 1..Len(b2p) - 1 /\ i + 1 \in 1..Len(b2p)
          BY <2>2
        <4>2. b2p[i + 1].id = j /\ Len(b2p) # 1
          BY <2>2, <3>1, <4>1
        <4> QED BY <4>1, <4>2 DEF Back
      <3>2. \A i \in 1..Len(p2b') : ~HasAnswer(p2b'[i])
        BY <1>1, <2>1 DEF Answering, OnlyQuits, HasAnswer
      <3> QED BY <3>1, <3>2 DEF Back
    <2>7. Left' = Left /\ Left \in Int /\ Len(sent) \in Nat
      BY <1>1, <2>1, PumpPlace DEF Left, Taken
    <2>8. /\ Len(delivered) \in Nat /\ Len(delivered') = Len(delivered) + 1
          /\ \A i \in 1..Len(delivered) : delivered'[i] = delivered[i]
          /\ delivered'[Len(delivered) + 1] = p
      BY <1>2, <1>4, <2>2, AppendFacts DEF IInv, TypeOK, AnswersTyped
    <2>9. OneAsked'
      <3>1. ASSUME NEW j \in Ids, Unanswered(j)' PROVE Unanswered(j)
        BY <1>1, <2>6, <2>7, <3>1 DEF Unanswered
      <3> QED BY <1>1, <2>1, <3>1 DEF OneAsked, FollowsPrepare
    <2>10. Behind'
      <3>1. ASSUME NEW i \in 1..Len(delivered')
            PROVE  /\ delivered'[i].id <= Left
                   /\ \A j \in Ids : Back(j)' => /\ delivered'[i].id <= j
                                                 /\ delivered'[i].last => delivered'[i].id # j
        <4>1. CASE i \in 1..Len(delivered)
          BY <2>1, <2>6, <2>8, <4>1 DEF Behind
        <4>2. CASE i = Len(delivered) + 1
          <5>1. delivered'[i] = p
            BY <2>8, <4>2
          <5> QED BY <2>3, <2>4, <2>5, <2>6, <5>1 DEF Ids
        <4> QED BY <2>8, <4>1, <4>2
      <3> QED BY <2>7, <3>1 DEF Behind
    <2>11. Undisturbed'
      BY <1>1 DEF OrderInv, Undisturbed
    <2>12. OneAnswer'
      <3>1. ASSUME NEW i \in 1..Len(b2p')
            PROVE  /\ b2p'[i].id = k /\ b2p'[i].id <= Left
                   /\ b2p'[i].last <=> i = Len(b2p')
        <4>1. i + 1 \in 1..Len(b2p) /\ b2p'[i] = b2p[i + 1] /\ (i + 1 = Len(b2p) <=> i = Len(b2p'))
          BY <2>2
        <4> QED BY <2>1, <2>2, <2>3, <4>1 DEF OneAnswer
      <3>2. b2p' # <<>> => b2p'[1].id = k
        <4>1. b2p' # <<>> => 1 \in 1..Len(b2p')
          BY <2>2 DEF IInv, TypeOK, AnswersTyped
        <4> QED BY <3>1, <4>1
      <3>3. (b2p' # <<>> /\ sent[k].type = "PREPARE") => pendingSql' # None
        BY <1>1, <1>4, <2>1, <2>2, <2>3, PrepareToTheEnd DEF OneAnswer
      <3>4. \A i \in 1..Len(b2p') : b2p'[i].id = b2p'[1].id
        <4>1. \A i \in 1..Len(b2p') : b2p' # <<>>
          BY <2>2
        <4> QED BY <3>1, <3>2, <4>1
      <3> QED BY <1>1, <2>7, <3>1, <3>2, <3>3, <3>4 DEF OneAnswer
    <2>13. \A i \in 1..Len(delivered) : delivered[i].id <= k /\ (delivered[i].last => delivered[i].id # k)
      BY <2>1, <2>4, <2>5 DEF Behind
    <2>14. AnswersInOrder'
      <3>1. ASSUME NEW i \in 1..Len(delivered'), NEW j \in 1..Len(delivered'), i < j
            PROVE  delivered'[i].id <= delivered'[j].id
        <4>1. i \in 1..Len(delivered)
          BY <2>8, <3>1
        <4>2. CASE j \in 1..Len(delivered)
          BY <2>8, <3>1, <4>1, <4>2 DEF AnswersInOrder
        <4>3. CASE j = Len(delivered) + 1
          BY <2>3, <2>8, <2>13, <4>1, <4>3
        <4> QED BY <2>8, <4>2, <4>3
      <3> QED BY <3>1 DEF AnswersInOrder
    <2>16. \A i \in 1..Len(sent') : sent'[i].id = i /\ Parseable(sent'[i])
      BY <1>1 DEF OrderInv
    <2> QED BY <2>9, <2>10, <2>11, <2>12, <2>14, <2>16 DEF OrderInv
  <1> QED BY <1>3, <1>4

\* The packets of an answer are those of the command.
LEMMA AnswerIsOwn ==
  ASSUME IInv, TrackInv, Server, ~ServerTakes
  PROVE  \E q \in Seq(Packet) : q # <<>> /\ Own(q, Head(p2b)) /\ Answer(q)
  <1>0. PICK m : m = Head(p2b)
    OBVIOUS
  <1>1. open /\ p2b # <<>>
    BY DEF Server, ServerRuns, ServerPrepares, ServerFails, ServerAcknowledges,
           ServerResets, Receive
  <1>2. m \in Message /\ m.sql \in SQL /\ m.id \in Ids
    <2>1. m \in Message
      BY <1>0, <1>1, TailFacts DEF IInv, TypeOK, StreamTyped
    <2> QED BY <2>1 DEF Message
  <1>b. bTx \in BOOLEAN
    BY DEF IInv, TypeOK, ServerTyped
  <1>3. CASE ServerFails \/ ServerAcknowledges
    <2>1. PICK k \in {"ok", "err", "eof", "data"}, tx \in BOOLEAN : Answer(<<Plain(m, k, tx)>>)
      BY <1>0, <1>3, <1>b DEF ServerFails, ServerAcknowledges
    <2>2. PICK p, one : p = Plain(m, k, tx) /\ one = <<p>>
      OBVIOUS
    <2>3. p \in Packet /\ p.id = m.id
      BY <1>2, <2>2, PlainFields
    <2>4. one \in Seq(Packet) /\ one # <<>> /\ Own(one, m) /\ Answer(one)
      BY <2>1, <2>2, <2>3 DEF Own
    <2> QED BY <1>0, <2>4
  <1>4. CASE ServerRuns
    <2>1. PICK sql : sql = TextOf(m)
      OBVIOUS
    <2>2. sql \in SQL
      <3>1. TextOf(m) # None
        BY <1>0, <1>4 DEF ServerRuns
      <3>2. \A i \in 1..Len(bStmts) : bStmts[i] \in SQL \cup {None}
        BY DEF IInv, TypeOK, ServerTyped
      <3>3. DOMAIN bStmts = 1..Len(bStmts)
        BY DEF IInv, TypeOK, ServerTyped
      <3> QED BY <1>2, <2>1, <3>1, <3>2, <3>3 DEF TextOf
    <2>3. PICK tx : tx = CASE TxEffect[sql] = "begin" -> TRUE
                           [] TxEffect[sql] = "end"   -> FALSE
                           [] TxEffect[sql] = "none"  -> bTx
      OBVIOUS
    <2>4. \E packets \in Results(m, sql, tx) :
            \/ Answer(packets)
            \/ Answer(SubSeq(packets, 1, Len(packets) - 1) \o <<Plain(m, "err", FALSE)>>)
      BY <1>0, <1>4, <2>1, <2>3 DEF ServerRuns
    <2>5. tx \in BOOLEAN
      <3>1. TxEffect[sql] \in {"begin", "end", "none"}
        BY <2>2, TextsAssumption
      <3> QED BY <1>b, <2>3, <3>1
    <2>6. PICK packets \in Results(m, sql, tx) :
            \/ Answer(packets)
            \/ Answer(SubSeq(packets, 1, Len(packets) - 1) \o <<Plain(m, "err", FALSE)>>)
      BY <2>4
    <2>7. PICK q : /\ Answer(q)
                   /\ \/ q = packets
                      \/ q = SubSeq(packets, 1, Len(packets) - 1) \o <<Plain(m, "err", FALSE)>>
      BY <2>6
    <2>8. q \in Seq(Packet) /\ Parses(Start, q) /\ Own(q, m)
      BY <1>2, <2>2, <2>5, <2>7, ResultsParse
    <2>9. q # <<>>
      BY <2>8 DEF Parses
    <2> QED BY <1>0, <2>7, <2>8, <2>9
  <1>5. CASE ServerPrepares
    <2>1. PICK d, e, ok, id : /\ id = Len(bStmts) + 1 /\ d = Plain(m, "data", FALSE) /\ e = Plain(m, "eof", bTx)
                              /\ ok = [Plain(m, "ok", FALSE) EXCEPT !.stmt = id]
      OBVIOUS
    <2>2. id \in Ids
      <3>1. Len(sent) \in Nat /\ Len(c2p) \in Nat /\ Len(sent) <= MaxSent /\ MaxSent \in Nat
        BY BoundsAssumption DEF IInv, Core, StreamTyped
      <3>2. Len(bStmts) + Len(p2b) <= Left /\ Left <= MaxSent /\ Left \in Int
        BY <3>1 DEF IInv, Core, ForwardedIsOlder, Left, Taken
      <3>3. Len(bStmts) \in Nat /\ Len(p2b) \in Nat \ {0}
        BY <1>1, TailFacts DEF IInv, TypeOK, ServerTyped, Core, StreamTyped
      <3> QED BY <2>1, <3>1, <3>2, <3>3 DEF Ids
    <2>3. ok \in Packet /\ ok.id = m.id
      <3>1. PICK p : p = Plain(m, "ok", FALSE)
        OBVIOUS
      <3>2. p \in Packet /\ p.id = m.id
        BY <1>2, <3>1, PlainFields
      <3> QED BY <2>1, <2>2, <3>1, <3>2 DEF Packet
    <2>4. d \in Packet /\ d.marker = "data" /\ d.id = m.id
      BY <1>2, <2>1, PlainFields
    <2>5. e \in Packet /\ e.marker = "eof" /\ e.id = m.id
      BY <1>2, <1>b, <2>1, PlainFields
    <2>6. PICK s, t, q : /\ s = Copies(d, Parameters[m.sql])
                                 \o (IF Parameters[m.sql] > 0 /\ ~DeprecateEof THEN <<e>> ELSE <<>>)
                         /\ t = Copies(d, Columns[m.sql])
                                 \o (IF Columns[m.sql] > 0 /\ ~DeprecateEof THEN <<e>> ELSE <<>>)
                         /\ q = <<ok>> \o s \o t
      OBVIOUS
    <2>7. Answer(q)
      BY <1>0, <1>5, <2>1, <2>6 DEF ServerPrepares
    <2>8. PICK sql : sql = m.sql
      OBVIOUS
    <2>9. Composed(q, sql, ok, d, e, s, t) /\ sql \in SQL
      BY <1>2, <2>6, <2>8 DEF Composed
    <2>10. /\ q \in Seq(Packet) /\ q # <<>> /\ q[1] = ok /\ Own(q, m)
           /\ Matches(MetadataKinds(sql), Tail(q))
      BY ONLY <2>3, <2>4, <2>5, <2>9, PrepareMatches
    <2> QED BY <1>0, <2>7, <2>10
  <1> QED BY <1>3, <1>4, <1>5, NeverResets DEF Server

\* The server takes a command and may answer it.
LEMMA OrderServed ==
  ASSUME IInv, TrackInv, OrderInv, Server
  PROVE  OrderInv'
  <1>0. PICK m : m = Head(p2b)
    OBVIOUS
  <1>1. /\ open /\ p2b # <<>> /\ p2b' = Tail(p2b)
        /\ UNCHANGED <<sent, delivered, c2p, pendingSql, pc>>
    BY DEF Server, ServerRuns, ServerPrepares, ServerFails, ServerAcknowledges,
           ServerResets, ServerTakes, Receive,
           lifecycle, task
  <1>2. SentIs /\ OneAsked /\ Behind /\ OneAnswer /\ Undisturbed /\ Phase
    BY <1>1 DEF TrackInv, OrderInv
  <1>3. /\ m \in Message /\ m.id \in Ids /\ m = p2b[1] /\ 1 \in 1..Len(p2b) /\ IsSent(m) /\ m.id <= Left
        /\ \A i \in 1..Len(p2b') : i + 1 \in 1..Len(p2b) /\ p2b'[i] = p2b[i + 1]
    <2>1. /\ m \in Message /\ m = p2b[1] /\ Len(p2b) \in Nat \ {0} /\ Len(p2b') = Len(p2b) - 1
          /\ \A i \in 1..Len(p2b) - 1 : p2b'[i] = p2b[i + 1]
      BY <1>0, <1>1, TailFacts DEF IInv, Core, StreamTyped
    <2>2. 1 \in 1..Len(p2b) /\ \A i \in 1..Len(p2b') : i \in 1..Len(p2b) - 1 /\ i + 1 \in 1..Len(p2b)
      BY <2>1
    <2>3. m.id <= Left /\ IsSent(m)
      BY <1>2, <2>1, <2>2 DEF IInv, Core, ForwardedIsOlder, SentIs
    <2> QED BY <2>1, <2>2, <2>3 DEF Message
  <1>4. Left' = Left /\ Left \in Int /\ Len(sent) \in Nat
    BY <1>1, <1>2, PumpPlace DEF Left, Taken
  <1>5. ASSUME NEW k \in Ids, NEW i \in 1..Len(p2b'), p2b'[i].id = k, HasAnswer(p2b'[i]) PROVE Back(k)
    BY <1>3, <1>5 DEF Back
  <1>6. ASSUME \A k \in Ids : Back(k)' => Back(k), Undisturbed', OneAnswer' PROVE OrderInv'
    <2>1. OneAsked'
      <3>1. ASSUME NEW k \in Ids, Unanswered(k)' PROVE Unanswered(k)
        BY <1>1, <1>4, <1>6, <3>1 DEF Unanswered
      <3> QED BY <1>1, <1>2, <3>1 DEF OneAsked, FollowsPrepare
    <2>2. Behind'
      BY <1>1, <1>2, <1>4, <1>6 DEF Behind
    <2>3. \A i \in 1..Len(sent') : sent'[i].id = i /\ Parseable(sent'[i])
      BY <1>1 DEF OrderInv
    <2> QED BY <1>6, <2>1, <2>2, <2>3 DEF OrderInv
  <1>7. CASE ServerTakes
    <2>1. UNCHANGED b2p
      BY <1>7 DEF ServerTakes
    <2>2. \A k \in Ids : Back(k)' => Back(k)
      BY <1>5, <2>1 DEF Back
    <2>3. Undisturbed'
      BY <1>1, <1>2, <1>3, <2>1 DEF Undisturbed, NoAnswerIn
    <2>4. OneAnswer'
      BY <1>1, <1>2, <1>4, <2>1 DEF OneAnswer
    <2> QED BY <1>6, <2>2, <2>3, <2>4
  <1>8. CASE ~ServerTakes
    <2>1. HasAnswer(m)
      BY <1>0, <1>8 DEF Server, ServerRuns, ServerPrepares, ServerFails, ServerAcknowledges,
           ServerResets, Receive, HasAnswer
    <2>2. b2p = <<>> /\ Expects(m)
      BY <1>0, <1>1, <1>2, <2>1, PhaseFacts
    <2>3. PICK q \in Seq(Packet) : q # <<>> /\ Own(q, m) /\ Answer(q)
      BY <1>0, <1>8, AnswerIsOwn
    <2>4. b2p' = MarkLast(q) /\ Len(b2p') = Len(q) /\ \A i \in 1..Len(q) : b2p'[i].id = m.id
      BY <2>2, <2>3, MarkFacts DEF Answer, Own
    <2>5. \A i \in 1..Len(q) : b2p'[i].last <=> i = Len(q)
      <3>1. ASSUME NEW i \in 1..Len(q) PROVE MarkLast(q)[i].last <=> i = Len(q)
        <4>1. q[i] \in Packet /\ DOMAIN q = 1..Len(q)
          OBVIOUS
        <4>2. MarkLast(q)[i] = [q[i] EXCEPT !.last = (i = Len(q))]
          BY <4>1 DEF MarkLast
        <4> QED BY <4>1, <4>2 DEF Packet
      <3> QED BY <2>4, <3>1
    <2>6. Back(m.id)
      BY <1>3, <2>1 DEF Back
    <2>7. \A k \in Ids : Back(k)' => Back(k)
      BY <1>5, <2>4, <2>6 DEF Back
    <2>8. Undisturbed'
      BY <1>1, <1>2, <1>3, <2>1 DEF Undisturbed, NoAnswerIn
    <2>9. OneAnswer'
      <3>1. 1 \in 1..Len(q)
        BY <2>3, TailFacts
      <3>2. m.type = "PREPARE" => pendingSql # None
        BY <2>2 DEF Expects, Awaits, Runs
      <3>3. sent[m.id] = m
        BY <1>3 DEF IsSent
      <3> QED BY <1>1, <1>3, <1>4, <2>4, <2>5, <3>1, <3>2, <3>3 DEF OneAnswer
    <2> QED BY <1>6, <2>7, <2>8, <2>9
  <1> QED BY <1>7, <1>8

\* What a step of the client pump sends on is the command it is done with.
LEMMA PumpMoves ==
  ASSUME IInv, TrackInv, TrackInv', ClientPump, open'
  PROVE  /\ Left \in Int /\ Left' \in Int /\ Left <= Left'
         /\ \/ UNCHANGED p2b
            \/ \E m \in Message : m.id = Left + 1 /\ Left' = Left + 1 /\ IsSent(m) /\ p2b' = Append(p2b, m)
  <1>1. open /\ UNCHANGED sent /\ SentIs /\ SentIs'
    BY PumpLeaves DEF TrackInv
  <1>2. /\ p2b \in Seq(Message)
        /\ UNCHANGED p2b \/ \E q \in Message : p2b' = Append(p2b, q)
    <2>1. c2p # <<>> => Head(c2p) \in Message
      BY <1>1, HeadsSent
    <2>2. HandleInitDb => p2b' = Append(p2b, Head(c2p)) /\ c2p # <<>>
      BY DEF HandleInitDb, Command, Forward
    <2> QED BY <2>1, <2>2, PumpForwards DEF IInv, Core, StreamTyped
  <1>3. IInv' /\ (UNCHANGED vars \/ GateStep)
    BY NextInv DEF Next
  <1>4. CASE UNCHANGED vars
    <2>1. UNCHANGED <<p2b, pc, sent, c2p>>
      BY <1>4 DEF vars, task
    <2>2. Left' = Left /\ Left \in Int
      BY <1>1, <2>1, PumpPlace DEF Left, Taken
    <2> QED BY <2>1, <2>2
  <1>5. CASE Holds
    BY <1>5 DEF Holds, OlderKept
  <1>6. CASE Leaves
    <2>1. Left \in Int /\ Left' \in Int /\ Left <= Left' /\ Left' = Left + 1
      BY <1>6 DEF Leaves, OlderKept
    <2>2. ASSUME NEW m \in Message, m.id = Left + 1, p2b' = Append(p2b, m) PROVE IsSent(m)
      <3>1. Len(p2b) \in Nat /\ Len(p2b') = Len(p2b) + 1 /\ p2b'[Len(p2b) + 1] = m
        BY <1>2, <2>2, AppendFacts
      <3>2. Len(p2b) + 1 \in 1..Len(p2b')
        BY <3>1
      <3>3. m.id \in 1..Len(sent') /\ sent'[m.id] = m
        BY <1>1, <3>1, <3>2 DEF SentIs, IsSent
      <3> QED BY <1>1, <3>3 DEF IsSent
    <2> QED BY <1>6, <2>1, <2>2 DEF Leaves
  <1>7. CASE Arrives
    <2>1. p2b # <<>> /\ p2b' = Tail(p2b)
      BY <1>7 DEF Arrives
    <2>2. Len(p2b) \in Nat \ {0} /\ Len(p2b') = Len(p2b) - 1
      BY <1>2, <2>1, TailFacts
    <2>3. p2b' = p2b \/ Len(p2b') = Len(p2b) + 1
      BY <1>2, AppendFacts
    <2> QED BY <2>2, <2>3
  <1> QED BY <1>3, <1>4, <1>5, <1>6, <1>7 DEF GateStep

\* The client pump.
LEMMA OrderPump ==
  ASSUME IInv, TrackInv, TrackInv', OrderInv, AnswersInOrder, ClientPump
  PROVE  OrderInv' /\ AnswersInOrder'
  <1>1. open /\ UNCHANGED <<sent, b2p>> /\ Phase /\ SentIs /\ Undisturbed
    BY PumpLeaves DEF TrackInv, OrderInv
  <1>2. ASSUME UNCHANGED delivered, ~open' \/ (Undisturbed' /\ (pendingSql' = pendingSql \/ pendingSql' # None))
        PROVE  OrderInv' /\ AnswersInOrder'
    <2>1. AnswersInOrder'
      BY <1>2 DEF AnswersInOrder
    <2>2. CASE ~open'
      BY <2>1, <2>2 DEF OrderInv
    <2>3. CASE open'
      BY <1>1, <1>2, <2>1, <2>3, PumpMoves, OrderQuiet
    <2> QED BY <2>2, <2>3
  <1>3. ASSUME NEW m \in Message, m.id = Left + 1, Left' = Left + 1, UNCHANGED p2b,
               delivered' = Append(delivered, ErrorPacket(m)), NoAnswerIn(p2b), b2p = <<>>
        PROVE  OrderInv' /\ AnswersInOrder'
    BY <1>1, <1>3, OrderError
  <1>4. ~BlockedByPending
    <2> SUFFICES ASSUME BlockedByPending PROVE FALSE
      OBVIOUS
    <2>1. pc = "read" /\ c2p # <<>> /\ ~MayDispatch(Head(c2p))
      BY DEF BlockedByPending
    <2>2. HasPending /\ ~PipelinedExecute(Head(c2p))
      BY <2>1 DEF MayDispatch
    <2> QED BY <1>1, <2>1, <2>2, OnlyExecuteFollows
  <1>5. ~HasPending => NoAnswerIn(p2b) /\ b2p = <<>>
    BY <1>1, PhaseFacts DEF Resting
  <1>6. CASE HandleStateError
    <2>1. PICK m : m = Head(c2p)
      OBVIOUS
    <2>2. /\ pc = "read" /\ pc' = "read" /\ c2p # <<>> /\ c2p' = Tail(c2p) /\ m.type \in {"PING", "RESET"}
          /\ MayDispatch(m) /\ UNCHANGED p2b /\ delivered' = Append(delivered, ErrorPacket(m))
      BY <1>6, <2>1 DEF HandleStateError, Command, StateError, task
    <2>3. ~HasPending
      BY <2>2 DEF MayDispatch, PipelinedExecute
    <2>4. m \in Message /\ m.id = Left + 1
      BY <1>1, <2>1, <2>2, PumpPlace
    <2>5. Left' = Left + 1
      <3>1. Len(c2p) \in Nat \ {0} /\ Len(c2p') = Len(c2p) - 1 /\ Len(sent) \in Nat
        BY <2>2, TailFacts DEF IInv, Core, StreamTyped
      <3> QED BY <1>1, <2>2, <3>1 DEF Left, Taken
    <2> QED BY <1>3, <1>5, <2>2, <2>3, <2>4, <2>5
  <1>7. CASE ResumeExecute
    <2>1. pc = "wait" /\ pendingSql = None /\ UNCHANGED <<c2p, p2b, pendingSql>>
      BY <1>7 DEF ResumeExecute, lifecycle
    <2>2. NoAnswerIn(p2b) /\ b2p = <<>>
      <3>1. ~Asked /\ ~Answering /\ ~Weighing
        BY <2>1 DEF Asked, Answering, Weighing, Aside, Awaits, Refusing
      <3> QED BY <1>1, <3>1 DEF Phase, Resting
    <2>3. CASE prepFailed
      <3>1. delivered' = Append(delivered, ErrorPacket(cur[1])) /\ pc' = "read"
        BY <1>7, <2>3 DEF ResumeExecute, StateError
      <3>2. cur[1] \in Message /\ cur[1].id = Left + 1
        BY <1>1, <2>1, PumpPlace
      <3>3. Left' = Left + 1
        <4>1. Len(c2p) \in Nat /\ Len(sent) \in Nat
          BY DEF IInv, Core, StreamTyped
        <4> QED BY <1>1, <2>1, <3>1, <4>1 DEF Left, Taken
      <3> QED BY <1>3, <2>1, <2>2, <3>1, <3>2, <3>3
    <2>4. CASE ~prepFailed
      <3>1. UNCHANGED delivered
        BY <1>7, <2>4 DEF ResumeExecute
      <3>2. Undisturbed'
        BY <1>1, <2>1, <2>2 DEF Undisturbed, NoAnswerIn
      <3> QED BY <1>2, <2>1, <3>1, <3>2
    <2> QED BY <2>3, <2>4
  <1>8. CASE AuditWritten
    <2>1. pc = "audit" /\ pc' = "read" /\ UNCHANGED <<c2p, pendingSql>>
      BY <1>8 DEF AuditWritten, lifecycle
    <2>2. NoAnswerIn(p2b) /\ b2p = <<>>
      BY <1>1, <2>1 DEF Undisturbed
    <2>3. Undisturbed'
      BY <2>1 DEF Undisturbed
    <2>4. UNCHANGED delivered \/ (UNCHANGED p2b /\ delivered' = Append(delivered, ErrorPacket(cur[1])))
      BY <1>8 DEF AuditWritten
    <2>5. cur[1] \in Message /\ cur[1].id = Left + 1
      BY <1>1, <2>1, PumpPlace
    <2>6. Left' = Left + 1
      <3>1. Len(c2p) \in Nat /\ Len(sent) \in Nat
        BY DEF IInv, Core, StreamTyped
      <3> QED BY <1>1, <2>1, <3>1 DEF Left, Taken
    <2> QED BY <1>2, <1>3, <2>1, <2>2, <2>3, <2>4, <2>5, <2>6
  <1>9. CASE HandleProtocolGap \/ HandleQuery
    <2>1. /\ pc = "read" /\ c2p # <<>> /\ UNCHANGED <<delivered, p2b, pendingSql>>
          /\ Head(c2p).type = "EXECUTE" => ~Head(c2p).wf
      BY <1>9 DEF HandleProtocolGap, HandleQuery, Command, lifecycle
    <2>2. ~HasPending
      BY <1>1, <2>1, OnlyExecuteFollows DEF PipelinedExecute
    <2>3. Undisturbed'
      BY <1>1, <1>5, <2>1, <2>2 DEF Undisturbed, NoAnswerIn
    <2> QED BY <1>2, <2>1, <2>3
  <1>10. CASE HandleExecute
    <2>1. /\ MayDispatch(Head(c2p)) /\ UNCHANGED <<delivered, p2b, pendingSql>> /\ Head(c2p).type = "EXECUTE"
      BY <1>10 DEF HandleExecute, Command, lifecycle
    <2>2. CASE PipelinedExecute(Head(c2p))
      <3>1. pc' = "wait"
        BY <1>10, <2>2 DEF HandleExecute
      <3>2. Undisturbed'
        BY <3>1 DEF Undisturbed
      <3> QED BY <1>2, <2>1, <3>2
    <2>3. CASE ~PipelinedExecute(Head(c2p))
      <3>1. ~HasPending
        BY <2>1, <2>3 DEF MayDispatch
      <3>2. Undisturbed'
        BY <1>1, <1>5, <2>1, <3>1 DEF Undisturbed, NoAnswerIn
      <3> QED BY <1>2, <2>1, <3>2
    <2> QED BY <2>2, <2>3
  <1>11. CASE EstimateDone \/ UserDecides
    <2>1. pc \in {"estimate", "confirm"} /\ UNCHANGED <<delivered, p2b, pendingSql>>
      BY <1>11 DEF EstimateDone, UserDecides, lifecycle
    <2>2. Undisturbed'
      BY <1>1, <2>1 DEF Undisturbed, NoAnswerIn
    <2> QED BY <1>2, <2>1, <2>2
  <1>12. CASE HandleInitDb \/ HandleQuit \/ HandlePing \/ HandleClose \/ HandleReset
    <2>1. pc = "read" /\ pc' = "read" /\ UNCHANGED <<delivered, pendingSql>>
      BY <1>12 DEF HandleInitDb, HandleQuit, HandlePing, HandleClose, HandleReset, Command, lifecycle, task
    <2>2. Undisturbed'
      BY <2>1 DEF Undisturbed
    <2> QED BY <1>2, <2>1, <2>2
  <1>13. CASE HandlePrepare
    <2>1. pc' = "read" /\ UNCHANGED delivered /\ pendingSql' = Head(c2p).sql /\ c2p # <<>>
      BY <1>13 DEF HandlePrepare, Command, task
    <2>2. Head(c2p) \in Message
      BY <1>1, <2>1, PumpPlace
    <2>3. pendingSql' # None
      BY <2>1, <2>2, TextsAssumption DEF Message
    <2>4. Undisturbed'
      BY <2>1 DEF Undisturbed
    <2> QED BY <1>2, <2>1, <2>3, <2>4
  <1>14. CASE ClientPumpEnds
    BY <1>2, <1>14 DEF ClientPumpEnds
  <1> QED BY <1>4, <1>6, <1>7, <1>8, <1>9, <1>10, <1>11, <1>12, <1>13, <1>14 DEF ClientPump

\* The answers of a waiting client are in order on every behaviour.
LEMMA OrderInvariance ==
  ASSUME Window = "step", Mode # "permissive", \A r \in Requests : Parseable(r)
  PROVE  Spec => [](IInv /\ TrackInv /\ OrderInv /\ AnswersInOrder)
  <1>1. Init => OrderInv /\ AnswersInOrder
    <2> SUFFICES ASSUME Init PROVE OrderInv /\ AnswersInOrder
      OBVIOUS
    <2>1. /\ sent = <<>> /\ delivered = <<>> /\ p2b = <<>> /\ b2p = <<>> /\ c2p = <<>> /\ pc = "read"
      BY DEF Init
    <2>2. \A k \in Ids : ~Unanswered(k)
      BY <2>1 DEF Unanswered, Back, Left, Taken
    <2> QED BY <2>1, <2>2 DEF OrderInv, OneAsked, Behind, Undisturbed, OneAnswer, AnswersInOrder
  <1>2. IInv /\ TrackInv /\ OrderInv /\ AnswersInOrder /\ [Next]_vars
          => IInv' /\ TrackInv' /\ OrderInv' /\ AnswersInOrder'
    <2> SUFFICES ASSUME IInv, TrackInv, OrderInv, AnswersInOrder, [Next]_vars
                 PROVE  IInv' /\ TrackInv' /\ OrderInv' /\ AnswersInOrder'
      OBVIOUS
    <2>1. IInv' /\ TrackInv'
      BY NextInv, TrackNext
    <2>2. UNCHANGED delivered => AnswersInOrder'
      BY DEF AnswersInOrder
    <2>3. CASE \E r \in Requests : ClientSend(r)
      <3>1. OrderInv' /\ UNCHANGED delivered
        BY <2>3, OrderSend DEF ClientSend
      <3> QED BY <2>1, <2>2, <3>1
    <2>4. CASE Server
      <3>1. OrderInv' /\ UNCHANGED delivered
        BY <2>4, OrderServed DEF Server, ServerRuns, ServerPrepares, ServerFails, ServerAcknowledges,
           ServerResets, ServerTakes
      <3> QED BY <2>1, <2>2, <3>1
    <2>5. CASE UNCHANGED vars
      <3>1. UNCHANGED <<sent, delivered, c2p, p2b, b2p, pendingSql, pc, open>>
        BY <2>5 DEF vars, lifecycle, task
      <3>2. OrderInv'
        BY <3>1 DEF OrderInv, OneAsked, Behind, Undisturbed, OneAnswer, Unanswered, Back, FollowsPrepare,
                    NoAnswerIn, Left, Taken
      <3> QED BY <2>1, <2>2, <3>1, <3>2
    <2> QED BY <2>1, <2>3, <2>4, <2>5, OrderPump, OrderRelay DEF Next
  <1> QED BY <1>1, <1>2, InitInv, TrackInit, PTL DEF Spec

\* A client that waits for its answers, but for the EXECUTE of LAST behind a
\* PREPARE, gets them in the order of its commands: those the proxy makes up
\* never overtake one of the server, nor the packets of an answer.  The
\* hypothesis on the EXECUTE is what the code needs: one that cannot be parsed
\* is refused while the answer to the PREPARE is on its way.
THEOREM WaitingClientInOrder ==
  ASSUME Window = "step", Mode # "permissive", \A r \in Requests : Parseable(r)
  PROVE  Spec => []AnswersInOrder
  BY OrderInvariance, PTL

-----------------------------------------------------------------------------
(***************************************************************************)
(* Every command is answered at most once, however far the client runs     *)
(* ahead.                                                                  *)
(***************************************************************************)
\* Nothing is delivered behind the last packet of an answer.
LastOnce ==
  \A i \in 1..Len(delivered) : \A j \in 1..i - 1 : delivered[j].last => delivered[j].id # delivered[i].id

\* A command the protocol does not answer gets the proxy's refusal only.
OnlyRefusals ==
  \A i \in 1..Len(delivered) :
    /\ delivered[i].id \in 1..Len(sent)
    /\ ~HasAnswer(sent[delivered[i].id]) => /\ delivered[i].marker = "err" /\ delivered[i].last
                                            /\ audited[delivered[i].id] \notin LetThrough

\* What was delivered belongs to no command still at the server, and behind
\* its last packet to no answer on its way.
Apart ==
  \A i \in 1..Len(delivered) :
    /\ delivered[i].id <= Left
    /\ \A k \in 1..Len(p2b) : delivered[i].id # p2b[k].id
    /\ \A k \in 1..Len(b2p) : delivered[i].last => delivered[i].id # b2p[k].id

\* The packets on their way end with the last one of an answer.
Finished == \A i \in 1..Len(b2p) : b2p[i].id <= Left /\ (b2p[i].last <=> i = Len(b2p))

OnceInv == LastOnce /\ OnlyRefusals /\ (open => Apart /\ Finished)

\* A step of the client pump delivers nothing, or its refusal of the command
\* it is done with.
LEMMA PumpRefuses ==
  ASSUME IInv, TrackInv, ClientPump
  PROVE  \/ UNCHANGED delivered
         \/ /\ UNCHANGED p2b
            /\ \E m \in Message : /\ m.id = Left + 1 /\ Left' = Left + 1 /\ IsSent(m)
                                  /\ delivered' = Append(delivered, ErrorPacket(m))
                                  /\ audited'[m.id] \notin LetThrough
  <1>1. open /\ UNCHANGED sent /\ SentIs
    BY PumpLeaves DEF TrackInv
  <1>2. \A id \in Ids : id > Left => audited[id] \notin LetThrough
    BY DEF IInv, Core, Undecided, LetThrough
  <1>3. Len(sent) \in Nat /\ Len(c2p) \in Nat /\ Left \in Int
    BY <1>1, PumpPlace DEF IInv, Core, StreamTyped
  <1>4. CASE BlockedByPending \/ HandleStateError
    <2>1. /\ pc = "read" /\ pc' = "read" /\ c2p # <<>> /\ c2p' = Tail(c2p) /\ UNCHANGED <<p2b, audited>>
          /\ delivered' = Append(delivered, ErrorPacket(Head(c2p)))
      BY <1>4 DEF BlockedByPending, HandleStateError, Command, StateError, task
    <2>2. /\ Head(c2p) \in Message /\ Head(c2p).id = Left + 1 /\ Head(c2p).id \in Ids /\ IsSent(Head(c2p))
      BY <1>1, <2>1, PumpPlace
    <2>3. Left' = Left + 1
      <3>1. Len(c2p) \in Nat \ {0} /\ Len(c2p') = Len(c2p) - 1
        BY <2>1, TailFacts DEF IInv, Core, StreamTyped
      <3> QED BY <1>1, <1>3, <2>1, <3>1 DEF Left, Taken
    <2>4. audited'[Head(c2p).id] \notin LetThrough
      BY <1>2, <1>3, <2>1, <2>2
    <2> QED BY <2>1, <2>2, <2>3, <2>4
  <1>5. CASE ResumeExecute \/ AuditWritten
    <2>1. pc # "read" /\ UNCHANGED c2p
      BY <1>5 DEF ResumeExecute, AuditWritten
    <2>2. cur[1] \in Message /\ cur[1].id = Left + 1 /\ cur[1].id \in Ids /\ IsSent(cur[1])
      BY <1>1, <2>1, PumpPlace
    <2>3. pc' = "read" => Left' = Left + 1
      BY <1>1, <1>3, <2>1 DEF Left, Taken
    <2>4. \/ UNCHANGED delivered
          \/ /\ pc' = "read" /\ UNCHANGED p2b /\ delivered' = Append(delivered, ErrorPacket(cur[1]))
             /\ audited'[cur[1].id] \notin LetThrough
      <3>1. CASE ResumeExecute
        <4>1. \/ UNCHANGED delivered
              \/ pc' = "read" /\ UNCHANGED p2b /\ delivered' = Append(delivered, ErrorPacket(cur[1]))
          BY <3>1 DEF ResumeExecute, StateError
        <4>2. UNCHANGED audited
          BY <3>1 DEF ResumeExecute
        <4> QED BY <1>2, <1>3, <2>2, <4>1, <4>2
      <3>2. CASE AuditWritten
        <4>1. \/ UNCHANGED delivered
              \/ /\ pc' = "read" /\ UNCHANGED p2b /\ delivered' = Append(delivered, ErrorPacket(cur[1]))
                 /\ verdict[cur[1].id] \in Refused
          BY <3>2 DEF AuditWritten
        <4>2. audited' = [audited EXCEPT ![cur[1].id] = verdict[cur[1].id]]
          BY <3>2 DEF AuditWritten
        <4>3. audited'[cur[1].id] = verdict[cur[1].id]
          BY <2>2, <4>2 DEF IInv, TypeOK, TaskTyped
        <4> QED BY <4>1, <4>3 DEF Refused, LetThrough
      <3> QED BY <1>5, <3>1, <3>2
    <2> QED BY <2>2, <2>3, <2>4
  <1>6. CASE HandleProtocolGap \/ HandleQuery \/ HandleInitDb \/ HandleQuit \/ HandlePing \/ HandlePrepare
             \/ HandleClose \/ HandleReset \/ HandleExecute \/ EstimateDone \/ UserDecides \/ ClientPumpEnds
    BY <1>6 DEF HandleProtocolGap, HandleQuery, HandleInitDb, HandleQuit, HandlePing, HandlePrepare,
                HandleClose, HandleReset, HandleExecute, EstimateDone, UserDecides, ClientPumpEnds
  <1> QED BY <1>4, <1>5, <1>6 DEF ClientPump

\* A packet is delivered behind the rest.
LEMMA OnceDelivers ==
  ASSUME IInv, OnceInv, UNCHANGED sent, NEW p \in Packet, delivered' = Append(delivered, p),
         \A i \in 1..Len(delivered) : delivered[i].last => delivered[i].id # p.id,
         \A i \in 1..Len(delivered) : audited'[delivered[i].id] = audited[delivered[i].id],
         p.id \in 1..Len(sent),
         ~HasAnswer(sent[p.id]) => p.marker = "err" /\ p.last /\ audited'[p.id] \notin LetThrough
  PROVE  LastOnce' /\ OnlyRefusals'
  <1>1. /\ Len(delivered) \in Nat /\ Len(delivered') = Len(delivered) + 1
        /\ \A i \in 1..Len(delivered) : delivered'[i] = delivered[i]
        /\ delivered'[Len(delivered) + 1] = p
    BY AppendFacts DEF IInv, TypeOK, AnswersTyped
  <1>2. LastOnce'
    <2>1. ASSUME NEW i \in 1..Len(delivered'), NEW j \in 1..i - 1, delivered'[j].last
          PROVE  delivered'[j].id # delivered'[i].id
      <3>1. j \in 1..Len(delivered)
        BY <1>1
      <3>2. CASE i \in 1..Len(delivered)
        BY <1>1, <2>1, <3>1, <3>2 DEF OnceInv, LastOnce
      <3>3. CASE i = Len(delivered) + 1
        BY <1>1, <2>1, <3>1, <3>3
      <3> QED BY <1>1, <3>2, <3>3
    <2> QED BY <2>1 DEF LastOnce
  <1>3. OnlyRefusals'
    <2>1. ASSUME NEW i \in 1..Len(delivered')
          PROVE  /\ delivered'[i].id \in 1..Len(sent)
                 /\ ~HasAnswer(sent[delivered'[i].id]) =>
                      /\ delivered'[i].marker = "err" /\ delivered'[i].last
                      /\ audited'[delivered'[i].id] \notin LetThrough
      <3>1. CASE i \in 1..Len(delivered)
        BY <1>1, <3>1 DEF OnceInv, OnlyRefusals
      <3>2. CASE i = Len(delivered) + 1
        BY <1>1, <3>2
      <3> QED BY <1>1, <3>1, <3>2
    <2> QED BY <2>1 DEF OnlyRefusals
  <1> QED BY <1>2, <1>3

\* The client pump.
LEMMA OncePump ==
  ASSUME IInv, TrackInv, TrackInv', OnceInv, ClientPump
  PROVE  OnceInv'
  <1>1. open /\ UNCHANGED <<sent, b2p>> /\ SentIs /\ Apart /\ Finished
    BY PumpLeaves DEF TrackInv, OnceInv
  <1>2. /\ delivered \in Seq(Packet) /\ Len(delivered) \in Nat /\ Left \in Int
        /\ \A i \in 1..Len(delivered) : delivered[i].id \in Ids /\ delivered[i].id <= Left
        /\ \A k \in 1..Len(b2p) : b2p[k].id \in Ids /\ b2p[k].id <= Left
        /\ \A k \in 1..Len(p2b) : p2b[k].id \in Ids /\ p2b[k].id <= Left
    <2>1. delivered \in Seq(Packet) /\ b2p \in Seq(Packet) /\ p2b \in Seq(Message)
      BY DEF IInv, TypeOK, AnswersTyped, StreamTyped
    <2>2. /\ \A i \in 1..Len(delivered) : delivered[i] \in Packet
          /\ \A k \in 1..Len(b2p) : b2p[k] \in Packet
          /\ \A k \in 1..Len(p2b) : p2b[k] \in Message
      BY <2>1
    <2>3. Left \in Int
      BY <1>1, PumpPlace
    <2> QED BY <1>1, <2>1, <2>2, <2>3 DEF Packet, Message, Apart, Finished, IInv, Core, ForwardedIsOlder
  <1>3. \A id \in Ids : id <= Left => audited'[id] = audited[id]
    <2>1. CASE AuditWritten
      <3>1. cur[1].id = Left + 1 /\ audited' = [audited EXCEPT ![cur[1].id] = verdict[cur[1].id]]
        BY <1>1, <2>1, PumpPlace DEF AuditWritten
      <3> QED BY <1>2, <3>1 DEF Ids, IInv, TypeOK, TaskTyped
    <2>2. CASE ~AuditWritten
      <3>1. UNCHANGED audited
        BY <2>2 DEF ClientPump, BlockedByPending, HandleProtocolGap, HandleQuery, HandleInitDb, HandleQuit,
             HandlePing, HandlePrepare, HandleClose, HandleReset, HandleStateError, HandleExecute,
             ResumeExecute, EstimateDone, UserDecides, ClientPumpEnds, task
      <3> QED BY <3>1
    <2> QED BY <2>1, <2>2
  <1>4. \A i \in 1..Len(delivered) : audited'[delivered[i].id] = audited[delivered[i].id]
    BY <1>2, <1>3
  <1>5. CASE UNCHANGED delivered
    <2>1. LastOnce' /\ OnlyRefusals'
      BY <1>1, <1>4, <1>5 DEF OnceInv, LastOnce, OnlyRefusals
    <2>2. CASE ~open'
      BY <2>1, <2>2 DEF OnceInv
    <2>3. CASE open'
      <3>1. /\ Left' \in Int /\ Left <= Left'
            /\ \/ UNCHANGED p2b
               \/ \E m \in Message : m.id = Left + 1 /\ Left' = Left + 1 /\ IsSent(m) /\ p2b' = Append(p2b, m)
        BY <2>3, PumpMoves
      <3>2. \A k \in 1..Len(p2b') : (k \in 1..Len(p2b) /\ p2b'[k] = p2b[k]) \/ p2b'[k].id = Left + 1
        <4>1. CASE UNCHANGED p2b
          BY <4>1
        <4>2. CASE ~UNCHANGED p2b
          <5>1. PICK m \in Message : m.id = Left + 1 /\ p2b' = Append(p2b, m)
            BY <3>1, <4>2
          <5>2. /\ Len(p2b) \in Nat /\ Len(p2b') = Len(p2b) + 1 /\ p2b'[Len(p2b) + 1] = m
                /\ \A k \in 1..Len(p2b) : p2b'[k] = p2b[k]
            BY <5>1, AppendFacts DEF IInv, Core, StreamTyped
          <5> QED BY <5>1, <5>2
        <4> QED BY <4>1, <4>2
      <3>3. ASSUME NEW i \in 1..Len(delivered)
            PROVE  /\ delivered[i].id <= Left'
                   /\ \A k \in 1..Len(p2b') : delivered[i].id # p2b'[k].id
        <4>1. delivered[i].id \in Int /\ delivered[i].id <= Left
          BY <1>2 DEF Ids
        <4>2. delivered[i].id <= Left' /\ delivered[i].id # Left + 1
          BY <1>2, <3>1, <4>1
        <4> QED BY <1>1, <3>2, <4>2 DEF Apart
      <3>4. Apart'
        BY <1>1, <1>5, <3>3 DEF Apart
      <3>5. Finished'
        <4>1. ASSUME NEW k \in 1..Len(b2p) PROVE b2p[k].id <= Left'
          BY <1>2, <3>1 DEF Ids
        <4> QED BY <1>1, <4>1 DEF Finished
      <3> QED BY <2>1, <3>4, <3>5 DEF OnceInv
    <2> QED BY <2>2, <2>3
  <1>6. CASE ~UNCHANGED delivered
    <2>1. PICK m \in Message : /\ m.id = Left + 1 /\ Left' = Left + 1 /\ IsSent(m)
                               /\ delivered' = Append(delivered, ErrorPacket(m))
                               /\ audited'[m.id] \notin LetThrough
      BY <1>6, PumpRefuses
    <2>2. UNCHANGED p2b
      BY <1>6, PumpRefuses
    <2>3. PICK p : p = ErrorPacket(m)
      OBVIOUS
    <2>4. p \in Packet /\ p.id = Left + 1 /\ p.marker = "err" /\ p.last /\ p.id \in 1..Len(sent)
      BY <2>1, <2>3 DEF ErrorPacket, Packet, Message, IsSent
    <2>5. \A i \in 1..Len(delivered) : delivered[i].id # p.id
      BY <1>2, <2>4 DEF Ids
    <2>6. LastOnce' /\ OnlyRefusals'
      BY <1>1, <1>4, <2>1, <2>3, <2>4, <2>5, OnceDelivers
    <2>7. /\ Len(delivered') = Len(delivered) + 1
          /\ \A i \in 1..Len(delivered) : delivered'[i] = delivered[i]
          /\ delivered'[Len(delivered) + 1] = p
      BY <1>2, <2>1, <2>3, <2>4, AppendFacts
    <2>8. ASSUME NEW i \in 1..Len(delivered')
          PROVE  /\ delivered'[i].id <= Left'
                 /\ \A k \in 1..Len(p2b) : delivered'[i].id # p2b[k].id
                 /\ \A k \in 1..Len(b2p) : delivered'[i].last => delivered'[i].id # b2p[k].id
      <3>1. CASE i \in 1..Len(delivered)
        <4>1. delivered'[i] = delivered[i] /\ delivered[i].id <= Left'
          BY <1>2, <2>1, <2>7, <3>1 DEF Ids
        <4> QED BY <1>1, <3>1, <4>1 DEF Apart
      <3>2. CASE i = Len(delivered) + 1
        <4>1. delivered'[i].id = Left + 1
          BY <2>4, <2>7, <3>2
        <4> QED BY <1>2, <2>1, <4>1 DEF Ids
      <3> QED BY <1>2, <2>7, <3>1, <3>2
    <2>9. Finished'
      <3>1. ASSUME NEW k \in 1..Len(b2p) PROVE b2p[k].id <= Left'
        BY <1>2, <2>1 DEF Ids
      <3> QED BY <1>1, <3>1 DEF Finished
    <2> QED BY <1>1, <2>2, <2>6, <2>8, <2>9 DEF OnceInv, Apart
  <1> QED BY <1>5, <1>6

\* The backend pump.
LEMMA OnceRelay ==
  ASSUME IInv, TrackInv, OnceInv, BackendPump
  PROVE  OnceInv'
  <1>0. PICK p : p = Head(b2p)
    OBVIOUS
  <1>1. open /\ b2p # <<>> /\ b2p' = Tail(b2p) /\ UNCHANGED <<sent, c2p, p2b, pc, audited>>
    BY DEF BackendPump, PingAnswered, ResetAnswered, DatabaseAnswered, PrepareFails, PrepareAccepted,
           MetadataArrives, CommandAnswered, UntrackedAnswer, Packets, task
  <1>2. delivered' = IF open' THEN Append(delivered, p) ELSE delivered
    BY <1>0 DEF BackendPump, PingAnswered, ResetAnswered, DatabaseAnswered, PrepareFails, PrepareAccepted,
           MetadataArrives, CommandAnswered, UntrackedAnswer, Relay
  <1>3. CASE ~open'
    BY <1>1, <1>2, <1>3 DEF OnceInv, LastOnce, OnlyRefusals
  <1>4. CASE open'
    <2>1. SentIs /\ Apart /\ Finished /\ Answering
      BY <1>1, PhaseFacts DEF TrackInv, OnceInv
    <2>2. /\ p = b2p[1] /\ p \in Packet /\ Len(b2p) \in Nat \ {0} /\ Len(b2p') = Len(b2p) - 1
          /\ \A i \in 1..Len(b2p) - 1 : b2p'[i] = b2p[i + 1]
      BY <1>0, <1>1, TailFacts DEF IInv, TypeOK, AnswersTyped
    <2>3. 1 \in 1..Len(b2p) /\ p.id <= Left /\ (p.last <=> Len(b2p) = 1)
      BY <2>1, <2>2 DEF Finished
    <2>4. p.id \in 1..Len(sent) /\ HasAnswer(sent[p.id])
      BY <2>1, <2>2, <2>3 DEF SentIs
    <2>5. \A k \in 1..Len(p2b) : p.id # p2b[k].id
      BY <2>1, <2>4 DEF Answering, OnlyQuits, SentIs, IsSent, HasAnswer
    <2>6. \A i \in 1..Len(delivered) : delivered[i].last => delivered[i].id # p.id
      BY <2>1, <2>2, <2>3 DEF Apart
    <2>7. LastOnce' /\ OnlyRefusals'
      <3>1. delivered' = Append(delivered, p)
        BY <1>2, <1>4
      <3> QED BY <1>1, <2>2, <2>4, <2>6, <3>1, OnceDelivers
    <2>8. Left' = Left
      BY <1>1 DEF Left, Taken
    <2>9. /\ Len(delivered) \in Nat /\ Len(delivered') = Len(delivered) + 1
          /\ \A i \in 1..Len(delivered) : delivered'[i] = delivered[i]
          /\ delivered'[Len(delivered) + 1] = p
      BY <1>2, <1>4, <2>2, AppendFacts DEF IInv, TypeOK, AnswersTyped
    <2>10. \A k \in 1..Len(b2p') : k + 1 \in 1..Len(b2p) /\ b2p'[k] = b2p[k + 1]
      BY <2>2
    <2>11. ASSUME NEW i \in 1..Len(delivered')
           PROVE  /\ delivered'[i].id <= Left
                  /\ \A k \in 1..Len(p2b) : delivered'[i].id # p2b[k].id
                  /\ \A k \in 1..Len(b2p') : delivered'[i].last => delivered'[i].id # b2p'[k].id
      <3>1. CASE i \in 1..Len(delivered)
        <4>1. /\ delivered'[i] = delivered[i] /\ delivered[i].id <= Left
              /\ \A k \in 1..Len(p2b) : delivered[i].id # p2b[k].id
              /\ delivered[i].last => \A k \in 1..Len(b2p) : delivered[i].id # b2p[k].id
          BY <2>1, <2>9, <3>1 DEF Apart
        <4>2. ASSUME NEW k \in 1..Len(b2p'), delivered[i].last PROVE delivered[i].id # b2p'[k].id
          BY <2>10, <4>1, <4>2
        <4> QED BY <4>1, <4>2
      <3>2. CASE i = Len(delivered) + 1
        <4>1. delivered'[i] = p
          BY <2>9, <3>2
        <4>2. p.last => \A k \in 1..Len(b2p') : FALSE
          <5>0. PICK n : n = Len(b2p')
            OBVIOUS
          <5>1. ASSUME p.last PROVE n = 0
            <6>1. Len(b2p) = 1
              BY <2>3, <5>1, Zenon
            <6>2. n = Len(b2p) - 1
              BY <2>2, <5>0
            <6> QED BY ONLY <6>1, <6>2
          <5>2. n = 0 => \A k \in 1..n : FALSE
            OBVIOUS
          <5> QED BY <5>0, <5>1, <5>2
        <4> QED BY <2>3, <2>5, <4>1, <4>2
      <3> QED BY <2>9, <3>1, <3>2
    <2>12. Apart'
      BY <1>1, <2>8, <2>11 DEF Apart
    <2>13. Finished'
      <3>1. ASSUME NEW k \in 1..Len(b2p') PROVE b2p'[k].id <= Left /\ (b2p'[k].last <=> k = Len(b2p'))
        <4>1. k + 1 \in 1..Len(b2p) /\ b2p'[k] = b2p[k + 1] /\ (k + 1 = Len(b2p) <=> k = Len(b2p'))
          BY <2>2
        <4> QED BY <2>1, <4>1 DEF Finished
      <3> QED BY <2>8, <3>1 DEF Finished
    <2> QED BY <2>7, <2>12, <2>13 DEF OnceInv
  <1> QED BY <1>3, <1>4

\* The server.
LEMMA OnceServed ==
  ASSUME IInv, TrackInv, OnceInv, Server
  PROVE  OnceInv'
  <1>0. PICK m : m = Head(p2b)
    OBVIOUS
  <1>1. /\ open /\ p2b # <<>> /\ p2b' = Tail(p2b)
        /\ UNCHANGED <<sent, delivered, c2p, pc, audited>>
    BY DEF Server, ServerRuns, ServerPrepares, ServerFails, ServerAcknowledges, ServerResets, ServerTakes,
           Receive, task
  <1>2. SentIs /\ Apart /\ Finished /\ Phase
    BY <1>1 DEF TrackInv, OnceInv
  <1>3. /\ m \in Message /\ m = p2b[1] /\ 1 \in 1..Len(p2b) /\ m.id <= Left
        /\ \A i \in 1..Len(p2b') : i + 1 \in 1..Len(p2b) /\ p2b'[i] = p2b[i + 1]
    <2>1. /\ m \in Message /\ m = p2b[1] /\ Len(p2b) \in Nat \ {0} /\ Len(p2b') = Len(p2b) - 1
          /\ \A i \in 1..Len(p2b) - 1 : p2b'[i] = p2b[i + 1]
      BY <1>0, <1>1, TailFacts DEF IInv, Core, StreamTyped
    <2>2. 1 \in 1..Len(p2b) /\ \A i \in 1..Len(p2b') : i \in 1..Len(p2b) - 1 /\ i + 1 \in 1..Len(p2b)
      BY <2>1
    <2>3. m.id <= Left
      BY <2>1, <2>2 DEF IInv, Core, ForwardedIsOlder
    <2> QED BY <2>1, <2>2, <2>3
  <1>4. Left' = Left /\ LastOnce' /\ OnlyRefusals'
    BY <1>1 DEF Left, Taken, OnceInv, LastOnce, OnlyRefusals
  <1>5. CASE ServerTakes
    <2>1. UNCHANGED b2p
      BY <1>5 DEF ServerTakes
    <2>2. Apart' /\ Finished'
      BY <1>1, <1>2, <1>3, <1>4, <2>1 DEF Apart, Finished
    <2> QED BY <1>4, <2>2 DEF OnceInv
  <1>6. CASE ~ServerTakes
    <2>1. HasAnswer(m)
      BY <1>0, <1>6 DEF Server, ServerRuns, ServerPrepares, ServerFails, ServerAcknowledges, ServerResets,
                        Receive, HasAnswer
    <2>2. b2p = <<>>
      BY <1>0, <1>1, <1>2, <2>1, PhaseFacts
    <2>3. PICK q \in Seq(Packet) : q # <<>> /\ Own(q, m) /\ Answer(q)
      BY <1>0, <1>6, AnswerIsOwn
    <2>4. b2p' = MarkLast(q) /\ Len(b2p') = Len(q) /\ \A i \in 1..Len(q) : b2p'[i].id = m.id
      BY <2>2, <2>3, MarkFacts DEF Answer, Own
    <2>5. \A i \in 1..Len(q) : b2p'[i].last <=> i = Len(q)
      <3>1. ASSUME NEW i \in 1..Len(q) PROVE MarkLast(q)[i].last <=> i = Len(q)
        <4>1. q[i] \in Packet /\ DOMAIN q = 1..Len(q)
          OBVIOUS
        <4>2. MarkLast(q)[i] = [q[i] EXCEPT !.last = (i = Len(q))]
          BY <4>1 DEF MarkLast
        <4> QED BY <4>1, <4>2 DEF Packet
      <3> QED BY <2>4, <3>1
    <2>6. Finished'
      BY <1>3, <1>4, <2>4, <2>5 DEF Finished
    <2>7. Apart'
      BY <1>1, <1>2, <1>3, <1>4, <2>4 DEF Apart
    <2> QED BY <1>4, <2>6, <2>7 DEF OnceInv
  <1> QED BY <1>5, <1>6

\* Nothing follows the last packet of an answer, and a command the protocol
\* does not answer gets no packet but the proxy's refusal: every command is
\* answered at most once, by the server or by the proxy, whatever the client
\* sends ahead, long data and what cannot be parsed included.
THEOREM AnsweredAtMostOnce ==
  ASSUME Mode # "permissive"
  PROVE  Spec => []NothingUnasked
  <1>1. Init => OnceInv
    BY DEF Init, OnceInv, LastOnce, OnlyRefusals, Apart, Finished
  <1>2. IInv /\ TrackInv /\ TrackInv' /\ OnceInv /\ [Next]_vars => OnceInv'
    <2> SUFFICES ASSUME IInv, TrackInv, TrackInv', OnceInv, [Next]_vars PROVE OnceInv'
      OBVIOUS
    <2>1. CASE \E r \in Requests : ClientSend(r)
      <3>1. PICK r \in Requests : ClientSend(r)
        BY <2>1
      <3>2. PICK m : m = [type |-> r.type, wf |-> r.wf, stmt |-> r.stmt, bound |-> r.bound,
                          sql |-> r.sql, db |-> r.db, id |-> Len(sent) + 1]
        OBVIOUS
      <3>3. /\ sent' = Append(sent, m) /\ c2p' = Append(c2p, m)
            /\ UNCHANGED <<delivered, p2b, b2p, pc, audited, open>>
        BY <3>1, <3>2 DEF ClientSend, task
      <3>4. sent \in Seq(Message) /\ c2p \in Seq(Message) /\ sent' \in Seq(Message) /\ c2p' \in Seq(Message)
        <4>1. IInv'
          BY NextInv
        <4> QED BY <4>1 DEF IInv, Core, StreamTyped
      <3>5. /\ Len(sent) \in Nat /\ Len(sent') = Len(sent) + 1 /\ Len(c2p) \in Nat /\ Len(c2p') = Len(c2p) + 1
            /\ \A i \in 1..Len(sent) : sent'[i] = sent[i]
        BY <3>3, <3>4
      <3>6. Left' = Left
        BY <3>3, <3>5 DEF Left, Taken
      <3>7. OnlyRefusals'
        <4>1. ASSUME NEW i \in 1..Len(delivered)
              PROVE  /\ delivered[i].id \in 1..Len(sent')
                     /\ HasAnswer(sent'[delivered[i].id]) <=> HasAnswer(sent[delivered[i].id])
          BY <3>5 DEF OnceInv, OnlyRefusals
        <4> QED BY <3>3, <4>1 DEF OnceInv, OnlyRefusals
      <3> QED BY <3>3, <3>6, <3>7 DEF OnceInv, LastOnce, Apart, Finished
    <2>2. CASE UNCHANGED vars
      <3>1. UNCHANGED <<sent, delivered, c2p, p2b, b2p, pc, audited, open>>
        BY <2>2 DEF vars, task
      <3> QED BY <3>1 DEF OnceInv, LastOnce, OnlyRefusals, Apart, Finished, Left, Taken
    <2> QED BY <2>1, <2>2, OncePump, OnceRelay, OnceServed DEF Next
  <1>3. OnceInv => NothingUnasked
    BY DEF OnceInv, LastOnce, OnlyRefusals, NothingUnasked
  <1> QED BY <1>1, <1>2, <1>3, TrackInvariance, PTL DEF Spec

=============================================================================
