--------------------------- MODULE DecisionProofs ---------------------------
(***************************************************************************)
(* What holds of a judgement for every syntax summary, every policy        *)
(* configuration and every row count.                                      *)
(***************************************************************************)
EXTENDS Decision, TLAPS

\* classify returns a well-formed classification.
LEMMA ClassifyTyped ==
  ASSUME NEW a \in Ast
  PROVE  Classify(a) \in Classification
<1>1. ClassifyMutation(a) \in Classification
  BY DEF ClassifyMutation, FindWhere, BuildCountQuery, Classified, Classification, Ast, Severity
<1>2. ClassifyStatement(a) \in Classification
  BY <1>1 DEF ClassifyStatement, Classified, Classification, Ast, Severity, StatementKinds
<1> QED
  BY <1>2 DEF Classify, Classified, Classification, Ast, Severity

\* evaluate_policy returns a well-formed decision.
LEMMA PolicyTyped ==
  ASSUME NEW c, NEW r \in Nat \cup {NoRows}, NEW e, NEW g \in PolicyConfig
  PROVE  EvaluatePolicy(c, r, e, g) \in PolicyDecision
  BY DEF EvaluatePolicy, EvaluateRows, Decide, PolicyDecision, PolicyConfig,
         PolicyAction, Severity

\* What classify can say of a request that is not read-only.
LEMMA ClassifyShape ==
  ASSUME NEW a \in Ast, Classify(a).risk # "safe"
  PROVE  \/ Classify(a).risk = "unknown" /\ Classify(a).impact_kind = "unknown"
         \/ /\ Classify(a).risk = "risky"
            /\ \/ Classify(a).impact_kind \in {"batch", "schema"}
               \/ /\ Classify(a).impact_kind = "rows"
                  /\ Classify(a).has_where \in {"true", "false"}
<1>1. CASE Classify(a) # ClassifyStatement(a)
  BY <1>1 DEF Classify, Classified
<1>2. CASE Classify(a) = ClassifyStatement(a)
  <2>1. CASE a.kind \in {"update", "delete"}
    <3>1. ClassifyStatement(a) = ClassifyMutation(a)
      BY <2>1 DEF ClassifyStatement
    <3> QED
      BY <1>2, <3>1 DEF ClassifyMutation, Classified
  <2>2. CASE a.kind = "truncate"
    BY <1>2, <2>2 DEF ClassifyStatement, Classified
  <2>3. CASE a.kind \in {"drop", "alter", "create"}
    <3>1. \E v \in Severity :
            ClassifyStatement(a) = Classified("risky", "schema", "none", "none", v)
      BY <2>3 DEF ClassifyStatement, Severity
    <3> QED
      BY <1>2, <3>1 DEF Classified
  <2>4. CASE a.kind = "other" \/ (a.kind = "set" /\ a.global)
    <3>1. ClassifyStatement(a) = Classified("unknown", "unknown", "none", "none", "HIGH")
      BY <2>4 DEF ClassifyStatement
    <3> QED
      BY <1>2, <3>1 DEF Classified
  <2>5. CASE a.kind \in {"transaction", "select"} \/ (a.kind = "set" /\ ~a.global)
    <3>1. \E k \in {"transaction", "rows", "session"} :
            ClassifyStatement(a) = Classified("safe", k, "none", "none", "LOW")
      BY <2>5 DEF ClassifyStatement
    <3> QED
      BY <1>2, <3>1 DEF Classified
  <2> QED
    BY <2>1, <2>2, <2>3, <2>4, <2>5 DEF Ast, StatementKinds
<1> QED
  BY <1>1, <1>2

\* Only an UPDATE or DELETE in which a WHERE clause was found is judged by its
\* row estimate.
LEMMA JudgedByRows ==
  ASSUME NEW a \in Ast, Classify(a).impact_kind = "rows", Classify(a).has_where = "true"
  PROVE  /\ a.parsed /\ a.count = 1 /\ a.kind \in {"update", "delete"}
         /\ Classify(a).preview \in {"none", a.where}
         /\ a.where # "none"
<1>1. Classify(a) = ClassifyStatement(a) /\ a.parsed /\ a.count = 1
  BY DEF Classify, Classified, Ast
<1>2. a.kind \in {"update", "delete"} /\ ClassifyStatement(a) = ClassifyMutation(a)
  BY <1>1 DEF ClassifyStatement, Classified, Ast, StatementKinds
<1> QED
  BY <1>1, <1>2 DEF ClassifyMutation, FindWhere, BuildCountQuery, Classified, Ast

-----------------------------------------------------------------------------
\* What each stage of a judgement has established: the classification is that
\* of the request, the rows are those of the preview, the decision is the
\* policy's, and the outcome follows the decision.
Established ==
  /\ stage # "received" => class = Classify(ast)
  /\ stage \in {"received", "classified"} => rows = NoRows /\ ~err
  /\ rows # NoRows => class.preview # "none" /\ rows = PreviewCount(class.preview)
  /\ stage \in {"received", "classified", "estimated"} =>
       decision = NoDecision /\ final = "none"
  /\ stage \in {"classified", "estimated"} => class.risk # "safe"
  /\ decision # NoDecision => decision = EvaluatePolicy(class, rows, err, cfg)
  /\ stage = "confirming" => decision # NoDecision /\ decision.action = "CONFIRM"
                             /\ final = "none"
  /\ (stage = "done" /\ decision = NoDecision) => class.risk = "safe"
  /\ (final = "ALLOWED" /\ class.risk # "safe") =>
       decision # NoDecision /\ decision.action = "ALLOW"
  /\ final = "APPROVED_BY_USER" => decision # NoDecision /\ decision.action = "CONFIRM"
  /\ stage = "done" => final # "none"
  /\ err => rows = NoRows

IInv == TypeOK /\ Established

\* A request starts with nothing established.
LEMMA InitEstablished == Init => IInv
<1> SUFFICES ASSUME Init PROVE IInv
  OBVIOUS
<1>1. class \in Classification
  BY DEF Init, Classified, Classification, Severity
<1>2. TypeOK
  BY <1>1 DEF Init, TypeOK, Finals
<1>3. Established
  BY DEF Init, Established
<1> QED
  BY <1>2, <1>3 DEF IInv

\* Each step establishes its part and keeps the earlier ones.
LEMMA NextEstablished == IInv /\ [Next]_vars => IInv'
<1> SUFFICES ASSUME IInv, [Next]_vars PROVE IInv'
  OBVIOUS
<1> USE DEF IInv
<1>t. ast \in Ast /\ cfg \in PolicyConfig /\ rows \in Nat \cup {NoRows}
      /\ affected \in Nat /\ unrelated \in Nat
  BY AstsAssumption, ConfigsAssumption, RowCountsAssumption DEF TypeOK
<1>1. CASE ClassifyRequest
  <2>1. TypeOK'
    BY <1>1, <1>t, ClassifyTyped DEF ClassifyRequest, TypeOK, Finals
  <2>2. Established'
    BY <1>1 DEF ClassifyRequest, TypeOK, Established, PreviewCount, NoDecision
  <2> QED BY <2>1, <2>2
<1>2. CASE Estimate
  <2>1. TypeOK'
    BY <1>2 DEF Estimate, TypeOK, PreviewCount
  <2>2. Established'
    BY <1>2 DEF Estimate, TypeOK, Established, PreviewCount
  <2> QED BY <2>1, <2>2
<1>3. CASE Evaluate
  <2> DEFINE d == EvaluatePolicy(class, rows, err, cfg)
  <2>1. d \in PolicyDecision
    BY <1>t, PolicyTyped
  <2>2. d.action \in {"ALLOW", "BLOCK", "CONFIRM"} /\ d # NoDecision
    BY <2>1 DEF PolicyDecision, PolicyAction, NoDecision
  <2>3. decision' = d
    BY <1>3 DEF Evaluate
  <2> HIDE DEF d
  <2>4. TypeOK'
    BY <1>3, <2>1, <2>2, <2>3 DEF Evaluate, TypeOK, Finals
  <2>5. Established'
    <3>1. /\ UNCHANGED <<ast, cfg, affected, unrelated, class, rows, err>>
          /\ stage = "estimated"
          /\ \/ d.action = "ALLOW" /\ stage' = "done" /\ final' = "ALLOWED"
             \/ d.action = "BLOCK" /\ stage' = "done" /\ final' = "BLOCKED_BY_POLICY"
             \/ d.action = "CONFIRM" /\ stage' = "confirming" /\ final' = final
      BY <1>3, <2>2, <2>3 DEF Evaluate
    <3>2. decision' = EvaluatePolicy(class, rows, err, cfg)'
      BY <2>3, <3>1 DEF d
    <3> QED
      BY <2>2, <2>3, <3>1, <3>2 DEF Established, PreviewCount
  <2> QED BY <2>4, <2>5
<1>4. CASE UserAnswers
  <2>1. TypeOK'
    BY <1>4 DEF UserAnswers, TypeOK, Finals
  <2>2. Established'
    BY <1>4 DEF UserAnswers, TypeOK, Established, PreviewCount
  <2> QED BY <2>1, <2>2
<1>5. CASE UNCHANGED vars
  BY <1>5 DEF vars, TypeOK, Established, PreviewCount
<1> QED
  BY <1>1, <1>2, <1>3, <1>4, <1>5 DEF Next

-----------------------------------------------------------------------------
\* Every state of a judgement is well typed and has established what its stage
\* promises.
THEOREM DecisionEstablished == Spec => []IInv
<1>1. Init => IInv
  BY InitEstablished
<1>2. IInv /\ [Next]_vars => IInv'
  BY NextEstablished
<1> QED
  BY <1>1, <1>2, PTL DEF Spec

\* evaluate_policy is monotonic: more rows never give a more lenient action,
\* whatever the classification and the configuration.
THEOREM PolicyMonotonic ==
  ASSUME NEW c, NEW e, NEW g \in PolicyConfig, NEW r \in Nat, NEW more \in Nat, more >= r
  PROVE  Strictness[EvaluatePolicy(c, more, e, g).action]
           >= Strictness[EvaluatePolicy(c, r, e, g).action]
<1>1. r # NoRows /\ more # NoRows
  BY DEF NoRows
<1>2. EstimateMissing(r, e) = EstimateMissing(more, e)
  BY <1>1 DEF EstimateMissing
<1>3. /\ Strictness["ALLOW"] = 0
      /\ Strictness["CONFIRM"] = 1
      /\ Strictness["BLOCK"] = 2
  BY DEF Strictness, PolicyAction
<1>4. Strictness[EvaluateRows(more, g).action] >= Strictness[EvaluateRows(r, g).action]
  BY <1>3 DEF EvaluateRows, Decide, PolicyConfig
<1>5. \A a \in PolicyAction : Strictness[a] \in Nat
  BY <1>3 DEF PolicyAction
<1>6. CASE EvaluatePolicy(c, more, e, g) = EvaluatePolicy(c, r, e, g)
  BY <1>5, <1>6, PolicyTyped DEF PolicyDecision
<1>7. CASE EvaluatePolicy(c, more, e, g) # EvaluatePolicy(c, r, e, g)
  <2>1. /\ EvaluatePolicy(c, more, e, g) = EvaluateRows(more, g)
        /\ EvaluatePolicy(c, r, e, g) = EvaluateRows(r, g)
    BY <1>2, <1>7 DEF EvaluatePolicy
  <2> QED
    BY <2>1, <1>4
<1> QED
  BY <1>6, <1>7

\* Raising the estimate of a judged request never makes its decision more
\* lenient.
THEOREM DecisionStricter == Spec => []StricterWithMoreRows
<1>1. IInv => StricterWithMoreRows
  <2> SUFFICES ASSUME IInv, decision # NoDecision, rows # NoRows,
                      NEW more \in RowCounts, more >= rows
               PROVE  Strictness[EvaluatePolicy(class, more, err, cfg).action]
                        >= Strictness[decision.action]
    BY DEF StricterWithMoreRows
  <2>1. rows \in Nat /\ more \in Nat /\ cfg \in PolicyConfig
    BY RowCountsAssumption, ConfigsAssumption DEF IInv, TypeOK
  <2>2. decision = EvaluatePolicy(class, rows, err, cfg)
    BY DEF IInv, Established
  <2> QED
    BY <2>1, <2>2, PolicyMonotonic
<1> QED
  BY <1>1, DecisionEstablished, PTL

\* The WHERE clauses of the requests are those of the statements themselves.
OwnWhere == \A a \in Asts : a.where # "nested"

\* Where no request hides its only WHERE clause in a subquery, what passes
\* unasked is covered by a setting or changes at most auto_allow_max_rows rows.
THEOREM DecisionSmall ==
  ASSUME OwnWhere
  PROVE  Spec => []AutoAllowedIsSmall
<1>1. IInv => AutoAllowedIsSmall
  <2> SUFFICES ASSUME IInv, final = "ALLOWED", class.risk # "safe", SettingFor # "ALLOW"
               PROVE  IsMutation /\ affected <= cfg.auto_allow_max_rows
    BY DEF AutoAllowedIsSmall
  <2>1. /\ ast \in Ast /\ ast.where # "nested" /\ cfg \in PolicyConfig
        /\ class \in Classification /\ rows \in Nat \cup {NoRows}
    BY AstsAssumption, ConfigsAssumption, RowCountsAssumption DEF IInv, TypeOK, OwnWhere
  <2>2. /\ class = Classify(ast)
        /\ decision # NoDecision
        /\ decision.action = "ALLOW"
        /\ decision = EvaluatePolicy(class, rows, err, cfg)
        /\ rows # NoRows => class.preview # "none" /\ rows = PreviewCount(class.preview)
    BY DEF IInv, Established
  <2>3. class.impact_kind = "rows" /\ class.has_where = "true" /\ class.risk = "risky"
    <3>1. CASE class.risk = "unknown" /\ class.impact_kind = "unknown"
      BY <2>2, <3>1 DEF EvaluatePolicy, SettingFor, Decide
    <3>2. CASE class.risk = "risky" /\ class.impact_kind = "batch"
      BY <2>2, <3>2 DEF EvaluatePolicy, SettingFor, Decide
    <3>3. CASE class.risk = "risky" /\ class.impact_kind = "schema"
      BY <2>2, <3>3 DEF EvaluatePolicy, SettingFor, Decide
    <3>4. CASE class.risk = "risky" /\ class.impact_kind = "rows" /\ class.has_where = "false"
      BY <2>2, <3>4 DEF EvaluatePolicy, SettingFor, Decide
    <3>5. \/ class.risk = "unknown" /\ class.impact_kind = "unknown"
          \/ /\ class.risk = "risky"
             /\ \/ class.impact_kind \in {"batch", "schema"}
                \/ class.impact_kind = "rows" /\ class.has_where \in {"true", "false"}
      BY <2>1, <2>2, ClassifyShape
    <3> QED
      BY <3>1, <3>2, <3>3, <3>4, <3>5
  <2>4. ~EstimateMissing(rows, err) /\ decision = EvaluateRows(rows, cfg)
    BY <2>2, <2>3 DEF EvaluatePolicy, SettingFor, Decide
  <2>5. rows # NoRows /\ rows <= cfg.auto_allow_max_rows
    BY <2>1, <2>2, <2>4 DEF EvaluateRows, EstimateMissing, Decide
  <2>6. IsMutation /\ class.preview # "nested"
    BY <2>1, <2>2, <2>3, JudgedByRows DEF IsMutation
  <2> QED
    BY <2>2, <2>5, <2>6 DEF PreviewCount
<1> QED
  BY <1>1, DecisionEstablished, PTL

\* A mutation is judged as one: risky, and by rows.
LEMMA MutationShape ==
  ASSUME NEW a \in Ast, a.parsed, a.count = 1, a.kind \in {"update", "delete", "truncate"}
  PROVE  /\ Classify(a).risk = "risky" /\ Classify(a).impact_kind = "rows"
         /\ Classify(a).has_where \in {"true", "false"}
<1>1. Classify(a) = ClassifyStatement(a)
  BY DEF Classify
<1>2. CASE a.kind = "truncate"
  <2>1. \E v \in {"every_row", "none"} :
          ClassifyStatement(a) = Classified("risky", "rows", "false", v, "CRITICAL")
    BY <1>2 DEF ClassifyStatement
  <2> QED
    BY <1>1, <2>1 DEF Classified
<1>3. CASE a.kind \in {"update", "delete"}
  <2>1. ClassifyStatement(a) = ClassifyMutation(a)
    BY <1>3 DEF ClassifyStatement
  <2> QED
    BY <1>1, <2>1 DEF ClassifyMutation, Classified
<1> QED
  BY <1>2, <1>3

\* Where no request hides its only WHERE clause in a subquery, a mutation of
\* block_at_rows rows or more passes only by a setting for requests without
\* WHERE or without estimate.
THEOREM DecisionStopsLarge ==
  ASSUME OwnWhere
  PROVE  Spec => []LargeMutationIsStopped
<1>1. IInv => LargeMutationIsStopped
  <2> SUFFICES ASSUME IInv, IsMutation, affected >= cfg.block_at_rows, stage = "done",
                      final \notin {"BLOCKED_BY_POLICY", "BLOCKED_BY_USER"}
               PROVE  /\ rows = NoRows \/ class.has_where = "false"
                      /\ \/ final = "ALLOWED" /\ SettingFor = "ALLOW"
                         \/ final = "APPROVED_BY_USER" /\ SettingFor = "CONFIRM"
    BY DEF LargeMutationIsStopped
  <2>1. /\ ast \in Ast /\ ast.where # "nested" /\ cfg \in PolicyConfig
        /\ rows \in Nat \cup {NoRows} /\ affected \in Nat
    BY AstsAssumption, ConfigsAssumption, RowCountsAssumption DEF IInv, TypeOK, OwnWhere
  <2>2. /\ class.risk = "risky" /\ class.impact_kind = "rows"
        /\ class.has_where \in {"true", "false"} /\ class = Classify(ast)
    BY <2>1, MutationShape DEF IInv, Established, IsMutation
  <2>3. /\ decision = EvaluatePolicy(class, rows, err, cfg)
        /\ \/ final = "ALLOWED" /\ decision.action = "ALLOW"
           \/ final = "APPROVED_BY_USER" /\ decision.action = "CONFIRM"
    BY <2>2 DEF IInv, Established, TypeOK, Finals
  <2>4. CASE class.has_where = "false"
    BY <2>2, <2>3, <2>4 DEF EvaluatePolicy, SettingFor, Decide
  <2>5. CASE class.has_where = "true" /\ EstimateMissing(rows, err)
    <3>1. rows = NoRows
      BY <2>5 DEF EstimateMissing, IInv, Established
    <3>2. SettingFor = cfg.estimation_failure_action
      BY <2>2, <2>5 DEF SettingFor
    <3> QED
      BY <2>2, <2>3, <2>5, <3>1, <3>2 DEF EvaluatePolicy, Decide
  <2>6. CASE class.has_where = "true" /\ ~EstimateMissing(rows, err)
    <3>1. decision = EvaluateRows(rows, cfg)
      BY <2>2, <2>3, <2>6 DEF EvaluatePolicy
    <3>2. rows # NoRows /\ class.preview # "nested"
      BY <2>1, <2>2, <2>6, JudgedByRows DEF EstimateMissing
    <3>3. rows = affected
      BY <3>2 DEF IInv, Established, PreviewCount
    <3> QED
      BY <2>1, <2>3, <3>1, <3>3 DEF EvaluateRows, Decide, PolicyConfig
  <2> QED
    BY <2>2, <2>4, <2>5, <2>6
<1> QED
  BY <1>1, DecisionEstablished, PTL

=============================================================================
