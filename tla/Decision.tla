------------------------------ MODULE Decision ------------------------------
(***************************************************************************)
(* One request on its way from SQL text to a verdict: classify, run the    *)
(* read-only preview (_estimate), apply the policy, ask the operator when  *)
(* the policy says so (_evaluate_and_decide).                              *)
(*                                                                         *)
(* "affected" is the number of rows the statement would change at the time *)
(* of the estimate: what the preview is meant to measure.  "unrelated" is  *)
(* what a count under some other predicate returns.                     *)
(***************************************************************************)
EXTENDS Policy

CONSTANTS
  Asts,        \* the syntax summaries the client may send
  Configs,     \* the policy configurations considered
  RowCounts    \* the row counts a table or a predicate may have

ASSUME AstsAssumption == Asts \subseteq Ast
ASSUME ConfigsAssumption == Configs \subseteq PolicyConfig
ASSUME RowCountsAssumption == RowCounts \subseteq Nat

VARIABLES ast, cfg, affected, unrelated, stage, class, rows, err, decision, final

vars == <<ast, cfg, affected, unrelated, stage, class, rows, err, decision, final>>

Finals == {"none", "ALLOWED", "BLOCKED_BY_POLICY", "APPROVED_BY_USER",
           "BLOCKED_BY_USER"}

NoDecision == [action |-> "none", severity |-> "none"]

Init ==
  /\ ast \in Asts
  /\ cfg \in Configs
  /\ affected \in RowCounts
  /\ unrelated \in RowCounts
  /\ stage = "received"
  /\ class = Classified("unknown", "unknown", "none", "none", "HIGH")
  /\ rows = NoRows
  /\ err = FALSE
  /\ decision = NoDecision
  /\ final = "none"

\* A safe statement is forwarded at once, without estimate or audit.
ClassifyRequest ==
  /\ stage = "received"
  /\ class' = Classify(ast)
  /\ IF Classify(ast).risk = "safe"
       THEN stage' = "done" /\ final' = "ALLOWED"
       ELSE stage' = "classified" /\ UNCHANGED final
  /\ UNCHANGED <<ast, cfg, affected, unrelated, rows, err, decision>>

\* The rows a preview counts (the estimator account sees the same data).
PreviewCount(preview) ==
  IF preview = "nested" THEN unrelated ELSE affected

\* _estimate: nothing without a preview query; a row count; or any failure
\* (connect, timeout, SQL error), which the code turns into an error text.
Estimate ==
  /\ stage = "classified"
  /\ stage' = "estimated"
  /\ \/ class.preview = "none" /\ UNCHANGED <<rows, err>>
     \/ class.preview # "none" /\ rows' = PreviewCount(class.preview) /\ err' = FALSE
     \/ class.preview # "none" /\ err' = TRUE /\ UNCHANGED rows
  /\ UNCHANGED <<ast, cfg, affected, unrelated, class, decision, final>>

Evaluate ==
  /\ stage = "estimated"
  /\ decision' = EvaluatePolicy(class, rows, err, cfg)
  /\ CASE decision'.action = "ALLOW"   -> stage' = "done" /\ final' = "ALLOWED"
       [] decision'.action = "BLOCK"   -> stage' = "done" /\ final' = "BLOCKED_BY_POLICY"
       [] decision'.action = "CONFIRM" -> stage' = "confirming" /\ UNCHANGED final
  /\ UNCHANGED <<ast, cfg, affected, unrelated, class, rows, err>>

UserAnswers ==
  /\ stage = "confirming"
  /\ stage' = "done"
  /\ final' \in {"APPROVED_BY_USER", "BLOCKED_BY_USER"}
  /\ UNCHANGED <<ast, cfg, affected, unrelated, class, rows, err, decision>>

Next == ClassifyRequest \/ Estimate \/ Evaluate \/ UserAnswers

Spec == Init /\ [][Next]_vars

-----------------------------------------------------------------------------
TypeOK ==
  /\ ast \in Asts
  /\ cfg \in Configs
  /\ affected \in RowCounts
  /\ unrelated \in RowCounts
  /\ stage \in {"received", "classified", "estimated", "confirming", "done"}
  /\ class \in Classification
  /\ rows \in RowCounts \cup {NoRows}
  /\ err \in BOOLEAN
  /\ decision \in PolicyDecision \cup {NoDecision}
  /\ final \in Finals

IsMutation == ast.parsed /\ ast.count = 1 /\ ast.kind \in {"update", "delete", "truncate"}

\* The action an operator who reads the settings expects for a request that
\* no row estimate decides.
SettingFor ==
  CASE class.impact_kind = "batch"                            -> cfg.multi_statement_action
    [] class.impact_kind = "schema"                           -> cfg.structural_action
    [] class.risk = "unknown"                                 -> cfg.unknown_action
    [] class.impact_kind = "rows" /\ class.has_where = "false" -> cfg.no_where_action
    [] OTHER                                                  -> cfg.estimation_failure_action

\* A request that is not read-only and passes without anybody being asked
\* either falls under a setting that says ALLOW, or is a mutation that changes
\* no more rows than auto_allow_max_rows: an unknown, failed or skipped
\* estimate never counts as a small one (_estimate, evaluate_policy).
AutoAllowedIsSmall ==
  (final = "ALLOWED" /\ class.risk # "safe") =>
    \/ SettingFor = "ALLOW"
    \/ IsMutation /\ affected <= cfg.auto_allow_max_rows

\* A mutation that would change block_at_rows rows or more is refused when its
\* estimate succeeded; it passes only where a setting for requests without
\* WHERE or without estimate says so, or says to ask and the operator agreed.
LargeMutationIsStopped ==
  (IsMutation /\ affected >= cfg.block_at_rows /\ stage = "done") =>
    \/ final \in {"BLOCKED_BY_POLICY", "BLOCKED_BY_USER"}
    \/ /\ rows = NoRows \/ class.has_where = "false"
       /\ SettingFor = CASE final = "ALLOWED"          -> "ALLOW"
                         [] final = "APPROVED_BY_USER" -> "CONFIRM"

\* Raising the row estimate of a request, everything else equal, never makes
\* the decision more lenient (evaluate_policy's two thresholds).
StricterWithMoreRows ==
  stage = "done" /\ decision # NoDecision /\ rows # NoRows =>
    \A more \in RowCounts :
      more >= rows =>
        Strictness[EvaluatePolicy(class, more, err, cfg).action]
          >= Strictness[decision.action]

\* A mutation without a WHERE clause of its own is decided by
\* no_where_action ("no-WHERE mutation protection").
NoWhereIsProtected ==
  (IsMutation /\ ast.where # "own" /\ decision # NoDecision) =>
    decision.action = cfg.no_where_action

=============================================================================
