------------------------------- MODULE Policy -------------------------------
(***************************************************************************)
(* How one SQL request is judged: classification (sql_classifier.py), the  *)
(* configured policy (policy.py) and the fail-safe mode for traffic that   *)
(* cannot be inspected (fail_safe.py).  All of it is pure: the operators   *)
(* here are used by the session modules, which own the state.              *)
(*                                                                         *)
(* SQL text is abstracted to a syntax summary: how many statements the     *)
(* parser finds, the kind of the first one, where a WHERE clause sits.     *)
(* Messages and reasons are left out.                                      *)
(***************************************************************************)
EXTENDS Integers

Severity     == {"LOW", "MEDIUM", "HIGH", "CRITICAL"}
PolicyAction == {"ALLOW", "CONFIRM", "BLOCK"}
FailSafeMode == {"strict", "balanced", "permissive"}

\* estimated_rows is None; a count is never negative.
NoRows == -1

(***************************************************************************)
(* Syntax summaries.  "where" tells apart a statement's own WHERE clause   *)
(* and one that only occurs in a subquery; "global" marks a SET that has   *)
(* global scope or touches PASSWORD or PERSIST.                            *)
(***************************************************************************)
StatementKinds == {"transaction", "set", "select", "update", "delete",
                   "truncate", "drop", "alter", "create", "other"}

Ast == [parsed : BOOLEAN, count : 0..2, kind : StatementKinds,
        where : {"none", "own", "nested"}, table : BOOLEAN, global : BOOLEAN]

(***************************************************************************)
(* The classification of a request.  has_where is an Optional[bool] in the *)
(* code; preview names the predicate of the count preview query.        *)
(***************************************************************************)
Classification ==
  [risk : {"safe", "risky", "unknown"},
   impact_kind : {"rows", "schema", "batch", "transaction", "session", "unknown"},
   has_where : {"true", "false", "none"},
   preview : {"none", "every_row", "own", "nested"},
   severity : Severity]

Classified(risk, impact, where, preview, severity) ==
  [risk |-> risk, impact_kind |-> impact, has_where |-> where,
   preview |-> preview, severity |-> severity]

\* ast.find(exp.Where) searches the whole tree, breadth first: the
\* statement's own clause when there is one, else a subquery's.
FindWhere(ast) == ast.where

\* _build_count_query: counts over the first table, under the WHERE found.
BuildCountQuery(ast) ==
  CASE ~ast.table              -> "none"
    [] FindWhere(ast) = "none" -> "every_row"
    [] OTHER                   -> FindWhere(ast)

ClassifyMutation(ast) ==
  IF FindWhere(ast) = "none"
    THEN Classified("risky", "rows", "false", BuildCountQuery(ast), "CRITICAL")
    ELSE Classified("risky", "rows", "true", BuildCountQuery(ast), "MEDIUM")

\* Exactly one statement; the isinstance tests of the code in their order.
ClassifyStatement(ast) ==
  CASE ast.kind = "transaction" ->
         Classified("safe", "transaction", "none", "none", "LOW")
    [] ast.kind = "set" /\ ~ast.global ->
         Classified("safe", "session", "none", "none", "LOW")
    [] ast.kind = "select" ->
         Classified("safe", "rows", "none", "none", "LOW")
    [] ast.kind \in {"update", "delete"} -> ClassifyMutation(ast)
    [] ast.kind = "truncate" ->
         Classified("risky", "rows", "false",
                    IF ast.table THEN "every_row" ELSE "none", "CRITICAL")
    [] ast.kind = "drop" ->
         Classified("risky", "schema", "none", "none", "CRITICAL")
    [] ast.kind = "alter" ->
         Classified("risky", "schema", "none", "none", "HIGH")
    [] ast.kind = "create" ->
         Classified("risky", "schema", "none", "none", "MEDIUM")
    [] OTHER ->
         Classified("unknown", "unknown", "none", "none", "HIGH")

Classify(ast) ==
  IF ~ast.parsed \/ ast.count = 0
    THEN Classified("unknown", "unknown", "none", "none", "HIGH")
  ELSE IF ast.count > 1
    THEN Classified("risky", "batch", "none", "none", "CRITICAL")
  ELSE ClassifyStatement(ast)

(***************************************************************************)
(* PolicyConfig, with the two conditions its constructor enforces.         *)
(***************************************************************************)
PolicyConfig ==
  {c \in [auto_allow_max_rows : Nat, block_at_rows : Nat,
          no_where_action : PolicyAction, structural_action : PolicyAction,
          unknown_action : PolicyAction,
          estimation_failure_action : PolicyAction,
          multi_statement_action : PolicyAction] :
     c.auto_allow_max_rows < c.block_at_rows}

PolicyDecision == [action : PolicyAction, severity : Severity]

Decide(action, severity) == [action |-> action, severity |-> severity]

(***************************************************************************)
(* evaluate_policy: the rules in the order of the code's early returns.    *)
(***************************************************************************)
\* (slip) the thresholds are compared the wrong way round
EvaluateRows_Swapped(rows, cfg) ==
  IF rows >= cfg.auto_allow_max_rows THEN Decide("ALLOW", "LOW")
  ELSE Decide("CONFIRM", "HIGH")

\* (slip) the block threshold is forgotten
EvaluateRows_NoBlock(rows, cfg) ==
  IF rows <= cfg.auto_allow_max_rows THEN Decide("ALLOW", "LOW")
  ELSE Decide("CONFIRM", IF rows < 100 THEN "MEDIUM" ELSE "HIGH")

EvaluateRows(rows, cfg) ==
  IF rows >= cfg.block_at_rows THEN Decide("BLOCK", "CRITICAL")
  ELSE IF rows <= cfg.auto_allow_max_rows THEN Decide("ALLOW", "LOW")
  ELSE Decide("CONFIRM", IF rows < 100 THEN "MEDIUM" ELSE "HIGH")

\* (slip) a missing estimate without an error text is taken for a number
EstimateMissing_ErrOnly(rows, err) == err

EstimateMissing(rows, err) == err \/ rows = NoRows

EvaluatePolicy(c, rows, err, cfg) ==
  IF c.risk = "safe" THEN Decide("ALLOW", "LOW")
  ELSE IF c.impact_kind = "batch"
    THEN Decide(cfg.multi_statement_action, "CRITICAL")
  ELSE IF c.risk = "unknown" THEN Decide(cfg.unknown_action, "HIGH")
  ELSE IF c.impact_kind = "schema" THEN Decide(cfg.structural_action, "CRITICAL")
  ELSE IF c.has_where = "false" THEN Decide(cfg.no_where_action, "CRITICAL")
  ELSE IF EstimateMissing(rows, err)
    THEN Decide(cfg.estimation_failure_action, "HIGH")
  ELSE EvaluateRows(rows, cfg)

\* (slip) only the strict mode blocks
EvaluateProtocolGap_StrictOnly(mode) == IF mode = "strict" THEN "BLOCK" ELSE "ALLOW"

\* evaluate_protocol_gap: only the permissive mode forwards what the proxy
\* could not inspect.
EvaluateProtocolGap(mode) == IF mode = "permissive" THEN "ALLOW" ELSE "BLOCK"

-----------------------------------------------------------------------------
(***************************************************************************)
(* Outcomes of the judgement of a message; the names are the audit log's   *)
(* final_decision, "SAFE" is a statement forwarded without an audit event, *)
(* "PENDING" one that still waits for its estimate or confirmation.        *)
(***************************************************************************)
LetThrough == {"SAFE", "ALLOWED", "APPROVED_BY_USER", "ALLOWED_PROTOCOL_GAP"}
Refused    == {"BLOCKED_BY_POLICY", "BLOCKED_BY_USER", "BLOCKED_PROTOCOL_GAP"}
Verdicts   == LetThrough \cup Refused \cup {"PENDING", "NONE"}

\* How restrictive an action is, to compare two decisions.
Strictness == [a \in PolicyAction |->
                 CASE a = "ALLOW" -> 0 [] a = "CONFIRM" -> 1 [] a = "BLOCK" -> 2]

=============================================================================
