----------------------------- MODULE MCDecision -----------------------------
(***************************************************************************)
(* Instances of Decision for TLC: every syntax summary, four policy        *)
(* configurations and row counts on both sides of each threshold.          *)
(***************************************************************************)
EXTENDS Decision

Config(allow, block, nowhere, failure, multi) ==
  [auto_allow_max_rows |-> allow, block_at_rows |-> block,
   no_where_action |-> nowhere, structural_action |-> "CONFIRM",
   unknown_action |-> "CONFIRM", estimation_failure_action |-> failure,
   multi_statement_action |-> multi]

\* The defaults scaled down, an adjacent pair of thresholds, a lenient and a
\* strict setting.
MCConfigs == {Config(0, 3, "CONFIRM", "CONFIRM", "BLOCK"),
              Config(1, 2, "BLOCK", "CONFIRM", "CONFIRM"),
              Config(1, 3, "CONFIRM", "ALLOW", "BLOCK"),
              Config(2, 3, "BLOCK", "BLOCK", "BLOCK")}

MCRowCounts == 0..4

\* Statements whose only WHERE clause, if any, is their own.
PlainAsts == {a \in Ast : a.where # "nested"}

\* One statement whose only WHERE clause belongs to a subquery.
NestedAsts == {a \in Ast : a.parsed /\ a.count = 1 /\ a.kind = "update"
                           /\ a.where = "nested" /\ a.table /\ ~a.global}

=============================================================================
