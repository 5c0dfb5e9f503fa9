---------------------------- MODULE MCPgSession -----------------------------
(***************************************************************************)
(* Instances of PgSession for TLC.                                         *)
(***************************************************************************)
EXTENDS PgSession

MCSQL == {"select", "begin", "commit", "update", "delete", "drop"}

\* An UPDATE with WHERE is decided by its estimate, a DELETE without WHERE
\* and a DROP by a setting.
MCClass ==
  [q \in MCSQL |->
     CASE q \in {"begin", "commit"} -> Classified("safe", "transaction", "none", "none", "LOW")
       [] q = "select" -> Classified("safe", "rows", "none", "none", "LOW")
       [] q = "update" -> Classified("risky", "rows", "true", "own", "MEDIUM")
       [] q = "delete" -> Classified("risky", "rows", "false", "every_row", "CRITICAL")
       [] q = "drop"   -> Classified("risky", "schema", "none", "none", "CRITICAL")]

MCTxEffect ==
  [q \in MCSQL |-> CASE q = "begin" -> "begin" [] q = "commit" -> "end" [] OTHER -> "none"]

MCConfig ==
  [auto_allow_max_rows |-> 0, block_at_rows |-> 2, no_where_action |-> "BLOCK",
   structural_action |-> "CONFIRM", unknown_action |-> "CONFIRM",
   estimation_failure_action |-> "BLOCK", multi_statement_action |-> "BLOCK"]

MCNameBytes == [n \in Names |-> IF n = "" THEN 0 ELSE 1]
MCSqlBytes  == [q \in MCSQL |-> IF q = "select" THEN 1 ELSE 2]

R(type, wf, name, portal, sql) ==
  [type |-> type, wf |-> wf, name |-> name, portal |-> portal, sql |-> sql]

Query(sql)         == R("Query", TRUE, "", "", sql)
Parse(name, sql)   == R("Parse", TRUE, name, "", sql)
Bind(portal, name) == R("Bind", TRUE, name, portal, "select")
Execute(portal)    == R("Execute", TRUE, "", portal, "select")
CloseS(name)       == R("CloseS", TRUE, name, "", "select")
CloseP(portal)     == R("CloseP", TRUE, "", portal, "select")
Sync               == R("Sync", TRUE, "", "", "select")
Terminate          == R("Terminate", TRUE, "", "", "select")
Function           == R("Function", TRUE, "", "", "select")
Malformed(type)    == R(type, FALSE, "", "", "select")

\* One name beside the empty one, prepared again with another text after a
\* Close while a portal made from the old text was open; a transaction, begun
\* by a Query or by extended messages; a statement that is refused, one that
\* is estimated and one asked about.
StepRequests ==
  {Query("begin"), Query("delete"), Parse("", "update"), Parse("", "begin"), Parse("s", "drop"),
   Parse("s", "select"), Bind("", ""), Bind("s", "s"), Execute(""), Execute("s"),
   CloseS("s"), Sync}

\* Streams without waiting.
PipelineRequests ==
  {Query("begin"), Query("delete"), Parse("", "drop"), Parse("s", "update"),
   Bind("", ""), Execute(""), Malformed("Execute"), CloseP(""), Sync, Function, Terminate}

\* The same name prepared twice.
RenameRequests == {Parse("s", "drop"), Parse("s", "select"), Bind("", "s"), Execute(""), Sync}

=============================================================================
