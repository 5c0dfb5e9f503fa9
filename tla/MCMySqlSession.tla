--------------------------- MODULE MCMySqlSession ---------------------------
(***************************************************************************)
(* Instances of MySqlSession for TLC.                                      *)
(***************************************************************************)
EXTENDS MySqlSession

MCSQL == {"select", "begin", "update", "batch", "use", "broken"}

MCClass ==
  [q \in MCSQL |->
     CASE q = "begin"  -> Classified("safe", "transaction", "none", "none", "LOW")
       [] q = "select" -> Classified("safe", "rows", "none", "none", "LOW")
       [] q = "update" -> Classified("risky", "rows", "true", "own", "MEDIUM")
       [] q = "batch"  -> Classified("risky", "batch", "none", "none", "CRITICAL")
       [] q \in {"use", "broken"} -> Classified("unknown", "unknown", "none", "none", "HIGH")]

MCConfig ==
  [auto_allow_max_rows |-> 0, block_at_rows |-> 2, no_where_action |-> "BLOCK",
   structural_action |-> "CONFIRM", unknown_action |-> "CONFIRM",
   estimation_failure_action |-> "BLOCK", multi_statement_action |-> "CONFIRM"]

MCSqlBytes   == [q \in MCSQL |-> IF q = "select" THEN 1 ELSE 2]
MCParameters == [q \in MCSQL |-> IF q = "update" THEN 1 ELSE 0]
MCColumns    == [q \in MCSQL |-> IF q \in {"select", "batch"} THEN 1 ELSE 0]
MCTxEffect   == [q \in MCSQL |-> IF q = "begin" THEN "begin" ELSE "none"]
MCUseDb      == [q \in MCSQL |-> IF q = "use" THEN "other" ELSE None]

R(type, wf, stmt, bound, sql, db) ==
  [type |-> type, wf |-> wf, stmt |-> stmt, bound |-> bound, sql |-> sql, db |-> db]

Simple(type)   == R(type, TRUE, LAST, FALSE, "select", "home")
Bad(type)      == R(type, FALSE, LAST, FALSE, "select", "home")
Query(sql)     == R("QUERY", TRUE, LAST, FALSE, sql, "home")
InitDb         == R("INIT_DB", TRUE, LAST, FALSE, "select", "other")
Prepare(sql)   == R("PREPARE", TRUE, LAST, FALSE, sql, "home")
On(type, id)   == R(type, TRUE, id, TRUE, "select", "home")
ExecuteAgain(id) == R("EXECUTE", TRUE, id, FALSE, "select", "home")

\* A client that waits for answers, except behind a PREPARE: two statements,
\* long data, an unsupported command, transactions, batches, a database.
StepRequests ==
  {Query("begin"), Query("batch"), Query("update"), Query("use"), InitDb, Prepare("select"), Prepare("update"),
   On("EXECUTE", LAST), ExecuteAgain(1), On("LONGDATA", 1), On("CLOSE", 1), On("RESET", 1),
   Simple("OTHER")}

\* A client that does not wait.
PipelineRequests ==
  {Query("batch"), Prepare("update"), Prepare("select"),
   Prepare("broken"), On("EXECUTE", LAST), On("EXECUTE", 1), On("CLOSE", 1),
   On("LONGDATA", 1), Bad("CLOSE"), Simple("EMPTY"), Simple("PING"), Bad("EXECUTE"),
   Simple("QUIT"), InitDb}

=============================================================================
