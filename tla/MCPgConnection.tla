--------------------------- MODULE MCPgConnection ---------------------------
(***************************************************************************)
(* An instance of PgConnection for TLC.                                    *)
(***************************************************************************)
EXTENDS PgConnection

\* A query has a byte beside its header, so that reads end in the header, in
\* the payload and behind it; a malformed length is below the header's.
MCPgSizes ==
  [k \in PgKinds |-> CASE k = "malformed" -> 0 [] k = "query" -> 3 [] OTHER -> 2]

=============================================================================
