------------------------- MODULE MCMySqlConnection --------------------------
(***************************************************************************)
(* An instance of MySqlConnection for TLC.                                 *)
(***************************************************************************)
EXTENDS MySqlConnection

\* A full packet is continued, two full ones are more than a message may have.
MCMySizes ==
  [k \in MyKinds |-> CASE k = "huge" -> 4 [] k = "part" -> 3 [] OTHER -> 2]

=============================================================================
