----------------------------- MODULE MCWorkers ------------------------------
(***************************************************************************)
(* An instance of Workers for TLC.                                         *)
(***************************************************************************)
EXTENDS Workers

=============================================================================
