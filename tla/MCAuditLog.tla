----------------------------- MODULE MCAuditLog -----------------------------
(***************************************************************************)
(* Instances of AuditLog for TLC.                                          *)
(***************************************************************************)
EXTENDS AuditLog

\* Two records fill a file exactly, a third of two bytes never joins one, and
\* the last is larger than a file.
MCBytes == [e \in Events |-> IF e = MaxEvents THEN 4 ELSE IF e % 3 = 0 THEN 2 ELSE 1]

=============================================================================
