------------------------------ MODULE PgState -------------------------------
(***************************************************************************)
(* ConnectionState of proxy.py: what the proxy remembers about one         *)
(* PostgreSQL session.  The two dictionaries are total functions here, an  *)
(* absent key being mapped to None.  A name stands for a prepared          *)
(* statement or a portal; Unnamed is the empty name.                       *)
(***************************************************************************)
EXTENDS Integers, FiniteSets, FiniteSetsExt

CONSTANTS
  Names,       \* names of prepared statements and of portals
  Unnamed,     \* the empty name ""
  SQL,         \* the SQL texts
  None,        \* no entry
  NameBytes,   \* encoded length of a name
  SqlBytes,    \* encoded length of a SQL text
  ParamBytes,  \* length of the parameters of one Bind
  MaxItems,    \* max_items: entries in each dictionary
  MaxBytes     \* max_state_bytes: both dictionaries together

ASSUME NamesAssumption == Unnamed \in Names /\ None \notin Names /\ None \notin SQL
ASSUME BytesAssumption == /\ NameBytes \in [Names -> Nat]
                          /\ SqlBytes \in [SQL -> Nat]
                          /\ ParamBytes \in Nat
ASSUME LimitsAssumption == MaxItems \in Nat /\ MaxBytes \in Nat

Empty == [n \in Names |-> None]

Entries(dict) == {n \in Names : dict[n] # None}

\* _portal_bytes and the summand of _state_bytes for a statement.
PortalBytes(name, stmt)  == NameBytes[name] + NameBytes[stmt] + ParamBytes
StatementBytes(name, sql) == NameBytes[name] + SqlBytes[sql]

StateBytes(stmts, ports) ==
  MapThenSumSet(LAMBDA n : StatementBytes(n, stmts[n]), Entries(stmts))
  + MapThenSumSet(LAMBDA n : PortalBytes(n, ports[n]), Entries(ports))

\* register_statement raises unless both limits leave room.  The size is
\* projected before the portals of a replaced unnamed statement are dropped.
CanRegisterStatement(stmts, ports, name, sql) ==
  /\ stmts[name] # None \/ Cardinality(Entries(stmts)) < MaxItems
  /\ StateBytes(stmts, ports)
       - (IF stmts[name] # None THEN StatementBytes(name, stmts[name]) ELSE 0)
       + StatementBytes(name, sql) <= MaxBytes

\* (slip) dict.setdefault instead of an assignment
RegisterStatement_First(stmts, name, sql) ==
  IF stmts[name] = None THEN [stmts EXCEPT ![name] = sql] ELSE stmts

RegisterStatement(stmts, name, sql) == [stmts EXCEPT ![name] = sql]

\* The portals that do not refer to the statement "name".
DropPortalsOf(ports, name) ==
  [p \in Names |-> IF ports[p] = name THEN None ELSE ports[p]]

\* Only a Parse of the unnamed statement drops portals here; one of a name
\* already in use leaves its portals, which then refer to the new text.
PortalsAfterParse(ports, name) ==
  IF name = Unnamed THEN DropPortalsOf(ports, Unnamed) ELSE ports

\* (slip) the portal to be registered is not counted
CanRegisterPortal_Uncounted(stmts, ports, name, stmt) ==
  /\ ports[name] # None \/ Cardinality(Entries(ports)) < MaxItems
  /\ StateBytes(stmts, ports) <= MaxBytes

CanRegisterPortal(stmts, ports, name, stmt) ==
  /\ ports[name] # None \/ Cardinality(Entries(ports)) < MaxItems
  /\ StateBytes(stmts, ports)
       - (IF ports[name] # None THEN PortalBytes(name, ports[name]) ELSE 0)
       + PortalBytes(name, stmt) <= MaxBytes

RegisterPortal(ports, name, stmt) == [ports EXCEPT ![name] = stmt]

CloseStatement(stmts, name) == [stmts EXCEPT ![name] = None]
CloseStatementPortals(ports, name) == DropPortalsOf(ports, name)
ClosePortal(ports, name) == [ports EXCEPT ![name] = None]

\* update_transaction_status: an idle backend has no portals left.
PortalsAtReady(ports, status) == IF status = "I" THEN Empty ELSE ports

=============================================================================
