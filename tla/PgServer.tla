------------------------------ MODULE PgServer ------------------------------
(***************************************************************************)
(* One PostgreSQL database and the session of one MiniPSQL, as far as the  *)
(* writer can tell.  The server is outside the repository, so everything   *)
(* here is external: it is what minipsql.cc and psqlwriter.cc rely on.     *)
(*                                                                         *)
(* The session reads what is committed and what it has done itself (READ   *)
(* COMMITTED), and locks the tables it has changed.  A name in a statement *)
(* without quotes stands for its lower-case form.                          *)
(***************************************************************************)
EXTENDS Naturals, Sequences, FiniteSets

CONSTANTS
  Tables,        \* table names, as callers and the server spell them
  Columns,       \* column names, likewise
  Lower,         \* the lower-case form of each name
  Outsiders,     \* the columns other sessions may add to tables
  ServerParams   \* parameters a statement may have: 65535

ASSUME ServerAssumption ==
  /\ \A t \in Tables : Lower[t] \in Tables
  /\ \A x \in Columns : Lower[x] \in Columns
  /\ Outsiders \subseteq Columns
  /\ IsFiniteSet(Columns)
  /\ ServerParams \in Nat

VARIABLES
  server,    \* the committed database
  own        \* what the session's transaction adds to it

pgVars == <<server, own>>

(* A row is the message it was inserted for: columns the message does not
   have are NULL.  A table with no columns does not exist. *)
Row == [id : Nat, table : Tables, values : SUBSET Columns]
Db  == [schema : [Tables -> SUBSET Columns], rows : SUBSET Row]

EmptyDb == [schema |-> [t \in Tables |-> {}], rows |-> {}]

PgTypeOK == server \in Db /\ own \in Db

PgInit == server = EmptyDb /\ own = EmptyDb

----------------------------------------------------------------------------
(* What information_schema.columns says of a table. *)
ColumnsOf(t) == server.schema[t] \cup own.schema[t]

(* The session has changed t, and nobody else can until its transaction ends. *)
Locked(t) == own.schema[t] # {} \/ \E r \in own.rows : Lower[r.table] = t

ColumnAdded(t, x) ==
  /\ own' = [own EXCEPT !.schema[t] = @ \cup {x}]
  /\ UNCHANGED server

RowsAdded(rows) ==
  /\ own' = [own EXCEPT !.rows = @ \cup rows]
  /\ UNCHANGED server

Committed ==
  /\ server' = [schema |-> [t \in Tables |-> ColumnsOf(t)],
                rows |-> server.rows \cup own.rows]
  /\ own' = EmptyDb

RolledBack ==
  /\ own' = EmptyDb
  /\ UNCHANGED server

(* Another session creates a table, or adds a column to one. *)
OtherAdds(t, x) ==
  /\ x \in Outsiders
  /\ ~Locked(t)
  /\ server' = [server EXCEPT !.schema[t] = @ \cup {x}]
  /\ UNCHANGED own
=============================================================================
