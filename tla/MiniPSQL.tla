------------------------------ MODULE MiniPSQL ------------------------------
(***************************************************************************)
(* class MiniPSQL, as PSQLWriter uses it: the statements it sends on its   *)
(* one session, and when the server takes them.  A statement the server    *)
(* does not take makes exec throw.                                         *)
(***************************************************************************)
EXTENDS PgServer

(* getSchema compares the name as it was given. *)
getSchema(t) == ColumnsOf(t)

haveTable(t) == getSchema(t) # {}

(* The first branch of addColumn, with names that are not quoted.  IF NOT  *)
(* EXISTS makes it do nothing when there is such a table after all.        *)
ExecCreateTable(t, x) ==
  \/ /\ haveTable(Lower[t])
     /\ UNCHANGED pgVars
  \/ /\ ~haveTable(Lower[t])
     /\ ColumnAdded(Lower[t], Lower[x])

(* The second branch, with quoted names. *)
ExecAlterTable(t, x) ==
  /\ x \notin getSchema(t)
  /\ ColumnAdded(t, x)

(* The unquoted columns of an INSERT into an unquoted table. *)
NamesTaken(t, fields) ==
  /\ fields # {}
  /\ \A x \in fields : Lower[x] \in getSchema(Lower[t])
  /\ \A x, y \in fields : Lower[x] = Lower[y] => x = y

(* One INSERT with a parameter for each of the fields of each of n rows. *)
CanInsert(t, fields, n) ==
  /\ NamesTaken(t, fields)
  /\ n * Cardinality(fields) <= ServerParams
=============================================================================
