----------------------------- MODULE MiniSQLite -----------------------------
(***************************************************************************)
(* class MiniSQLite: one connection with its cache of prepared statements  *)
(* (d_stmts, keyed by table name) and the flag that tells its destructor   *)
(* to commit (d_intransaction).  Its operations are given as the effects   *)
(* SQLiteWriter composes: each takes the connection c it runs on.          *)
(***************************************************************************)
EXTENDS WalFile, Sequences

CONSTANTS
  Names,     \* the table names callers pass, e.g. data, main.data
  TableOf,   \* the table each name denotes
  NoName,    \* the empty table name, under which queries are prepared
  Unaddable  \* columns whose metadata (UNIQUE, PRIMARY KEY) ALTER TABLE ADD
             \* COLUMN refuses, though CREATE TABLE takes it

ASSUME NamesAssumption ==
  /\ TableOf \in [Names -> Tables]
  /\ Unaddable \subseteq Columns

VARIABLES
  stmts,         \* d_stmts
  intransaction  \* d_intransaction

miniVars == <<stmts, intransaction>>

(***************************************************************************)
(* A prepared statement: none, the statement of some query(), or the       *)
(* INSERT addValueGeneric builds for a column list and a replace flag.     *)
(***************************************************************************)
Stmt == [kind : {"none", "query", "insert"}, cols : Seq(Columns), replace : BOOLEAN]

NoStmt    == [kind |-> "none",  cols |-> <<>>, replace |-> FALSE]
QueryStmt == [kind |-> "query", cols |-> <<>>, replace |-> FALSE]
(* Mistake: "or replace" is always put into the statement. *)
InsertStmtReplacing(cols, replace) ==
  [kind |-> "insert", cols |-> cols, replace |-> TRUE]

InsertStmt(cols, replace) ==
  [kind |-> "insert", cols |-> cols, replace |-> replace]

MiniTypeOK ==
  /\ stmts \in [Conns -> [Names \cup {NoName} -> Stmt]]
  /\ intransaction \in [Conns -> BOOLEAN]

MiniInit ==
  /\ stmts = [c \in Conns |-> [nm \in Names \cup {NoName} |-> NoStmt]]
  /\ intransaction = [c \in Conns |-> FALSE]

isPrepared(c, nm) == stmts[c][nm].kind # "none"

----------------------------------------------------------------------------
(* getSchema: the columns of the table a name denotes; it reads the file. *)
Schema(c, nm) == Sees(c).schema[TableOf[nm]]

haveTable(c, nm) == Schema(c, nm) # {}

(* The first branch of addColumn; IF NOT EXISTS makes it succeed, and do   *)
(* nothing, when another connection has created the table meanwhile.       *)
ExecCreateTable(c, nm, x) ==
  \/ /\ haveTable(c, nm)
     /\ UNCHANGED walVars
  \/ /\ ~haveTable(c, nm)
     /\ Write(c, ColumnAdded(Sees(c), TableOf[nm], x))

(* The second branch of addColumn, and when SQLite refuses it. *)
CanAlterTable(c, nm, x) == x \notin Schema(c, nm) /\ x \notin Unaddable

ExecAlterTable(c, nm, x) ==
  /\ CanAlterTable(c, nm, x)
  /\ Write(c, ColumnAdded(Sees(c), TableOf[nm], x))

----------------------------------------------------------------------------
(* An INSERT compiles when it names a column and the table has them all. *)
Compiles(c, nm, cols) ==
  /\ cols # <<>>
  /\ \A i \in 1..Len(cols) : cols[i] \in Schema(c, nm)

(* prepare finalizes the old statement first, so a failure leaves none. *)
Prepare(c, nm, stmt) == stmts' = [stmts EXCEPT ![c][nm] = stmt]

(* Mistake: the destructor is not told that it has to commit. *)
BeginUnflagged(c) == ExecBegin(c) /\ UNCHANGED intransaction

(* begin() of the constructor: the flag is set before the statement runs. *)
Begin(c) ==
  /\ intransaction' = [intransaction EXCEPT ![c] = TRUE]
  /\ ExecBegin(c)

(* Every statement is finalized and the connection closed. *)
Forget(c) ==
  /\ stmts' = [stmts EXCEPT ![c] = [nm \in Names \cup {NoName} |-> NoStmt]]
  /\ intransaction' = [intransaction EXCEPT ![c] = FALSE]
=============================================================================
