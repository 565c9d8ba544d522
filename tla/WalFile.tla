------------------------------ MODULE WalFile ------------------------------
(***************************************************************************)
(* One SQLite database file in WAL mode, as far as MiniSQLite and          *)
(* SQLiteWriter can tell.  SQLite is a library outside the repository, so  *)
(* everything here is external: it is what sqlwriter.cc relies on when it  *)
(* executes "begin", "commit", a SELECT, a CREATE/ALTER TABLE or an        *)
(* INSERT on one of several connections to the same file.                  *)
(*                                                                         *)
(* A connection is in autocommit mode until it executes "begin".  "begin"  *)
(* is deferred: the first statement that reads takes a snapshot, the first *)
(* that writes takes the file's only write lock.  A snapshot that another  *)
(* connection has since written past cannot be upgraded to a write.        *)
(***************************************************************************)
EXTENDS Naturals

CONSTANTS
  Conns,     \* the connections: one per SQLiteWriter object
  Tables,    \* the tables the file may hold
  Columns,   \* the column names in use
  Keys,      \* values of a column declared UNIQUE or PRIMARY KEY
  NoKey      \* stands for a row with no such column

ASSUME NoKeyAssumption == NoKey \notin Keys

VARIABLES
  disk,      \* the committed database
  view,      \* view[c]: the database as the open transaction of c sees it
  hold,      \* hold[c]: what that transaction holds, see Holds
  intx       \* intx[c]: c has executed "begin" (autocommit is off)

walVars == <<disk, view, hold, intx>>

(***************************************************************************)
(* A row is known by the addValue call that produced it; "replace" says    *)
(* whether that call was addOrReplaceValue.  A table with no columns does  *)
(* not exist: addColumn creates a table with its first column.  "replaced" *)
(* is history: the rows that calls which asked for it have replaced.       *)
(***************************************************************************)
Row == [id : Nat, table : Tables, key : Keys \cup {NoKey}, replace : BOOLEAN]
Db  == [schema : [Tables -> SUBSET Columns], rows : SUBSET Row,
        replaced : SUBSET Row]

EmptyDb == [schema |-> [t \in Tables |-> {}], rows |-> {}, replaced |-> {}]

(***************************************************************************)
(* "none"  no snapshot and no lock                                         *)
(* "read"  a snapshot, still the latest version of the file                *)
(* "stale" a snapshot that another connection has written past             *)
(* "write" the write lock, with uncommitted changes in view[c]             *)
(***************************************************************************)
Holds == {"none", "read", "stale", "write"}

WalTypeOK ==
  /\ disk \in Db
  /\ view \in [Conns -> Db]
  /\ hold \in [Conns -> Holds]
  /\ intx \in [Conns -> BOOLEAN]

WalInit ==
  /\ disk = EmptyDb
  /\ view = [c \in Conns |-> EmptyDb]
  /\ hold = [c \in Conns |-> "none"]
  /\ intx = [c \in Conns |-> FALSE]

----------------------------------------------------------------------------
(* What a statement of c reads. *)
Sees(c) == IF hold[c] = "none" THEN disk ELSE view[c]

(* Rows of db that a UNIQUE column keeps from coexisting with r. *)
Conflicts(db, r) ==
  {s \in db.rows : s.table = r.table /\ s.key = r.key /\ r.key # NoKey}

(* The effect of INSERT OR REPLACE; of INSERT, when nothing conflicts.  No
   column refers to another table: with ON DELETE CASCADE in a column's
   metadata a replaced row would take the rows that refer to it along. *)
Inserted(db, r) ==
  [db EXCEPT !.rows = (@ \ Conflicts(db, r)) \cup {r},
             !.replaced = IF r.replace THEN @ \cup Conflicts(db, r) ELSE @]

(* db keeps r: it is there, or a call that asked to replace it did so. *)
Keeps(db, r) == r \in db.rows \cup db.replaced

(* The effect of CREATE TABLE t (x ...) and of ALTER TABLE t ADD COLUMN x. *)
ColumnAdded(db, t, x) == [db EXCEPT !.schema[t] = @ \cup {x}]

----------------------------------------------------------------------------
LockFree(c) == \A d \in Conns \ {c} : hold[d] # "write"

(* Mistake: a transaction writes on a snapshot others have written past. *)
MayWriteStale(c) == LockFree(c)

(* A write may go ahead ... *)
MayWrite(c) ==
  \/ hold[c] = "write"
  \/ hold[c] \in {"none", "read"} /\ LockFree(c)

(***************************************************************************)
(* ... or fail: at once when the transaction already reads (SQLite does    *)
(* not invoke the busy handler then), and otherwise when the busy handler  *)
(* of 60 seconds gives up on a lock another connection holds.              *)
(***************************************************************************)
MayFailBusy(c) ==
  \/ hold[c] = "stale"
  \/ hold[c] \in {"none", "read"} /\ ~LockFree(c)

(* The new committed database, seen by no snapshot taken before it. *)
Publish(c, db) ==
  /\ disk' = db
  /\ hold' = [d \in Conns |->
                IF d = c THEN "none"
                ELSE IF hold[d] = "read" /\ db # disk THEN "stale"
                ELSE hold[d]]

----------------------------------------------------------------------------
(* A statement that only reads: inside a transaction it pins a snapshot. *)
Read(c) ==
  /\ IF intx[c] /\ hold[c] = "none"
       THEN /\ hold' = [hold EXCEPT ![c] = "read"]
            /\ view' = [view EXCEPT ![c] = disk]
       ELSE UNCHANGED <<hold, view>>
  /\ UNCHANGED <<disk, intx>>

(* A statement that turns what c sees into db. *)
Write(c, db) ==
  /\ MayWrite(c)
  /\ \/ /\ intx[c]
        /\ view' = [view EXCEPT ![c] = db]
        /\ hold' = [hold EXCEPT ![c] = "write"]
        /\ UNCHANGED disk
     \/ /\ ~intx[c]
        /\ Publish(c, db)
        /\ UNCHANGED view
  /\ UNCHANGED intx

ExecBegin(c) ==
  /\ ~intx[c]
  /\ intx' = [intx EXCEPT ![c] = TRUE]
  /\ UNCHANGED <<disk, view, hold>>

(* "commit"; without a transaction SQLite refuses it. *)
ExecCommit(c) ==
  /\ intx[c]
  /\ intx' = [intx EXCEPT ![c] = FALSE]
  /\ Publish(c, IF hold[c] = "write" THEN view[c] ELSE disk)
  /\ view' = [view EXCEPT ![c] = EmptyDb]

(* The transaction is gone: rolled back, closed, or its process died. *)
Abandon(c) ==
  /\ intx' = [intx EXCEPT ![c] = FALSE]
  /\ hold' = [hold EXCEPT ![c] = "none"]
  /\ view' = [view EXCEPT ![c] = EmptyDb]
  /\ UNCHANGED disk
=============================================================================
