---------------------------- MODULE SQLiteWriter ----------------------------
(***************************************************************************)
(* class SQLiteWriter: caller threads that add rows and run queries, the   *)
(* commit thread that cycles the transaction, and the destructor, all on   *)
(* one MiniSQLite connection guarded by d_mutex.  Several writers, each in *)
(* a process of its own, may share the database file of module WalFile.    *)
(*                                                                         *)
(* A caller's call takes one step per SQL statement it executes, so other  *)
(* connections, the clock and a crash can come in between.                 *)
(***************************************************************************)
EXTENDS MiniSQLite, Integers

CONSTANTS
  Callers,      \* caller threads
  WriterOf,     \* the writer each caller uses
  Flag,         \* d_flag of each writer
  CyclePeriod,  \* commitThread cycles every CyclePeriod ticks: 20 in the code
  OnConflict,   \* what a UNIQUE column's metadata says: ABORT, the default,
                \* or ROLLBACK
  Sigs,         \* the column lists callers pass
  MaxCalls,     \* bound: how many calls are made in all
  MaxOpens,     \* bound: how many times a writer is constructed
  CommitThread, \* mutex owner: the commit thread
  Free          \* mutex owner: nobody

ASSUME WriterAssumption ==
  /\ WriterOf \in [Callers -> Conns]
  /\ Flag \in [Conns -> {"NoFlag", "ReadOnly", "NoTransactions"}]
  /\ CyclePeriod \in Nat \ {0}
  /\ OnConflict \in {"ABORT", "ROLLBACK"}
  /\ Sigs \subseteq Seq(Columns)
  /\ MaxCalls \in Nat
  /\ MaxOpens \in Nat
  /\ CommitThread \notin Callers
  /\ Free \notin Callers \cup {CommitThread}

VARIABLES
  phase,        \* of each writer object: off, open, joining, destroying
  opens,        \* how often it has been constructed
  mutex,        \* d_mutex
  pleasequit,   \* d_pleasequit
  tpc,          \* where commitThread is
  n,            \* its tick counter, modulo CyclePeriod
  columns,      \* d_columns: what the writer believes a table's columns are
  lastsig,      \* d_lastsig
  lastreplace,  \* d_lastreplace
  pc,           \* where each caller is
  arg,          \* the arguments of its call
  todo,         \* the columns addValueGeneric has yet to look at
  result,       \* how its last call ended
  calls,        \* how many calls have been made
  owed          \* history: rows each writer acknowledged, but for those that
                \* died with its process

threadVars == <<pleasequit, tpc, n>>
lifeVars   == <<phase, opens>>
cacheVars  == <<columns, lastsig, lastreplace>>
callVars   == <<pc, arg, todo, result, calls>>
vars == <<walVars, miniVars, threadVars, lifeVars, cacheVars, callVars,
          mutex, owed>>

Args == [name : Names, sig : Sigs, key : Keys \cup {NoKey}, replace : BOOLEAN,
         id : Nat]
NoArg == [name |-> NoName, sig |-> <<>>, key |-> NoKey, replace |-> FALSE,
          id |-> 0]

(* Where a caller holds the mutex and works on the connection. *)
Inside == {"columns", "haveTable", "create", "alter", "exec", "query"}
CallerPcs == {"idle", "lock", "querylock"} \cup Inside
ThreadPcs == {"none", "check", "sleep", "lock", "commit", "begin", "exited"}
(* How a call ended: normally, or by an exception, about a column or not. *)
Results == {"none", "ok", "schema", "error"}

LifeTypeOK ==
  /\ phase \in [Conns -> {"off", "open", "joining", "destroying"}]
  /\ opens \in [Conns -> 0..MaxOpens]

ThreadTypeOK ==
  /\ mutex \in [Conns -> Callers \cup {CommitThread, Free}]
  /\ pleasequit \in [Conns -> BOOLEAN]
  /\ tpc \in [Conns -> ThreadPcs]
  /\ n \in [Conns -> 0..(CyclePeriod - 1)]

CacheTypeOK ==
  /\ columns \in [Conns -> [Names -> SUBSET Columns]]
  /\ lastsig \in [Conns -> [Names -> Seq(Columns)]]
  /\ lastreplace \in [Conns -> [Names -> BOOLEAN]]

CallTypeOK ==
  /\ pc \in [Callers -> CallerPcs]
  /\ arg \in [Callers -> Args \cup {NoArg}]
  /\ \A c \in Callers : pc[c] \notin {"idle", "querylock", "query"} => arg[c] \in Args
  /\ todo \in [Callers -> Seq(Columns)]
  /\ \A c \in Callers : pc[c] \in {"haveTable", "create", "alter"} => todo[c] # <<>>
  /\ result \in [Callers -> Results]
  /\ calls \in 0..MaxCalls

ThreadOfBatcher ==
  \A w \in Conns : tpc[w] # "none" <=> phase[w] # "off" /\ Flag[w] = "NoFlag"

(* Every variable has its type, a call that is past its lock has arguments, one
   that is adding a column has a column to add, and there is a commit thread,
   or what is left of one to join, just when a writer with the default flag
   exists (sqlwriter.hh:75-77). *)
TypeOK ==
  /\ WalTypeOK
  /\ MiniTypeOK
  /\ LifeTypeOK
  /\ ThreadTypeOK
  /\ CacheTypeOK
  /\ CallTypeOK
  /\ ThreadOfBatcher
  /\ owed \in [Conns -> SUBSET Row]

NoColumns == [nm \in Names |-> {}]

Init ==
  /\ WalInit
  /\ MiniInit
  /\ phase = [w \in Conns |-> "off"]
  /\ opens = [w \in Conns |-> 0]
  /\ mutex = [w \in Conns |-> Free]
  /\ pleasequit = [w \in Conns |-> FALSE]
  /\ tpc = [w \in Conns |-> "none"]
  /\ n = [w \in Conns |-> 0]
  /\ columns = [w \in Conns |-> NoColumns]
  /\ lastsig = [w \in Conns |-> [nm \in Names |-> <<>>]]
  /\ lastreplace = [w \in Conns |-> [nm \in Names |-> FALSE]]
  /\ pc = [c \in Callers |-> "idle"]
  /\ arg = [c \in Callers |-> NoArg]
  /\ todo = [c \in Callers |-> <<>>]
  /\ result = [c \in Callers |-> "none"]
  /\ calls = 0
  /\ owed = [w \in Conns |-> {}]

----------------------------------------------------------------------------
(* Mistake: the constructor only exempts read-only writers. *)
TransactionalUnlessReader(w) == Flag[w] # "ReadOnly"

(* Writers that batch, and therefore have a commit thread. *)
Transactional(w) == Flag[w] = "NoFlag"

(***************************************************************************)
(* Construction.  Opening a file read-only does not create it.  Only a     *)
(* writer with the default flag opens a transaction and starts the commit  *)
(* thread.                                                                 *)
(***************************************************************************)
Open(w) ==
  /\ phase[w] = "off"
  /\ opens[w] < MaxOpens
  /\ \E v \in Conns : Flag[v] # "ReadOnly" /\ (v = w \/ opens[v] > 0)
  /\ phase' = [phase EXCEPT ![w] = "open"]
  /\ opens' = [opens EXCEPT ![w] = @ + 1]
  /\ IF Transactional(w)
       THEN /\ Begin(w)
            /\ tpc' = [tpc EXCEPT ![w] = "check"]
       ELSE UNCHANGED <<walVars, intransaction, tpc>>
  /\ UNCHANGED <<stmts, pleasequit, n, cacheVars, callVars, mutex, owed>>

(***************************************************************************)
(* Everything the process of w held in memory is gone, and SQLite rolls    *)
(* its transaction back.                                                   *)
(***************************************************************************)
ProcessGone(w) ==
  /\ phase' = [phase EXCEPT ![w] = "off"]
  /\ Forget(w)
  /\ mutex' = [mutex EXCEPT ![w] = Free]
  /\ pleasequit' = [pleasequit EXCEPT ![w] = FALSE]
  /\ tpc' = [tpc EXCEPT ![w] = "none"]
  /\ n' = [n EXCEPT ![w] = 0]
  /\ columns' = [columns EXCEPT ![w] = NoColumns]
  /\ lastsig' = [lastsig EXCEPT ![w] = [nm \in Names |-> <<>>]]
  /\ lastreplace' = [lastreplace EXCEPT ![w] = [nm \in Names |-> FALSE]]
  /\ pc' = [c \in Callers |-> IF WriterOf[c] = w THEN "idle" ELSE pc[c]]
  /\ arg' = [c \in Callers |-> IF WriterOf[c] = w THEN NoArg ELSE arg[c]]
  /\ todo' = [c \in Callers |-> IF WriterOf[c] = w THEN <<>> ELSE todo[c]]
  /\ result' = [c \in Callers |-> IF WriterOf[c] = w THEN "none" ELSE result[c]]
  /\ UNCHANGED <<opens, calls>>

(***************************************************************************)
(* The process dies: killed, or by std::terminate when an exception leaves *)
(* a thread or a destructor.  What was not committed is lost.              *)
(***************************************************************************)
Terminate(w) ==
  /\ ProcessGone(w)
  /\ Abandon(w)
  /\ owed' = [owed EXCEPT ![w] = {r \in @ : Keeps(disk, r)}]

Crash(w) == phase[w] # "off" /\ Terminate(w)

----------------------------------------------------------------------------
(* Mistake: the thread never looks at d_pleasequit. *)
CheckQuitNever(w) ==
  /\ tpc[w] = "check"
  /\ tpc' = [tpc EXCEPT ![w] = "sleep"]
  /\ UNCHANGED <<walVars, miniVars, pleasequit, n, lifeVars, cacheVars,
                 callVars, mutex, owed>>

(* commitThread.  "while(!d_pleasequit)", then usleep(50000). *)
CheckQuit(w) ==
  /\ tpc[w] = "check"
  /\ tpc' = [tpc EXCEPT ![w] = IF pleasequit[w] THEN "exited" ELSE "sleep"]
  /\ UNCHANGED <<walVars, miniVars, pleasequit, n, lifeVars, cacheVars,
                 callVars, mutex, owed>>

Tick(w) == n' = [n EXCEPT ![w] = (@ + 1) % CyclePeriod]

(* Mistake: n is only stepped by a cycle, so there is but one. *)
WakeTickless(w) ==
  /\ tpc[w] = "sleep"
  /\ tpc' = [tpc EXCEPT ![w] = IF n[w] = 0 THEN "lock" ELSE "check"]
  /\ UNCHANGED <<walVars, miniVars, pleasequit, n, lifeVars, cacheVars,
                 callVars, mutex, owed>>

(* Awake: every CyclePeriod-th tick, the first included, is a cycle. *)
Wake(w) ==
  /\ tpc[w] = "sleep"
  /\ \/ /\ n[w] = 0
        /\ tpc' = [tpc EXCEPT ![w] = "lock"]
        /\ UNCHANGED n
     \/ /\ n[w] # 0
        /\ tpc' = [tpc EXCEPT ![w] = "check"]
        /\ Tick(w)
  /\ UNCHANGED <<walVars, miniVars, pleasequit, lifeVars, cacheVars, callVars,
                 mutex, owed>>

LockCycle(w) ==
  /\ tpc[w] = "lock"
  /\ mutex[w] = Free
  /\ mutex' = [mutex EXCEPT ![w] = CommitThread]
  /\ tpc' = [tpc EXCEPT ![w] = "commit"]
  /\ UNCHANGED <<walVars, miniVars, pleasequit, n, lifeVars, cacheVars,
                 callVars, owed>>

(***************************************************************************)
(* The first half of cycle().  The commit is refused when there is no      *)
(* transaction, the disk is full or a deferred constraint fails, and       *)
(* nothing catches what exec throws here.                                  *)
(***************************************************************************)
CycleCommit(w) ==
  /\ tpc[w] = "commit"
  /\ \/ /\ ExecCommit(w)
        /\ tpc' = [tpc EXCEPT ![w] = "begin"]
        /\ UNCHANGED <<miniVars, pleasequit, n, lifeVars, cacheVars, callVars,
                       mutex, owed>>
     \/ Terminate(w)

(* Mistake: the cycle commits and does not begin again. *)
CycleBeginMissing(w) ==
  /\ tpc[w] = "begin"
  /\ mutex' = [mutex EXCEPT ![w] = Free]
  /\ tpc' = [tpc EXCEPT ![w] = "check"]
  /\ Tick(w)
  /\ UNCHANGED <<walVars, miniVars, pleasequit, lifeVars, cacheVars, callVars,
                 owed>>

(* The second half, after which the lock guard goes and n is stepped. *)
CycleBegin(w) ==
  /\ tpc[w] = "begin"
  /\ ExecBegin(w)
  /\ mutex' = [mutex EXCEPT ![w] = Free]
  /\ tpc' = [tpc EXCEPT ![w] = "check"]
  /\ Tick(w)
  /\ UNCHANGED <<miniVars, pleasequit, lifeVars, cacheVars, callVars, owed>>

CommitThreadStep(w) ==
  \/ CheckQuit(w)
  \/ Wake(w)
  \/ LockCycle(w)
  \/ CycleCommit(w)
  \/ CycleBegin(w)

----------------------------------------------------------------------------
(***************************************************************************)
(* Destruction, which C++ allows when no call is in progress: ask the      *)
(* thread to quit, join it, and destroy d_db, which commits when           *)
(* d_intransaction says so.                                                *)
(***************************************************************************)
Destroy(w) ==
  /\ phase[w] = "open"
  /\ \A c \in Callers : WriterOf[c] = w => pc[c] = "idle"
  /\ pleasequit' = [pleasequit EXCEPT ![w] = TRUE]
  /\ phase' = [phase EXCEPT ![w] = "joining"]
  /\ UNCHANGED <<walVars, miniVars, tpc, n, opens, cacheVars, callVars,
                 mutex, owed>>

(* Mistake: the destructor does not wait for the thread. *)
JoinEarly(w) ==
  /\ phase[w] = "joining"
  /\ phase' = [phase EXCEPT ![w] = "destroying"]
  /\ UNCHANGED <<walVars, miniVars, threadVars, opens, cacheVars,
                 callVars, mutex, owed>>

Join(w) ==
  /\ phase[w] = "joining"
  /\ tpc[w] \in {"none", "exited"}
  /\ phase' = [phase EXCEPT ![w] = "destroying"]
  /\ UNCHANGED <<walVars, miniVars, threadVars, opens, cacheVars,
                 callVars, mutex, owed>>

CloseDb(w) ==
  /\ phase[w] = "destroying"
  /\ \/ /\ intransaction[w]
        /\ ExecCommit(w)
        /\ ProcessGone(w)
        /\ UNCHANGED owed
     \/ /\ intransaction[w]
        /\ Terminate(w)
     \/ /\ ~intransaction[w]
        /\ Abandon(w)
        /\ ProcessGone(w)
        /\ UNCHANGED owed

DestructorStep(w) == Join(w) \/ CloseDb(w)

----------------------------------------------------------------------------
(* Mistake: only a call that ends normally lets go of the mutex. *)
ReturnLocked(c, how) ==
  /\ pc' = [pc EXCEPT ![c] = "idle"]
  /\ arg' = [arg EXCEPT ![c] = NoArg]
  /\ todo' = [todo EXCEPT ![c] = <<>>]
  /\ result' = [result EXCEPT ![c] = how]
  /\ mutex' = [mutex EXCEPT ![WriterOf[c]] = IF how = "ok" THEN Free ELSE @]
  /\ UNCHANGED calls

(* A call ends, normally or by throwing: the lock guard lets go. *)
Return(c, how) ==
  /\ pc' = [pc EXCEPT ![c] = "idle"]
  /\ arg' = [arg EXCEPT ![c] = NoArg]
  /\ todo' = [todo EXCEPT ![c] = <<>>]
  /\ result' = [result EXCEPT ![c] = how]
  /\ mutex' = [mutex EXCEPT ![WriterOf[c]] = Free]
  /\ UNCHANGED calls

Goto(c, where) ==
  /\ pc' = [pc EXCEPT ![c] = where]
  /\ UNCHANGED <<arg, result, calls>>

(***************************************************************************)
(* A caller calls addValue or addOrReplaceValue.  A read-only writer       *)
(* refuses before it takes the lock.                                       *)
(***************************************************************************)
CallAddValue(c) ==
  /\ phase[WriterOf[c]] = "open"
  /\ pc[c] = "idle"
  /\ calls < MaxCalls
  /\ calls' = calls + 1
  /\ \/ /\ Flag[WriterOf[c]] = "ReadOnly"
        /\ result' = [result EXCEPT ![c] = "error"]
        /\ UNCHANGED <<pc, arg>>
     \/ /\ Flag[WriterOf[c]] # "ReadOnly"
        /\ \E nm \in Names, s \in Sigs, k \in Keys \cup {NoKey}, r \in BOOLEAN :
             arg' = [arg EXCEPT ![c] = [name |-> nm, sig |-> s, key |-> k,
                                        replace |-> r, id |-> calls + 1]]
        /\ pc' = [pc EXCEPT ![c] = "lock"]
        /\ result' = [result EXCEPT ![c] = "none"]
  /\ UNCHANGED <<walVars, miniVars, threadVars, lifeVars, cacheVars, todo,
                 mutex, owed>>

(* Mistake: the replace flag is not compared. *)
ReusableAnyFlag(c) ==
  LET w == WriterOf[c]  nm == arg[c].name IN
  isPrepared(w, nm) /\ lastsig[w][nm] = arg[c].sig

(* The statement kept for this name is the one these values need. *)
Reusable(c) ==
  LET w == WriterOf[c]  nm == arg[c].name IN
  /\ isPrepared(w, nm)
  /\ lastreplace[w][nm] = arg[c].replace
  /\ lastsig[w][nm] = arg[c].sig

LockAddValue(c) ==
  /\ pc[c] = "lock"
  /\ mutex[WriterOf[c]] = Free
  /\ mutex' = [mutex EXCEPT ![WriterOf[c]] = c]
  /\ IF Reusable(c)
       THEN Goto(c, "exec") /\ UNCHANGED todo
       ELSE Goto(c, "columns") /\ todo' = [todo EXCEPT ![c] = arg[c].sig]
  /\ UNCHANGED <<walVars, miniVars, threadVars, lifeVars, cacheVars, owed>>

----------------------------------------------------------------------------
(* Mistake: an empty cache is not filled from the file. *)
KnownUnfilled(c) == columns[WriterOf[c]][arg[c].name]

(* The columns of the call's table as the cache has them once it is filled. *)
Known(c) ==
  LET w == WriterOf[c]  nm == arg[c].name IN
  IF columns[w][nm] = {} THEN Schema(w, nm) ELSE columns[w][nm]

(***************************************************************************)
(* haveColumn for the next column, which fills an empty cache from the     *)
(* file.  A column not there goes through addColumn: haveTable, then       *)
(* CREATE TABLE or ALTER TABLE, then the cache learns of it.               *)
(***************************************************************************)
HaveColumn(c) ==
  LET w == WriterOf[c]  nm == arg[c].name IN
  /\ pc[c] = "columns"
  /\ todo[c] # <<>>
  /\ IF columns[w][nm] = {} THEN Read(w) ELSE UNCHANGED walVars
  /\ columns' = [columns EXCEPT ![w][nm] = Known(c)]
  /\ \/ /\ Head(todo[c]) \in Known(c)
        /\ todo' = [todo EXCEPT ![c] = Tail(@)]
        /\ UNCHANGED <<pc, arg, result, calls>>
     \/ /\ Head(todo[c]) \notin Known(c)
        /\ Goto(c, "haveTable")
        /\ UNCHANGED todo
  /\ UNCHANGED <<miniVars, threadVars, lifeVars, lastsig, lastreplace, mutex,
                 owed>>

HaveTable(c) ==
  LET w == WriterOf[c] IN
  /\ pc[c] = "haveTable"
  /\ Read(w)
  /\ Goto(c, IF haveTable(w, arg[c].name) THEN "alter" ELSE "create")
  /\ UNCHANGED <<miniVars, threadVars, lifeVars, cacheVars, todo, mutex, owed>>

(* Mistake: the cache learns of all the call's columns at the first one. *)
ColumnMadeAll(c) ==
  /\ columns' = [columns EXCEPT ![WriterOf[c]][arg[c].name] =
                                  @ \cup {todo[c][i] : i \in 1..Len(todo[c])}]
  /\ todo' = [todo EXCEPT ![c] = Tail(@)]
  /\ Goto(c, "columns")
  /\ UNCHANGED <<lastsig, lastreplace, mutex>>

(* addColumn has returned: the cache is extended, and the loop goes on. *)
ColumnMade(c) ==
  /\ columns' = [columns EXCEPT ![WriterOf[c]][arg[c].name] =
                                  @ \cup {Head(todo[c])}]
  /\ todo' = [todo EXCEPT ![c] = Tail(@)]
  /\ Goto(c, "columns")
  /\ UNCHANGED <<lastsig, lastreplace, mutex>>

(* Mistake: the cache learns of a column before addColumn is called. *)
ColumnRefusedCached(c, why) ==
  /\ columns' = [columns EXCEPT ![WriterOf[c]][arg[c].name] =
                                  @ \cup {Head(todo[c])}]
  /\ Return(c, why)
  /\ UNCHANGED <<walVars, lastsig, lastreplace>>

(* addColumn, or the getSchema of haveColumn, has thrown. *)
ColumnRefused(c, why) ==
  /\ Return(c, why)
  /\ UNCHANGED <<walVars, cacheVars>>

(***************************************************************************)
(* exec throws for a reason of its own, such as an unreadable schema or    *)
(* metadata that does not parse, wherever a call fills the cache or adds a *)
(* column.                                                                 *)
(***************************************************************************)
ExecThrows(c) ==
  /\ \/ /\ pc[c] = "columns"
        /\ todo[c] # <<>>
        /\ columns[WriterOf[c]][arg[c].name] = {}
     \/ pc[c] \in {"haveTable", "create", "alter"}
  /\ ColumnRefused(c, "error")
  /\ UNCHANGED <<miniVars, threadVars, lifeVars, owed>>

CreateTable(c) ==
  LET w == WriterOf[c]  nm == arg[c].name IN
  /\ pc[c] = "create"
  /\ \/ /\ ExecCreateTable(w, nm, Head(todo[c]))
        /\ ColumnMade(c)
     \/ /\ ~haveTable(w, nm) /\ MayFailBusy(w)
        /\ ColumnRefused(c, "error")
  /\ UNCHANGED <<miniVars, threadVars, lifeVars, owed>>

AlterTable(c) ==
  LET w == WriterOf[c]  nm == arg[c].name  x == Head(todo[c]) IN
  /\ pc[c] = "alter"
  /\ \/ /\ ExecAlterTable(w, nm, x)
        /\ ColumnMade(c)
     \/ /\ CanAlterTable(w, nm, x) /\ MayFailBusy(w)
        /\ ColumnRefused(c, "error")
     \/ /\ ~CanAlterTable(w, nm, x)
        /\ ColumnRefused(c, "schema")
  /\ UNCHANGED <<miniVars, threadVars, lifeVars, owed>>

(***************************************************************************)
(* All columns are there, as far as the cache knows: prepare the INSERT,   *)
(* and remember what it was made for.  When it does not compile the old    *)
(* statement is gone all the same.                                         *)
(***************************************************************************)
PrepareInsert(c) ==
  LET w == WriterOf[c]  nm == arg[c].name IN
  /\ pc[c] = "columns"
  /\ todo[c] = <<>>
  /\ \/ /\ Compiles(w, nm, arg[c].sig)
        /\ Prepare(w, nm, InsertStmt(arg[c].sig, arg[c].replace))
        /\ lastsig' = [lastsig EXCEPT ![w][nm] = arg[c].sig]
        /\ lastreplace' = [lastreplace EXCEPT ![w][nm] = arg[c].replace]
        /\ Goto(c, "exec")
        /\ UNCHANGED <<todo, mutex>>
     \/ /\ ~Compiles(w, nm, arg[c].sig)
        /\ Prepare(w, nm, NoStmt)
        /\ Return(c, "schema")
        /\ UNCHANGED <<lastsig, lastreplace>>
  /\ UNCHANGED <<walVars, intransaction, threadVars, lifeVars, columns, owed>>

----------------------------------------------------------------------------
(* The row a call adds. *)
RowOf(c) ==
  [id |-> arg[c].id, table |-> TableOf[arg[c].name], key |-> arg[c].key,
   replace |-> arg[c].replace]

(* The statement bindPrep and execPrep work on. *)
StmtOf(c) == stmts[WriterOf[c]][arg[c].name]

(***************************************************************************)
(* bindPrep and execPrep: a value cannot be bound; or the row is stored;   *)
(* or the file is busy; or the table is not as the statement expects; or a *)
(* column refuses its value, being NOT NULL, CHECKed or STRICT; or a       *)
(* UNIQUE column refuses it, which undoes the statement or, if its         *)
(* metadata says so, the whole transaction; or the statement kept under    *)
(* this name was a query.                                                  *)
(***************************************************************************)
BindRefused(c) ==
  /\ Return(c, "error")
  /\ UNCHANGED <<walVars, owed>>

ExecInsert(c) ==
  LET w == WriterOf[c] IN
  /\ Compiles(w, arg[c].name, StmtOf(c).cols)
  /\ StmtOf(c).replace \/ Conflicts(Sees(w), RowOf(c)) = {}
  /\ Write(w, Inserted(Sees(w), RowOf(c)))
  /\ owed' = [owed EXCEPT ![w] = @ \cup {RowOf(c)}]
  /\ Return(c, "ok")

(* Mistake: execPrep takes SQLITE_BUSY for the end of the statement. *)
ExecBusyIgnored(c) ==
  LET w == WriterOf[c] IN
  /\ MayFailBusy(w)
  /\ owed' = [owed EXCEPT ![w] = @ \cup {RowOf(c)}]
  /\ Return(c, "ok")
  /\ UNCHANGED walVars

(* Mistake: a busy statement is tried again and stores its row, and the call
   reports the first outcome. *)
ExecBusyStored(c) ==
  LET w == WriterOf[c] IN
  /\ Compiles(w, arg[c].name, StmtOf(c).cols)
  /\ StmtOf(c).replace \/ Conflicts(Sees(w), RowOf(c)) = {}
  /\ Write(w, Inserted(Sees(w), RowOf(c)))
  /\ Return(c, "error")
  /\ UNCHANGED owed

ExecBusy(c) ==
  /\ MayFailBusy(WriterOf[c])
  /\ Return(c, "error")
  /\ UNCHANGED <<walVars, owed>>

ExecMissing(c) ==
  LET w == WriterOf[c] IN
  /\ ~Compiles(w, arg[c].name, StmtOf(c).cols)
  /\ Write(w, Sees(w))
  /\ Return(c, "schema")
  /\ UNCHANGED owed

ExecRefused(c) ==
  LET w == WriterOf[c] IN
  /\ Compiles(w, arg[c].name, StmtOf(c).cols)
  /\ Write(w, Sees(w))
  /\ Return(c, "error")
  /\ UNCHANGED owed

(* Mistake: execPrep takes a row that was refused for one that was stored. *)
ExecConflictStored(c) ==
  LET w == WriterOf[c] IN
  /\ ~StmtOf(c).replace
  /\ Conflicts(Sees(w), RowOf(c)) # {}
  /\ Write(w, Sees(w))
  /\ Return(c, "ok")
  /\ owed' = [owed EXCEPT ![w] = @ \cup {RowOf(c)}]

ExecConflict(c) ==
  LET w == WriterOf[c] IN
  /\ Compiles(w, arg[c].name, StmtOf(c).cols)
  /\ ~StmtOf(c).replace
  /\ Conflicts(Sees(w), RowOf(c)) # {}
  /\ \/ OnConflict = "ABORT" /\ Write(w, Sees(w))
     \/ OnConflict = "ROLLBACK" /\ MayWrite(w) /\ Abandon(w)
  /\ Return(c, "error")
  /\ UNCHANGED owed

ExecForeign(c) ==
  LET w == WriterOf[c] IN
  /\ Read(w)
  /\ \/ /\ Return(c, "ok")
        /\ owed' = [owed EXCEPT ![w] = @ \cup {RowOf(c)}]
     \/ /\ Return(c, "error")
        /\ UNCHANGED owed

ExecPrep(c) ==
  /\ pc[c] = "exec"
  /\ \/ BindRefused(c)
     \/ /\ StmtOf(c).kind = "insert"
        /\ \/ ExecInsert(c) \/ ExecBusy(c) \/ ExecMissing(c)
           \/ ExecRefused(c) \/ ExecConflict(c)
     \/ /\ StmtOf(c).kind # "insert"
        /\ ExecForeign(c)
  /\ UNCHANGED <<miniVars, threadVars, lifeVars, cacheVars>>

----------------------------------------------------------------------------
(***************************************************************************)
(* queryGen with a SELECT.  Asking for a timeout is refused unless the     *)
(* writer is read-only.  The query is prepared under the empty name, which *)
(* fails when it does not compile; its parameters are bound, which may be  *)
(* refused; and it is executed, which fails when the timeout strikes or    *)
(* SQLite reports an error on the way.                                     *)
(***************************************************************************)
CallQuery(c) ==
  /\ phase[WriterOf[c]] = "open"
  /\ pc[c] = "idle"
  /\ calls < MaxCalls
  /\ calls' = calls + 1
  /\ \/ /\ Flag[WriterOf[c]] # "ReadOnly"
        /\ result' = [result EXCEPT ![c] = "error"]
        /\ UNCHANGED pc
     \/ /\ pc' = [pc EXCEPT ![c] = "querylock"]
        /\ result' = [result EXCEPT ![c] = "none"]
  /\ UNCHANGED <<walVars, miniVars, threadVars, lifeVars, cacheVars, arg, todo,
                 mutex, owed>>

(* Mistake: queryGen takes no lock. *)
LockQueryFree(c) ==
  /\ pc[c] = "querylock"
  /\ Goto(c, "query")
  /\ UNCHANGED <<walVars, miniVars, threadVars, lifeVars, cacheVars, todo,
                 mutex, owed>>

LockQuery(c) ==
  /\ pc[c] = "querylock"
  /\ mutex[WriterOf[c]] = Free
  /\ mutex' = [mutex EXCEPT ![WriterOf[c]] = c]
  /\ Goto(c, "query")
  /\ UNCHANGED <<walVars, miniVars, threadVars, lifeVars, cacheVars, todo, owed>>

ExecQuery(c) ==
  LET w == WriterOf[c] IN
  /\ pc[c] = "query"
  /\ \/ /\ Prepare(w, NoName, NoStmt)
        /\ Return(c, "error")
        /\ UNCHANGED walVars
     \/ /\ Prepare(w, NoName, QueryStmt)
        /\ \/ Return(c, "error") /\ UNCHANGED walVars
           \/ (Return(c, "ok") \/ Return(c, "error")) /\ Read(w)
  /\ UNCHANGED <<intransaction, threadVars, lifeVars, cacheVars, owed>>

CallerStep(c) ==
  \/ HaveColumn(c) \/ HaveTable(c) \/ ExecThrows(c)
  \/ CreateTable(c) \/ AlterTable(c)
  \/ PrepareInsert(c) \/ ExecPrep(c) \/ ExecQuery(c)

CallerLock(c) == LockAddValue(c) \/ LockQuery(c)

----------------------------------------------------------------------------
Next ==
  \/ \E w \in Conns : \/ Open(w) \/ Crash(w) \/ Destroy(w)
                      \/ CommitThreadStep(w) \/ DestructorStep(w)
  \/ \E c \in Callers : \/ CallAddValue(c) \/ CallQuery(c)
                        \/ CallerLock(c) \/ CallerStep(c)

Spec == Init /\ [][Next]_vars

(***************************************************************************)
(* Threads keep running, and one that waits for the mutex gets it in the   *)
(* end: the commit thread sleeps 50 ms between two uses of it.  Nothing    *)
(* makes anybody call, crash, construct or destroy.                        *)
(***************************************************************************)
Fairness ==
  /\ \A w \in Conns : WF_vars(CommitThreadStep(w)) /\ WF_vars(DestructorStep(w))
  /\ \A c \in Callers : WF_vars(CallerStep(c)) /\ SF_vars(CallerLock(c))

FairSpec == Spec /\ Fairness

----------------------------------------------------------------------------
(***************************************************************************)
(* Safety.                                                                 *)
(***************************************************************************)

InsideThread(w) == tpc[w] \in {"commit", "begin"}

(* One user at a time: while a caller, the commit thread or the destructor
   works on the connection and the caches nobody else does, though the
   destructor takes no lock and relies on the join (sqlwriter.hh:99-104). *)
ExclusiveUse ==
  \A w \in Conns :
    /\ \A c \in Callers : WriterOf[c] = w /\ pc[c] \in Inside =>
         /\ phase[w] = "open"
         /\ ~InsideThread(w)
         /\ \A d \in Callers : WriterOf[d] = w /\ pc[d] \in Inside => d = c
    /\ phase[w] = "destroying" => ~InsideThread(w)

(* No path through a call or a cycle, a throw included, keeps the mutex: who
   has it is at work on the connection (sqlwriter.cc:282, 333, 429). *)
MutexReleased ==
  \A w \in Conns : mutex[w] # Free =>
    \/ mutex[w] = CommitThread /\ InsideThread(w)
    \/ \E c \in Callers : mutex[w] = c /\ WriterOf[c] = w /\ pc[c] \in Inside

(* The statement about to be bound and stepped is the INSERT made for just
   these columns, in this order, and with this replace flag, whatever calls,
   failures and queries came before (sqlwriter.cc:334-390). *)
StatementFitsCall ==
  \A c \in Callers :
    pc[c] = "exec" => StmtOf(c) = InsertStmt(arg[c].sig, arg[c].replace)

(* A row whose addValue returned normally, and that did not die with its
   process, is there: in the open transaction, in the file once that is
   committed, in the file after a clean destruction and in later lives. *)
AcknowledgedRowsKept ==
  \A w \in Conns : \A r \in owed[w] : Keeps(Sees(w), r)

(* A call that throws has stored nothing, not in the open transaction either,
   where a later commit would publish it: every row a writer sees, and every
   row that was replaced, is one that its own calls or earlier calls of others
   acknowledged (sqlwriter.cc:218-223). *)
StoredRowsAcknowledged ==
  \A w \in Conns : \A r \in Sees(w).rows \cup Sees(w).replaced :
    \E v \in Conns : r \in owed[v]

(* The commit thread and the destructor find the transaction they are about
   to commit, and none when they begin the next: an exception would end the
   process (sqlwriter.cc:276-288, 445-449). *)
CommitHasTransaction ==
  \A w \in Conns :
    /\ tpc[w] = "commit" => intx[w]
    /\ tpc[w] = "begin" => ~intx[w]
    /\ phase[w] = "destroying" => intx[w] = intransaction[w]

(* What a writer believes about a table's columns is true of the table: every
   column it would not create is one it can insert into. *)
ColumnCacheSound ==
  \A w \in Conns, nm \in Names : columns[w][nm] \subseteq Schema(w, nm)

(* The same of the writers that batch, whoever else makes tables and columns
   in the same file: a transaction keeps others out between the two statements
   of addColumn, which a writer without transactions cannot rely on. *)
BatchersCacheSound ==
  \A w \in Conns, nm \in Names :
    Flag[w] # "NoTransactions" => columns[w][nm] \subseteq Schema(w, nm)

(* Columns are generated on first use: a call never fails because a column is
   missing, exists already, or cannot be added. *)
ColumnsGenerated == \A c \in Callers : result[c] # "schema"

(* The same of the writers that batch, whoever else adds columns to the table.
   Their haveColumn and addColumn read one snapshot, so this fails only when
   the cache was filled in an earlier call. *)
BatchersGenerateColumns ==
  \A c \in Callers :
    Flag[WriterOf[c]] # "NoTransactions" => result[c] # "schema"

(* Without transactions every row is in the file when its call returns, even
   when another writer batches its rows in the same file. *)
DurableAtOnce ==
  \A w \in Conns :
    Flag[w] = "NoTransactions" => \A r \in owed[w] : Keeps(disk, r)

(* All writes are batched: unless the thread is between its "commit" and its
   "begin", a writer with the default flag has a transaction open. *)
WritesBatched ==
  \A w \in Conns :
    phase[w] # "off" /\ Flag[w] = "NoFlag" /\ tpc[w] # "begin" => intx[w]

(***************************************************************************)
(* Action properties.                                                      *)
(***************************************************************************)

(* Nothing that happens to any writer, a commit of another one, a rollback or
   a crash included, loses or undoes a committed row. *)
CommittedRowsKept == [][\A r \in disk.rows : Keeps(disk', r)]_vars

(* The rows of a writer that the file keeps. *)
Durable(w) == {r \in owed[w] : Keeps(disk, r)}

Store == INSTANCE RowStore WITH Writers  <- Conns,
                                Batching <- [w \in Conns |-> Transactional(w)],
                                accepted <- owed,
                                durable  <- [w \in Conns |-> Durable(w)]

(* The writers implement RowStore: a row of a batching writer waits for its
   commit and others do not; a commit makes all the accepted rows durable or
   none; a process that dies loses just those that were not; and no writer has
   a part in what becomes of another's rows. *)
ImplementsRowStore == Store!Spec

(***************************************************************************)
(* Liveness.                                                               *)
(***************************************************************************)

(* The transaction is cycled: an acknowledged row reaches the file, unless its
   process dies first. *)
RowsReachFile ==
  \A w \in Conns, i \in 1..MaxCalls :
    (\E r \in owed[w] : r.id = i)
      ~> \A r \in owed[w] : r.id = i => Keeps(disk, r)

(* A call comes back, and a destructor too. *)
CallsReturn == \A c \in Callers : pc[c] # "idle" ~> pc[c] = "idle"
DestructionEnds == \A w \in Conns : phase[w] = "joining" ~> phase[w] = "off"
=============================================================================
