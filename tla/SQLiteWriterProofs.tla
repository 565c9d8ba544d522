------------------------- MODULE SQLiteWriterProofs -------------------------
(***************************************************************************)
(* The safety theorems about SQLiteWriter, for any number of writers,      *)
(* callers, tables, names and calls.                                       *)
(***************************************************************************)
EXTENDS SQLiteWriterTypes

USE NamesAssumption, WriterAssumption

----------------------------------------------------------------------------
(***************************************************************************)
(* Mutual exclusion.  Who works on a connection owns its mutex; a call in  *)
(* progress keeps the writer from being destroyed; and a writer that is    *)
(* being destroyed, or is none, has no thread.                             *)
(***************************************************************************)
MutexInv ==
  /\ \A c \in Callers : pc[c] # "idle" => phase[WriterOf[c]] = "open"
  /\ \A c \in Callers : pc[c] \in Inside => mutex[WriterOf[c]] = c
  /\ \A w \in Conns : InsideThread(w) => mutex[w] = CommitThread
  /\ \A w \in Conns :
       phase[w] \in {"off", "destroying"} => tpc[w] \in {"none", "exited"}

LEMMA MutexInit == Init => MutexInv
BY DEF Init, MutexInv, Inside, InsideThread

LEMMA ProcessGoneMutex ==
  ASSUME TypeOK, MutexInv, NEW w \in Conns, ProcessGone(w)
  PROVE  MutexInv'
BY DEF TypeOK, LifeTypeOK, ThreadTypeOK, CallTypeOK, MutexInv, ProcessGone,
  Inside, InsideThread

(* A step of a caller that has the mutex: it goes on inside, or returns. *)
LEMMA CallerMoves ==
  ASSUME NEW c \in Callers, CallerStep(c)
  PROVE  /\ pc[c] \in Inside
         /\ UNCHANGED <<phase, tpc>>
         /\ \/ pc' = pc /\ mutex' = mutex
            \/ /\ \E p \in Inside : pc' = [pc EXCEPT ![c] = p]
               /\ mutex' = mutex
            \/ /\ pc' = [pc EXCEPT ![c] = "idle"]
               /\ mutex' = [mutex EXCEPT ![WriterOf[c]] = Free]
<1>1. CASE HaveColumn(c) \/ HaveTable(c)
  BY <1>1 DEF HaveColumn, HaveTable, Goto, Inside, threadVars, lifeVars
<1>2. CASE CreateTable(c) \/ AlterTable(c) \/ ExecThrows(c)
  BY <1>2 DEF CreateTable, AlterTable, ExecThrows, ColumnMade, ColumnRefused, Goto,
    Return, Inside, threadVars, lifeVars
<1>3. CASE PrepareInsert(c)
  BY <1>3 DEF PrepareInsert, Goto, Return, Inside, threadVars, lifeVars
<1>4. CASE ExecPrep(c)
  BY <1>4 DEF ExecPrep, ExecInsert, ExecBusy, ExecMissing, ExecRefused, ExecConflict,
    ExecForeign, BindRefused, Return, Inside, threadVars, lifeVars
<1>5. CASE ExecQuery(c)
  BY <1>5 DEF ExecQuery, Return, Inside, threadVars, lifeVars
<1> QED
  BY <1>1, <1>2, <1>3, <1>4, <1>5 DEF CallerStep

LEMMA CallerMutex ==
  ASSUME TypeOK, MutexInv, NEW c \in Callers, CallerStep(c)
  PROVE  MutexInv'
<1>1. /\ pc[c] \in Inside
      /\ UNCHANGED <<phase, tpc>>
      /\ \/ pc' = pc /\ mutex' = mutex
         \/ /\ \E p \in Inside : pc' = [pc EXCEPT ![c] = p]
            /\ mutex' = mutex
         \/ /\ pc' = [pc EXCEPT ![c] = "idle"]
            /\ mutex' = [mutex EXCEPT ![WriterOf[c]] = Free]
  BY CallerMoves
<1>2. \A d \in Callers \ {c} : WriterOf[d] = WriterOf[c] => pc[d] \notin Inside
  BY <1>1 DEF MutexInv
<1>3. ~InsideThread(WriterOf[c])
  BY <1>1 DEF MutexInv
<1>4. pc \in [Callers -> CallerPcs] /\ DOMAIN mutex = Conns
  BY DEF TypeOK, CallTypeOK, ThreadTypeOK
<1> QED
  BY <1>1, <1>2, <1>3, <1>4 DEF MutexInv, Inside, InsideThread

(* The commit thread takes the mutex, or gives it back, while no caller works
   on the connection. *)
LEMMA MutexTaken ==
  ASSUME TypeOK, MutexInv, NEW w \in Conns, UNCHANGED <<pc, phase>>,
         \A c \in Callers : WriterOf[c] = w => pc[c] \notin Inside,
         \/ /\ tpc[w] = "lock" /\ tpc' = [tpc EXCEPT ![w] = "commit"]
            /\ mutex' = [mutex EXCEPT ![w] = CommitThread]
         \/ /\ tpc[w] = "begin" /\ tpc' = [tpc EXCEPT ![w] = "check"]
            /\ mutex' = [mutex EXCEPT ![w] = Free]
  PROVE  MutexInv'
<1>0. mutex \in [Conns -> Callers \cup {CommitThread, Free}] /\ tpc \in [Conns -> ThreadPcs]
  BY DEF TypeOK, ThreadTypeOK
<1>1. \A c \in Callers : pc'[c] \in Inside => mutex'[WriterOf[c]] = c
  BY <1>0 DEF MutexInv
<1>2. \A v \in Conns : InsideThread(v)' => mutex'[v] = CommitThread
  BY <1>0 DEF MutexInv, InsideThread
<1>3. \A v \in Conns :
        phase'[v] \in {"off", "destroying"} => tpc'[v] \in {"none", "exited"}
  BY <1>0 DEF MutexInv
<1> QED
  BY <1>1, <1>2, <1>3 DEF MutexInv, InsideThread

(* The thread goes on without touching the mutex. *)
LEMMA MutexKept ==
  ASSUME TypeOK, MutexInv, NEW w \in Conns, UNCHANGED <<pc, phase, mutex>>,
         tpc[w] \in {"check", "sleep", "commit"}, NEW where \in ThreadPcs,
         where \in {"commit", "begin"} => tpc[w] = "commit",
         tpc' = [tpc EXCEPT ![w] = where]
  PROVE  MutexInv'
<1>0. tpc \in [Conns -> ThreadPcs]
  BY DEF TypeOK, ThreadTypeOK
<1>1. \A v \in Conns : InsideThread(v)' => mutex'[v] = CommitThread
  BY <1>0 DEF MutexInv, InsideThread
<1>2. \A v \in Conns :
        phase'[v] \in {"off", "destroying"} => tpc'[v] \in {"none", "exited"}
  BY <1>0 DEF MutexInv
<1> QED
  BY <1>1, <1>2 DEF MutexInv, InsideThread

LEMMA MutexStep ==
  ASSUME TypeOK, MutexInv, [Next]_vars
  PROVE  MutexInv'
<1> USE DEF TypeOK, LifeTypeOK, ThreadTypeOK, CallTypeOK
<1>1. ASSUME NEW w \in Conns, Open(w) PROVE MutexInv'
  BY <1>1 DEF Open, MutexInv, InsideThread, Inside, callVars, threadVars
<1>2. ASSUME NEW w \in Conns, Crash(w) \/ Terminate(w) PROVE MutexInv'
  BY <1>2, ProcessGoneMutex DEF Crash, Terminate
<1>3. ASSUME NEW w \in Conns, Destroy(w) PROVE MutexInv'
  BY <1>3 DEF Destroy, MutexInv, InsideThread, Inside, callVars
<1>4. ASSUME NEW w \in Conns, CommitThreadStep(w) PROVE MutexInv'
  <2>1. CASE CheckQuit(w) \/ Wake(w)
    <3>1. /\ tpc[w] \in {"check", "sleep"} /\ UNCHANGED <<pc, phase, mutex>>
          /\ \E where \in ThreadPcs \ {"commit", "begin"} :
               tpc' = [tpc EXCEPT ![w] = where]
      BY <1>4, <2>1 DEF CheckQuit, Wake, callVars, lifeVars, ThreadPcs
    <3> QED
      BY <1>4, <3>1, MutexKept
  <2>2. CASE LockCycle(w)
    <3>1. \A c \in Callers : WriterOf[c] = w => pc[c] \notin Inside
      BY <1>4, <2>2 DEF LockCycle, MutexInv
    <3> QED
      BY <1>4, <2>2, <3>1, MutexTaken DEF LockCycle, callVars, lifeVars
  <2>3. CASE CycleCommit(w)
    <3>1. "begin" \in ThreadPcs
      BY DEF ThreadPcs
    <3> QED
      BY <1>4, <1>2, <2>3, <3>1, MutexKept DEF CycleCommit, callVars, lifeVars
  <2>4. CASE CycleBegin(w)
    <3>1. \A c \in Callers : WriterOf[c] = w => pc[c] \notin Inside
      BY <1>4, <2>4 DEF CycleBegin, MutexInv, InsideThread
    <3> QED
      BY <1>4, <2>4, <3>1, MutexTaken DEF CycleBegin, callVars, lifeVars
  <2> QED
    BY <1>4, <2>1, <2>2, <2>3, <2>4 DEF CommitThreadStep
<1>5. ASSUME NEW w \in Conns, DestructorStep(w) PROVE MutexInv'
  <2>1. CASE Join(w)
    BY <1>5, <2>1 DEF Join, MutexInv, InsideThread, Inside, callVars, threadVars
  <2>2. CASE CloseDb(w)
    BY <1>5, <1>2, <2>2, ProcessGoneMutex DEF CloseDb
  <2> QED
    BY <1>5, <2>1, <2>2 DEF DestructorStep
<1>6. ASSUME NEW c \in Callers, CallAddValue(c) \/ CallQuery(c) PROVE MutexInv'
  BY <1>6 DEF CallAddValue, CallQuery, MutexInv, InsideThread, Inside, lifeVars,
    threadVars
<1>7. ASSUME NEW c \in Callers, CallerLock(c) PROVE MutexInv'
  <2>1. /\ pc[c] # "idle" /\ mutex[WriterOf[c]] = Free
        /\ mutex' = [mutex EXCEPT ![WriterOf[c]] = c]
        /\ \E p \in Inside : pc' = [pc EXCEPT ![c] = p]
        /\ UNCHANGED <<phase, tpc>>
    BY <1>7 DEF CallerLock, LockAddValue, LockQuery, Goto, Inside, lifeVars,
      threadVars
  <2>2. ~InsideThread(WriterOf[c])
    BY <1>7, <2>1 DEF MutexInv
  <2>3. \A d \in Callers : WriterOf[d] = WriterOf[c] => pc[d] \notin Inside
    BY <1>7, <2>1 DEF MutexInv
  <2>4. \A d \in Callers : pc'[d] \in Inside => mutex'[WriterOf[d]] = d
    BY <1>7, <2>1, <2>3 DEF MutexInv
  <2>5. \A w \in Conns : InsideThread(w)' => mutex'[w] = CommitThread
    BY <1>7, <2>1, <2>2 DEF MutexInv, InsideThread
  <2>6. \A d \in Callers : pc'[d] # "idle" => phase'[WriterOf[d]] = "open"
    BY <1>7, <2>1 DEF MutexInv
  <2> QED
    BY <2>1, <2>4, <2>5, <2>6 DEF MutexInv, InsideThread
<1>8. ASSUME NEW c \in Callers, CallerStep(c) PROVE MutexInv'
  BY <1>8, CallerMutex
<1>9. CASE UNCHANGED vars
  BY <1>9 DEF vars, MutexInv, InsideThread, Inside, callVars, lifeVars, threadVars
<1> QED
  BY <1>1, <1>2, <1>3, <1>4, <1>5, <1>6, <1>7, <1>8, <1>9 DEF Next

LEMMA MutexInvariant == Spec => []MutexInv
BY MutexInit, MutexStep, TypeCorrect, PTL DEF Spec

(* While a caller, the commit thread or the destructor works on a connection
   and its caches nobody else does. *)
THEOREM MutualExclusion == Spec => []ExclusiveUse
<1>1. ASSUME MutexInv PROVE ExclusiveUse
  <2>1. ASSUME NEW c \in Callers, pc[c] \in Inside
        PROVE  /\ phase[WriterOf[c]] = "open" /\ ~InsideThread(WriterOf[c])
               /\ mutex[WriterOf[c]] = c
    BY <1>1, <2>1 DEF MutexInv, Inside
  <2>2. \A w \in Conns : phase[w] = "destroying" => ~InsideThread(w)
    BY <1>1 DEF MutexInv, InsideThread
  <2>3. \A c, d \in Callers :
          /\ WriterOf[c] = WriterOf[d]
          /\ pc[c] \in Inside /\ pc[d] \in Inside
          => c = d
    BY <2>1
  <2> QED
    BY <2>1, <2>2, <2>3 DEF ExclusiveUse
<1> QED
  BY <1>1, MutexInvariant, PTL

----------------------------------------------------------------------------
(***************************************************************************)
(* The converse of MutexInv, of the mutex: a step that takes its owner     *)
(* away from the connection lets go of it.                                 *)
(***************************************************************************)

(* Who has the mutex of v keeps it, and goes on with what it does. *)
KeepsWorking(v) ==
  /\ mutex'[v] = mutex[v]
  /\ mutex[v] = CommitThread /\ InsideThread(v) => InsideThread(v)'
  /\ \A c \in Callers : WriterOf[c] = v /\ mutex[v] = c /\ pc[c] \in Inside =>
       pc'[c] \in Inside

LEMMA ReleasedKept ==
  ASSUME MutexReleased, \A v \in Conns : mutex'[v] = Free \/ KeepsWorking(v)
  PROVE  MutexReleased'
BY DEF MutexReleased, KeepsWorking

LEMMA ProcessGoneReleased ==
  ASSUME TypeOK, MutexReleased, NEW w \in Conns, ProcessGone(w)
  PROVE  MutexReleased'
<1>1. \A v \in Conns : mutex'[v] = Free \/ KeepsWorking(v)
  BY DEF TypeOK, ThreadTypeOK, CallTypeOK, ProcessGone, KeepsWorking, InsideThread
<1> QED
  BY <1>1, ReleasedKept

LEMMA CallerReleased ==
  ASSUME TypeOK, MutexInv, MutexReleased, NEW c \in Callers, CallerStep(c)
  PROVE  MutexReleased'
<1> DEFINE w == WriterOf[c]
<1>1. /\ tpc' = tpc
      /\ \/ mutex' = mutex
         \/ mutex' = [mutex EXCEPT ![w] = Free] /\ mutex[w] = c /\ pc' = [pc EXCEPT ![c] = "idle"]
      /\ \A d \in Callers \ {c} : pc'[d] = pc[d]
      /\ mutex' = mutex => pc'[c] \in Inside
  <2>1. pc \in [Callers -> CallerPcs] /\ DOMAIN mutex = Conns /\ Free \notin Callers
    BY DEF TypeOK, CallTypeOK, ThreadTypeOK
  <2>2. mutex[w] = c /\ w \in Conns
    BY CallerMoves DEF MutexInv
  <2> QED
    BY CallerMoves, <2>1, <2>2
<1>2. \A v \in Conns : mutex'[v] = Free \/ KeepsWorking(v)
  BY <1>1 DEF TypeOK, ThreadTypeOK, KeepsWorking, InsideThread
<1> QED
  BY <1>2, ReleasedKept

LEMMA ThreadReleased ==
  ASSUME TypeOK, MutexInv, MutexReleased, NEW w \in Conns, CommitThreadStep(w)
  PROVE  MutexReleased'
<1> USE DEF TypeOK, ThreadTypeOK
<1>1. CASE CheckQuit(w) \/ Wake(w) \/ CycleBegin(w)
  <2>1. \A v \in Conns : mutex'[v] = Free \/ KeepsWorking(v)
    BY <1>1 DEF CheckQuit, Wake, CycleBegin, callVars, KeepsWorking, InsideThread
  <2> QED
    BY <2>1, ReleasedKept
<1>2. CASE LockCycle(w)
  BY <1>2 DEF LockCycle, callVars, MutexReleased, InsideThread
<1>3. CASE CycleCommit(w)
  <2>1. CASE Terminate(w)
    BY <2>1, ProcessGoneReleased DEF Terminate
  <2>2. CASE ~Terminate(w)
    <3>1. \A v \in Conns : KeepsWorking(v)
      BY <1>3, <2>2 DEF CycleCommit, callVars, KeepsWorking, InsideThread
    <3> QED
      BY <3>1, ReleasedKept
  <2> QED
    BY <2>1, <2>2
<1> QED
  BY <1>1, <1>2, <1>3 DEF CommitThreadStep

LEMMA ReleasedStep ==
  ASSUME TypeOK, MutexInv, MutexReleased, [Next]_vars
  PROVE  MutexReleased'
<1>1. ASSUME NEW w \in Conns, Crash(w) PROVE MutexReleased'
  BY <1>1, ProcessGoneReleased DEF Crash, Terminate
<1>2. ASSUME NEW w \in Conns, Open(w) \/ Destroy(w) \/ Join(w) PROVE MutexReleased'
  <2>1. \A v \in Conns : KeepsWorking(v)
    BY <1>2 DEF Open, Destroy, Join, callVars, threadVars, KeepsWorking, InsideThread,
      TypeOK, ThreadTypeOK, LifeTypeOK, MutexInv
  <2> QED
    BY <2>1, ReleasedKept
<1>3. ASSUME NEW w \in Conns, CommitThreadStep(w) PROVE MutexReleased'
  BY <1>3, ThreadReleased
<1>4. ASSUME NEW w \in Conns, CloseDb(w) PROVE MutexReleased'
  BY <1>4, ProcessGoneReleased DEF CloseDb, Terminate
<1>5. ASSUME NEW c \in Callers, CallAddValue(c) \/ CallQuery(c) PROVE MutexReleased'
  <2>1. \A v \in Conns : KeepsWorking(v)
    BY <1>5 DEF CallAddValue, CallQuery, threadVars, KeepsWorking, InsideThread, TypeOK,
      CallTypeOK, Inside
  <2> QED
    BY <2>1, ReleasedKept
<1>6. ASSUME NEW c \in Callers, CallerLock(c) PROVE MutexReleased'
  <2>1. /\ mutex[WriterOf[c]] = Free
        /\ mutex' = [mutex EXCEPT ![WriterOf[c]] = c]
        /\ \E p \in Inside : pc' = [pc EXCEPT ![c] = p]
        /\ UNCHANGED tpc
    BY <1>6 DEF CallerLock, LockAddValue, LockQuery, Goto, Inside, threadVars
  <2> QED
    BY <1>6, <2>1 DEF MutexReleased, InsideThread, TypeOK, CallTypeOK, ThreadTypeOK
<1>7. ASSUME NEW c \in Callers, CallerStep(c) PROVE MutexReleased'
  BY <1>7, CallerReleased
<1>8. CASE UNCHANGED vars
  BY <1>8 DEF vars, MutexReleased, InsideThread, callVars, threadVars
<1> QED
  BY <1>1, <1>2, <1>3, <1>4, <1>5, <1>6, <1>7, <1>8 DEF Next, DestructorStep

(* No path through a call or a cycle, a throw included, keeps the mutex. *)
THEOREM MutexIsReleased == Spec => []MutexReleased
<1>1. Init => MutexReleased
  BY DEF Init, MutexReleased
<1> QED
  BY <1>1, ReleasedStep, MutexInvariant, TypeCorrect, PTL DEF Spec

----------------------------------------------------------------------------
(***************************************************************************)
(* The statement cache.  A statement kept under a name is the INSERT that  *)
(* d_lastsig and d_lastreplace describe, and a call that is about to       *)
(* execute it asked for just that; except under the empty name, where it   *)
(* may be that of a query.                                                 *)
(***************************************************************************)
StmtInv ==
  /\ \A w \in Conns, nm \in Names : isPrepared(w, nm) =>
       \/ stmts[w][nm] = InsertStmt(lastsig[w][nm], lastreplace[w][nm])
       \/ nm = NoName /\ stmts[w][nm] = QueryStmt
  /\ \A c \in Callers : pc[c] = "exec" =>
       \/ StmtOf(c) = InsertStmt(arg[c].sig, arg[c].replace)
       \/ arg[c].name = NoName /\ StmtOf(c) = QueryStmt

LEMMA StmtInit == Init => StmtInv
<1> SUFFICES ASSUME Init PROVE StmtInv
  OBVIOUS
<1>1. \A w \in Conns, nm \in Names : ~isPrepared(w, nm)
  BY DEF Init, MiniInit, isPrepared, NoStmt
<1>2. \A c \in Callers : pc[c] # "exec"
  BY DEF Init
<1> QED
  BY <1>1, <1>2 DEF StmtInv

(* A step that prepares nothing and takes nobody to execution. *)
LEMMA StmtKept ==
  ASSUME StmtInv, UNCHANGED <<stmts, lastsig, lastreplace>>,
         \A c \in Callers : pc'[c] = "exec" => pc[c] = "exec" /\ arg'[c] = arg[c]
  PROVE  StmtInv'
BY DEF StmtInv, StmtOf, isPrepared

LEMMA ProcessGoneStmt ==
  ASSUME TypeOK, StmtInv, NEW w \in Conns, ProcessGone(w)
  PROVE  StmtInv'
<1>1. stmts' = [stmts EXCEPT ![w] = [nm \in Names \cup {NoName} |-> NoStmt]]
  BY DEF ProcessGone, Forget
<1>2. \A v \in Conns, nm \in Names :
        \/ stmts'[v][nm] = NoStmt
        \/ /\ v # w /\ stmts'[v][nm] = stmts[v][nm]
           /\ lastsig'[v][nm] = lastsig[v][nm]
           /\ lastreplace'[v][nm] = lastreplace[v][nm]
  BY <1>1 DEF ProcessGone, TypeOK, MiniTypeOK, CacheTypeOK
<1>3. \A v \in Conns, nm \in Names : isPrepared(v, nm)' =>
        \/ stmts'[v][nm] = InsertStmt(lastsig'[v][nm], lastreplace'[v][nm])
        \/ nm = NoName /\ stmts'[v][nm] = QueryStmt
  BY <1>2 DEF StmtInv, isPrepared, NoStmt
<1>4. ASSUME NEW c \in Callers, pc'[c] = "exec"
      PROVE  \/ StmtOf(c)' = InsertStmt(arg[c].sig, arg[c].replace)'
             \/ arg'[c].name = NoName /\ StmtOf(c)' = QueryStmt
  <2>1. /\ WriterOf[c] # w /\ pc[c] = "exec" /\ arg'[c] = arg[c]
    BY <1>4 DEF ProcessGone
  <2>2. stmts'[WriterOf[c]] = stmts[WriterOf[c]]
    BY <1>1, <2>1 DEF TypeOK, MiniTypeOK
  <2> QED
    BY <2>1, <2>2 DEF StmtInv, StmtOf, InsertStmt
<1> QED
  BY <1>3, <1>4 DEF StmtInv, InsertStmt

LEMMA LockStmt ==
  ASSUME TypeOK, StmtInv, NEW c \in Callers, CallerLock(c)
  PROVE  StmtInv'
<1>1. UNCHANGED <<stmts, lastsig, lastreplace, arg>>
  BY DEF CallerLock, LockAddValue, LockQuery, Goto, miniVars, cacheVars
<1>2. CASE ~(LockAddValue(c) /\ Reusable(c))
  <2>1. \A d \in Callers : pc'[d] = "exec" => pc[d] = "exec"
    BY <1>2 DEF CallerLock, LockAddValue, LockQuery, Goto, TypeOK, CallTypeOK
  <2> QED
    BY <1>1, <2>1, StmtKept
<1>3. CASE LockAddValue(c) /\ Reusable(c)
  <2>1. pc' = [pc EXCEPT ![c] = "exec"] /\ arg[c].name \in Names
    BY <1>3, CallFacts DEF LockAddValue, Goto
  <2>2. \/ StmtOf(c) = InsertStmt(arg[c].sig, arg[c].replace)
        \/ arg[c].name = NoName /\ StmtOf(c) = QueryStmt
    BY <1>3, <2>1 DEF Reusable, StmtInv, StmtOf
  <2>3. \A d \in Callers : pc'[d] = "exec" => pc[d] = "exec" \/ d = c
    BY <2>1 DEF TypeOK, CallTypeOK
  <2> QED
    BY <1>1, <2>2, <2>3 DEF StmtInv, StmtOf, isPrepared, InsertStmt
<1> QED
  BY <1>2, <1>3

(* prepare, by a call that has the mutex, for a name on its connection. *)
LEMMA PrepareStmt ==
  ASSUME TypeOK, MutexInv, StmtInv, NEW c \in Callers, pc[c] \in Inside,
         NEW nm \in Names \cup {NoName}, NEW s, Prepare(WriterOf[c], nm, s)
  PROVE  /\ \A v \in Conns, m \in Names :
              v # WriterOf[c] \/ m # nm => stmts'[v][m] = stmts[v][m]
         /\ stmts'[WriterOf[c]][nm] = s
         /\ \A d \in Callers : pc[d] = "exec" /\ d # c => StmtOf(d)' = stmts[WriterOf[d]][arg'[d].name]
<1>1. \A v \in Conns : stmts[v] \in [Names \cup {NoName} -> Stmt]
  BY DEF TypeOK, MiniTypeOK
<1>2. \A d \in Callers : pc[d] = "exec" /\ d # c => WriterOf[d] # WriterOf[c]
  BY DEF MutexInv, Inside
<1> QED
  BY <1>1, <1>2 DEF Prepare, TypeOK, MiniTypeOK, StmtOf

LEMMA PrepareInsertStmt ==
  ASSUME TypeOK, MutexInv, StmtInv, NEW c \in Callers, PrepareInsert(c)
  PROVE  StmtInv'
<1> DEFINE w == WriterOf[c]
           nm == arg[c].name
<1>1. /\ nm \in Names /\ w \in Conns /\ pc[c] \in Inside /\ pc[c] = "columns"
  BY CallFacts DEF PrepareInsert, Inside
<1>2. CASE Prepare(w, nm, NoStmt) /\ Return(c, "schema") /\ UNCHANGED <<lastsig, lastreplace>>
  <2>1. /\ \A v \in Conns, m \in Names :
             v # w \/ m # nm => stmts'[v][m] = stmts[v][m]
        /\ stmts'[w][nm] = NoStmt
        /\ \A d \in Callers : pc[d] = "exec" /\ d # c =>
             StmtOf(d)' = stmts[WriterOf[d]][arg'[d].name]
    BY <1>1, <1>2, PrepareStmt
  <2>2. \A d \in Callers : pc'[d] = "exec" =>
          d # c /\ pc[d] = "exec" /\ arg'[d] = arg[d]
    BY <1>2 DEF Return, TypeOK, CallTypeOK
  <2>3. \A v \in Conns, m \in Names : isPrepared(v, m)' =>
          \/ stmts'[v][m] = InsertStmt(lastsig'[v][m], lastreplace'[v][m])
          \/ m = NoName /\ stmts'[v][m] = QueryStmt
    BY <1>2, <2>1 DEF StmtInv, isPrepared, NoStmt
  <2>4. \A d \in Callers : pc'[d] = "exec" =>
          \/ StmtOf(d)' = InsertStmt(arg'[d].sig, arg'[d].replace)
          \/ arg'[d].name = NoName /\ StmtOf(d)' = QueryStmt
    BY <2>1, <2>2 DEF StmtInv, StmtOf
  <2> QED
    BY <2>3, <2>4 DEF StmtInv, InsertStmt
<1>3. CASE /\ Prepare(w, nm, InsertStmt(arg[c].sig, arg[c].replace))
           /\ lastsig' = [lastsig EXCEPT ![w][nm] = arg[c].sig]
           /\ lastreplace' = [lastreplace EXCEPT ![w][nm] = arg[c].replace]
           /\ Goto(c, "exec")
  <2>1. /\ \A v \in Conns, m \in Names :
             v # w \/ m # nm => stmts'[v][m] = stmts[v][m]
        /\ stmts'[w][nm] = InsertStmt(arg[c].sig, arg[c].replace)
        /\ \A d \in Callers : pc[d] = "exec" /\ d # c =>
             StmtOf(d)' = stmts[WriterOf[d]][arg'[d].name]
    BY <1>1, <1>3, PrepareStmt
  <2>2. arg' = arg /\ \A d \in Callers : pc'[d] = "exec" => d = c \/ pc[d] = "exec"
    BY <1>3 DEF Goto, TypeOK, CallTypeOK
  <2>3. /\ \A v \in Conns, m \in Names : v # w \/ m # nm =>
             lastsig'[v][m] = lastsig[v][m] /\ lastreplace'[v][m] = lastreplace[v][m]
        /\ lastsig'[w][nm] = arg[c].sig
        /\ lastreplace'[w][nm] = arg[c].replace
    BY <1>1, <1>3 DEF TypeOK, CacheTypeOK
  <2>4. \A v \in Conns, m \in Names : isPrepared(v, m)' =>
          \/ stmts'[v][m] = InsertStmt(lastsig'[v][m], lastreplace'[v][m])
          \/ m = NoName /\ stmts'[v][m] = QueryStmt
    BY <2>1, <2>3 DEF StmtInv, isPrepared
  <2>5. \A d \in Callers : pc'[d] = "exec" =>
          \/ StmtOf(d)' = InsertStmt(arg'[d].sig, arg'[d].replace)
          \/ arg'[d].name = NoName /\ StmtOf(d)' = QueryStmt
    BY <2>1, <2>2 DEF StmtInv, StmtOf
  <2> QED
    BY <2>4, <2>5 DEF StmtInv, InsertStmt
<1> QED
  BY <1>2, <1>3 DEF PrepareInsert

LEMMA QueryStmtKept ==
  ASSUME TypeOK, MutexInv, StmtInv, NEW c \in Callers, ExecQuery(c)
  PROVE  StmtInv'
<1>1. PICK s \in {NoStmt, QueryStmt} : Prepare(WriterOf[c], NoName, s)
  BY DEF ExecQuery
<1>2. /\ \A v \in Conns, m \in Names :
           v # WriterOf[c] \/ m # NoName => stmts'[v][m] = stmts[v][m]
      /\ stmts'[WriterOf[c]][NoName] = s
      /\ \A d \in Callers : pc[d] = "exec" /\ d # c =>
           StmtOf(d)' = stmts[WriterOf[d]][arg'[d].name]
  BY <1>1, PrepareStmt DEF ExecQuery, Inside
<1>3. UNCHANGED <<lastsig, lastreplace>> /\ pc[c] = "query"
  BY DEF ExecQuery, cacheVars
<1>4. \A d \in Callers : pc'[d] = "exec" =>
        d # c /\ pc[d] = "exec" /\ arg'[d] = arg[d]
  BY DEF ExecQuery, Return, TypeOK, CallTypeOK
<1>5. \A v \in Conns, m \in Names : isPrepared(v, m)' =>
        \/ stmts'[v][m] = InsertStmt(lastsig'[v][m], lastreplace'[v][m])
        \/ m = NoName /\ stmts'[v][m] = QueryStmt
  BY <1>2, <1>3 DEF StmtInv, isPrepared, NoStmt
<1>6. \A d \in Callers : pc'[d] = "exec" =>
        \/ StmtOf(d)' = InsertStmt(arg'[d].sig, arg'[d].replace)
        \/ arg'[d].name = NoName /\ StmtOf(d)' = QueryStmt
  BY <1>2, <1>4 DEF StmtInv, StmtOf
<1> QED
  BY <1>5, <1>6 DEF StmtInv, InsertStmt

LEMMA StmtStep ==
  ASSUME TypeOK, MutexInv, StmtInv, [Next]_vars
  PROVE  StmtInv'
<1> DEFINE Quiet == /\ UNCHANGED <<stmts, lastsig, lastreplace>>
                    /\ \A c \in Callers : pc'[c] = "exec" =>
                         pc[c] = "exec" /\ arg'[c] = arg[c]
<1>1. ASSUME NEW w \in Conns, Open(w) \/ Destroy(w) \/ Join(w) PROVE Quiet
  BY <1>1 DEF Open, Begin, Destroy, Join, callVars, cacheVars, miniVars
<1>2. ASSUME NEW w \in Conns, Crash(w) \/ Terminate(w) PROVE StmtInv'
  BY <1>2, ProcessGoneStmt DEF Crash, Terminate
<1>3. ASSUME NEW w \in Conns, CommitThreadStep(w) PROVE Quiet \/ StmtInv'
  BY <1>2, <1>3 DEF CommitThreadStep, CheckQuit, Wake, LockCycle, CycleCommit,
    CycleBegin, callVars, cacheVars, miniVars
<1>4. ASSUME NEW w \in Conns, CloseDb(w) PROVE StmtInv'
  BY <1>2, <1>4, ProcessGoneStmt DEF CloseDb
<1>5. ASSUME NEW c \in Callers, CallAddValue(c) \/ CallQuery(c) PROVE Quiet
  BY <1>5 DEF CallAddValue, CallQuery, cacheVars, miniVars, TypeOK, CallTypeOK
<1>6. ASSUME NEW c \in Callers, HaveColumn(c) \/ HaveTable(c) PROVE Quiet
  BY <1>6 DEF HaveColumn, HaveTable, Goto, cacheVars, miniVars, TypeOK, CallTypeOK
<1>7. ASSUME NEW c \in Callers, CreateTable(c) \/ AlterTable(c) \/ ExecThrows(c)
      PROVE  Quiet
  BY <1>7 DEF CreateTable, AlterTable, ExecThrows, ColumnMade, ColumnRefused, Goto,
    Return, cacheVars, miniVars, TypeOK, CallTypeOK
<1>8. ASSUME NEW c \in Callers, ExecPrep(c) PROVE Quiet
  BY <1>8 DEF ExecPrep, ExecInsert, ExecBusy, ExecMissing, ExecRefused, ExecConflict,
    ExecForeign, BindRefused, Return, cacheVars, miniVars, TypeOK, CallTypeOK
<1>9. CASE UNCHANGED vars
  BY <1>9, StmtKept DEF vars, callVars, cacheVars, miniVars
<1> HIDE DEF Quiet
<1>10. Quiet => StmtInv'
  BY StmtKept DEF Quiet
<1> QED
  BY <1>1, <1>2, <1>3, <1>4, <1>5, <1>6, <1>7, <1>8, <1>9, <1>10, LockStmt,
    PrepareInsertStmt, QueryStmtKept
  DEF Next, DestructorStep, CallerStep

LEMMA StmtInvariant == Spec => []StmtInv
BY TypeCorrect, MutexInvariant, StmtInit, StmtStep, PTL DEF Spec

(* The statement that is bound and stepped is the INSERT made for the call's
   columns and replace flag, provided no table has the empty name. *)
THEOREM StatementsFit ==
  ASSUME NoName \notin Names
  PROVE  Spec => []StatementFitsCall
<1>1. TypeOK /\ StmtInv => StatementFitsCall
  BY CallFacts DEF StmtInv, StatementFitsCall
<1> QED
  BY <1>1, TypeCorrect, StmtInvariant, PTL

----------------------------------------------------------------------------
(***************************************************************************)
(* Rows.  WalInv is the part of the invariant that speaks of the file; to  *)
(* it comes that only writers with the default flag have transactions and  *)
(* a thread, and know that they have.                                      *)
(***************************************************************************)
TxInv ==
  \A w \in Conns :
    /\ intx[w] => Transactional(w)
    /\ tpc[w] # "none" => Transactional(w)
    /\ intransaction[w] <=> phase[w] # "off" /\ Transactional(w)

LEMMA TxInit == Init => TxInv
<1> SUFFICES ASSUME Init, NEW w \in Conns
             PROVE  ~intx[w] /\ tpc[w] = "none" /\ phase[w] = "off" /\ ~intransaction[w]
  BY DEF TxInv
<1> QED
  BY DEF Init, WalInit, MiniInit

LEMMA ProcessGoneTx ==
  ASSUME TypeOK, TxInv, NEW w \in Conns, ProcessGone(w),
         \A v \in Conns : intx'[v] => intx[v]
  PROVE  TxInv'
BY DEF TypeOK, WalTypeOK, MiniTypeOK, LifeTypeOK, ThreadTypeOK, TxInv,
  Transactional, ProcessGone, Forget

LEMMA TxStep ==
  ASSUME TypeOK, TxInv, [Next]_vars
  PROVE  TxInv'
<1> DEFINE Quiet == /\ UNCHANGED <<phase, intransaction, tpc>>
                    /\ \A w \in Conns : intx'[w] => intx[w]
<1> USE DEF TypeOK, WalTypeOK, MiniTypeOK, LifeTypeOK, ThreadTypeOK
<1>1. ASSUME NEW w \in Conns, Open(w) PROVE TxInv'
  <2>1. phase' = [phase EXCEPT ![w] = "open"] /\ phase[w] = "off"
    BY <1>1 DEF Open
  <2>2. CASE Transactional(w)
    <3>1. /\ intransaction' = [intransaction EXCEPT ![w] = TRUE]
          /\ intx' = [intx EXCEPT ![w] = TRUE]
          /\ tpc' = [tpc EXCEPT ![w] = "check"]
      BY <1>1, <2>2 DEF Open, Begin, ExecBegin
    <3> QED
      BY <1>1, <2>1, <2>2, <3>1 DEF TxInv, Transactional
  <2>3. CASE ~Transactional(w)
    <3>1. UNCHANGED <<intx, intransaction, tpc>>
      BY <1>1, <2>3 DEF Open, walVars
    <3> QED
      BY <1>1, <2>1, <2>3, <3>1 DEF TxInv, Transactional
  <2> QED
    BY <2>2, <2>3
<1>2. ASSUME NEW w \in Conns, Crash(w) \/ Terminate(w) PROVE TxInv'
  <2>1. \A v \in Conns : intx'[v] => intx[v]
    BY <1>2 DEF Crash, Terminate, Abandon
  <2> QED
    BY <1>2, <2>1, ProcessGoneTx DEF Crash, Terminate
<1>3. ASSUME NEW w \in Conns, CommitThreadStep(w) PROVE TxInv'
  <2>1. CASE CheckQuit(w) \/ Wake(w) \/ LockCycle(w)
    BY <1>3, <2>1 DEF CheckQuit, Wake, LockCycle, TxInv, Transactional, lifeVars,
      miniVars, walVars
  <2>2. CASE CycleCommit(w)
    BY <1>2, <1>3, <2>2 DEF CycleCommit, ExecCommit, TxInv, Transactional,
      lifeVars, miniVars
  <2>3. CASE CycleBegin(w)
    BY <1>3, <2>3 DEF CycleBegin, ExecBegin, TxInv, Transactional, lifeVars,
      miniVars
  <2> QED
    BY <1>3, <2>1, <2>2, <2>3 DEF CommitThreadStep
<1>4. ASSUME NEW w \in Conns, Destroy(w) \/ Join(w) PROVE TxInv'
  BY <1>4 DEF Destroy, Join, TxInv, Transactional, miniVars, walVars, threadVars
<1>5. ASSUME NEW w \in Conns, CloseDb(w) PROVE TxInv'
  <2>1. \A v \in Conns : intx'[v] => intx[v]
    BY <1>5 DEF CloseDb, ExecCommit, Terminate, Abandon
  <2> QED
    BY <1>2, <1>5, <2>1, ProcessGoneTx DEF CloseDb
<1>6. ASSUME NEW c \in Callers, CallAddValue(c) \/ CallQuery(c) \/ CallerLock(c)
      PROVE  Quiet
  BY <1>6 DEF CallAddValue, CallQuery, CallerLock, LockAddValue, LockQuery,
    lifeVars, miniVars, walVars, threadVars
<1>7. ASSUME NEW c \in Callers, CallerStep(c) PROVE Quiet
  <2>1. CASE HaveColumn(c) \/ HaveTable(c) \/ ExecQuery(c) \/ PrepareInsert(c)
    BY <2>1 DEF HaveColumn, HaveTable, ExecQuery, PrepareInsert, Read, lifeVars,
      miniVars, walVars, threadVars
  <2>2. CASE CreateTable(c) \/ AlterTable(c) \/ ExecThrows(c)
    BY <2>2 DEF CreateTable, AlterTable, ExecThrows, ExecCreateTable, ExecAlterTable,
      ColumnRefused, Write, lifeVars, miniVars, walVars, threadVars
  <2>3. CASE ExecPrep(c)
    <3>1. UNCHANGED <<phase, intransaction, tpc>>
      BY <2>3 DEF ExecPrep, lifeVars, miniVars, threadVars
    <3>2. UNCHANGED intx \/ \E w \in Conns : Abandon(w)
      BY <2>3 DEF ExecPrep, ExecInsert, ExecBusy, ExecMissing, ExecRefused, ExecConflict,
        ExecForeign, BindRefused, Read, Write, walVars
    <3> QED
      BY <3>1, <3>2 DEF Abandon
  <2> QED
    BY <1>7, <2>1, <2>2, <2>3 DEF CallerStep
<1>8. CASE UNCHANGED vars
  BY <1>8 DEF vars, TxInv, Transactional, lifeVars, miniVars, walVars, threadVars
<1>9. Quiet => TxInv'
  BY DEF TxInv, Transactional
<1> HIDE DEF Quiet
<1> QED
  BY <1>1, <1>2, <1>3, <1>4, <1>5, <1>6, <1>7, <1>8, <1>9
  DEF Next, DestructorStep

LEMMA TxInvariant == Spec => []TxInv
BY TypeCorrect, TxInit, TxStep, PTL DEF Spec

----------------------------------------------------------------------------
(***************************************************************************)
(* What a step of the program does to the file and to the rows that are    *)
(* owed.  Most steps do no harm and owe nothing new.                       *)
(***************************************************************************)
NothingNew == Harmless /\ \A w \in Conns : owed'[w] \subseteq owed[w]

(* An acknowledged row is stored. *)
Stored == Harmless /\ \E w \in Conns, r \in Row :
            owed' = [owed EXCEPT ![w] = @ \cup {r}] /\ Safe(w, r)'

(* A process dies, and with it the rows that are not in the file. *)
Died == \E w \in Conns :
          Abandon(w) /\ owed' = [owed EXCEPT ![w] = {r \in @ : Keeps(disk, r)}]

(* The two ways to break a promise: a row that a UNIQUE column refuses takes
   its whole transaction with it, and a statement that was a query stores
   nothing. *)
RolledBack ==
  OnConflict # "ABORT" /\ owed' = owed /\ \E w \in Conns : Abandon(w)
Mistaken == Harmless /\ \E c \in Callers : pc[c] = "exec" /\ StmtOf(c).kind # "insert"

LEMMA OwedType == TypeOK => WalTypeOK /\ owed \in [Conns -> SUBSET Row]
BY DEF TypeOK

(* A statement that leaves the data as its connection sees it. *)
LEMMA RewriteHarmless ==
  ASSUME WalTypeOK, WalInv, NEW w \in Conns, Write(w, Sees(w))
  PROVE  Harmless
BY SeesType, KeptSame, WriteHarmless

LEMMA InsertStored ==
  ASSUME TypeOK, StmtInv, WalInv, NEW c \in Callers, pc[c] = "exec",
         StmtOf(c).kind = "insert", ExecInsert(c)
  PROVE  Stored
<1> DEFINE w == WriterOf[c]
           r == RowOf(c)
<1>1. w \in Conns /\ r \in Row
  BY CallFacts
<1>2. StmtOf(c).replace = r.replace
  BY DEF StmtInv, QueryStmt, InsertStmt, RowOf
<1>3. r.replace \/ Conflicts(Sees(w), r) = {}
  BY <1>2 DEF ExecInsert
<1>4. Write(w, Inserted(Sees(w), r)) /\ owed' = [owed EXCEPT ![w] = @ \cup {r}]
  BY DEF ExecInsert
<1> HIDE DEF w, r
<1>5. Sees(w) \in Db /\ Inserted(Sees(w), r) \in Db
  BY <1>1, OwedType, SeesType, InsertedType
<1>6. Kept(Sees(w), Inserted(Sees(w), r)) /\ Keeps(Inserted(Sees(w), r), r)
  BY <1>1, <1>3, <1>5, InsertedKeeps
<1>7. Harmless /\ \A s \in Row : Keeps(Inserted(Sees(w), r), s) => Safe(w, s)'
  BY <1>1, <1>4, <1>5, <1>6, OwedType, WriteHarmless
<1> QED
  BY <1>1, <1>4, <1>6, <1>7 DEF Stored

LEMMA ColumnHarmless ==
  ASSUME TypeOK, WalInv, NEW c \in Callers, CreateTable(c) \/ AlterTable(c)
  PROVE  Harmless
<1> DEFINE w == WriterOf[c]
           t == TableOf[arg[c].name]
           x == Head(todo[c])
<1>1. w \in Conns /\ t \in Tables /\ x \in Columns
  <2>1. arg[c].name \in Names /\ todo[c] \in Seq(Columns) /\ todo[c] # <<>>
    BY CallFacts DEF CreateTable, AlterTable, TypeOK, CallTypeOK
  <2> QED
    BY <2>1
<1>2. UNCHANGED walVars \/ Write(w, ColumnAdded(Sees(w), t, x))
  BY DEF CreateTable, AlterTable, ExecCreateTable, ExecAlterTable, ColumnRefused
<1> HIDE DEF w, t, x
<1>3. Sees(w) \in Db /\ ColumnAdded(Sees(w), t, x) \in Db
      /\ Kept(Sees(w), ColumnAdded(Sees(w), t, x))
  BY <1>1, OwedType, SeesType, ColumnAddedType, ColumnAddedKeeps
<1> QED
  BY <1>1, <1>2, <1>3, OwedType, WriteHarmless, UnchangedHarmless

LEMMA TerminateDied ==
  ASSUME NEW w \in Conns, Terminate(w)
  PROVE  Died
BY DEF Terminate, Died

(* Every step of the program is one of these. *)
LEMMA RowsStep ==
  ASSUME TypeOK, StmtInv, WalInv, TxInv, [Next]_vars
  PROVE  NothingNew \/ Stored \/ Died \/ RolledBack \/ Mistaken
<1>0. WalTypeOK
  BY OwedType
<1>1. ASSUME NEW w \in Conns, Open(w) PROVE NothingNew
  <2>1. ExecBegin(w) \/ UNCHANGED walVars
    BY <1>1 DEF Open, Begin
  <2>2. UNCHANGED owed
    BY <1>1 DEF Open
  <2> QED
    BY <1>0, <2>1, <2>2, OwedType, ExecBeginHarmless, UnchangedHarmless DEF NothingNew
<1>2. ASSUME NEW w \in Conns, CommitThreadStep(w) PROVE NothingNew \/ Died
  <2>1. CASE CheckQuit(w) \/ Wake(w) \/ LockCycle(w)
    BY <1>0, <2>1, UnchangedHarmless DEF CheckQuit, Wake, LockCycle, NothingNew
  <2>2. CASE CycleCommit(w)
    BY <1>0, <2>2, ExecCommitHarmless, TerminateDied DEF CycleCommit, NothingNew
  <2>3. CASE CycleBegin(w)
    BY <1>0, <2>3, ExecBeginHarmless DEF CycleBegin, NothingNew
  <2> QED
    BY <1>2, <2>1, <2>2, <2>3 DEF CommitThreadStep
<1>3. ASSUME NEW w \in Conns, Destroy(w) \/ Join(w) PROVE NothingNew
  BY <1>0, <1>3, UnchangedHarmless DEF Destroy, Join, NothingNew
<1>4. ASSUME NEW w \in Conns, CloseDb(w) PROVE NothingNew \/ Died
  <2>1. CASE ExecCommit(w) /\ UNCHANGED owed
    BY <1>0, <2>1, ExecCommitHarmless DEF NothingNew
  <2>2. CASE Terminate(w)
    BY <2>2, TerminateDied
  <2>3. CASE ~intransaction[w] /\ Abandon(w) /\ UNCHANGED owed
    <3>1. hold[w] = "none"
      BY <1>4, <2>3 DEF CloseDb, TxInv, WalInv
    <3>2. Harmless
      BY <1>0, <2>3, <3>1, AbandonHarmless DEF Harmless
    <3> QED
      BY <2>3, <3>2 DEF NothingNew
  <2> QED
    BY <1>4, <2>1, <2>2, <2>3 DEF CloseDb
<1>5. ASSUME NEW c \in Callers, CallAddValue(c) \/ CallQuery(c) \/ CallerLock(c)
      PROVE  NothingNew
  BY <1>0, <1>5, UnchangedHarmless
  DEF CallAddValue, CallQuery, CallerLock, LockAddValue, LockQuery, NothingNew
<1>6. ASSUME NEW c \in Callers, CallerStep(c)
      PROVE  NothingNew \/ Stored \/ RolledBack \/ Mistaken
  <2>0. WriterOf[c] \in Conns
    OBVIOUS
  <2>1. CASE HaveColumn(c) \/ HaveTable(c) \/ PrepareInsert(c) \/ ExecQuery(c)
    <3>1. (Read(WriterOf[c]) \/ UNCHANGED walVars) /\ UNCHANGED owed
      BY <2>1 DEF HaveColumn, HaveTable, PrepareInsert, ExecQuery
    <3> QED
      BY <1>0, <2>0, <3>1, ReadHarmless, UnchangedHarmless DEF NothingNew
  <2>2. CASE CreateTable(c) \/ AlterTable(c)
    BY <2>2, ColumnHarmless DEF CreateTable, AlterTable, NothingNew
  <2>5. CASE ExecThrows(c) \/ BindRefused(c)
    BY <1>0, <2>5, UnchangedHarmless
    DEF ExecThrows, ColumnRefused, BindRefused, NothingNew
  <2>3. CASE ExecPrep(c) /\ StmtOf(c).kind # "insert"
    BY <1>0, <2>0, <2>3, <2>5, ReadHarmless DEF ExecPrep, ExecForeign, Mistaken
  <2>4. CASE ExecPrep(c) /\ StmtOf(c).kind = "insert"
    <3>1. CASE ExecInsert(c)
      BY <2>4, <3>1, InsertStored DEF ExecPrep
    <3>2. CASE ExecBusy(c)
      BY <1>0, <3>2, UnchangedHarmless DEF ExecBusy, NothingNew
    <3>3. CASE ExecMissing(c)
      BY <1>0, <2>0, <3>3, RewriteHarmless DEF ExecMissing, NothingNew
    <3>4. CASE ExecRefused(c)
      BY <1>0, <2>0, <3>4, RewriteHarmless DEF ExecRefused, NothingNew
    <3>5. CASE ExecConflict(c)
      BY <1>0, <2>0, <3>5, RewriteHarmless DEF ExecConflict, NothingNew, RolledBack
    <3> QED
      BY <2>4, <2>5, <3>1, <3>2, <3>3, <3>4, <3>5 DEF ExecPrep
  <2> QED
    BY <1>6, <2>1, <2>2, <2>3, <2>4, <2>5 DEF CallerStep
<1>7. CASE UNCHANGED vars
  BY <1>0, <1>7, UnchangedHarmless DEF vars, NothingNew
<1> QED
  BY <1>1, <1>2, <1>3, <1>4, <1>5, <1>6, <1>7, TerminateDied DEF Next, DestructorStep, Crash

----------------------------------------------------------------------------
LEMMA WalStep ==
  ASSUME TypeOK, StmtInv, WalInv, TxInv, [Next]_vars
  PROVE  WalInv' /\ Kept(disk, disk')
<1>1. ASSUME NEW w \in Conns, Abandon(w) PROVE WalInv' /\ Kept(disk, disk')
  BY <1>1, OwedType, AbandonHarmless
<1> QED
  BY <1>1, RowsStep DEF NothingNew, Stored, Died, RolledBack, Mistaken, Harmless

LEMMA WalInvariant == Spec => []WalInv
<1>1. Init => WalInv
  BY WalInvInit DEF Init
<1> QED
  BY <1>1, WalStep, TypeCorrect, StmtInvariant, TxInvariant, PTL DEF Spec

(* No step of any writer loses or undoes a committed row: not a commit or a
   rollback of another one, nor a crash, nor a statement that went wrong. *)
THEOREM CommittedRows == Spec => CommittedRowsKept
<1>1. ASSUME TypeOK, StmtInv, WalInv, TxInv, [Next]_vars
      PROVE  [\A r \in disk.rows : Keeps(disk', r)]_vars
  BY <1>1, WalStep DEF Kept, Keeps
<1> QED
  BY <1>1, TypeCorrect, StmtInvariant, WalInvariant, TxInvariant, PTL
  DEF Spec, CommittedRowsKept

(***************************************************************************)
(* Every acknowledged row is safe: its transaction has it, and the file    *)
(* has it too unless the transaction has the write lock.  Keeping it is    *)
(* not inductive without the second part, for a reader's snapshot may be   *)
(* dropped.                                                                *)
(***************************************************************************)
AckInv == \A w \in Conns : \A r \in owed[w] : Safe(w, r)

LEMMA AckStep ==
  ASSUME NoName \notin Names, OnConflict = "ABORT",
         TypeOK, StmtInv, WalInv, TxInv, AckInv, [Next]_vars
  PROVE  AckInv'
<1>0. WalTypeOK /\ owed \in [Conns -> SUBSET Row]
  BY OwedType
<1>1. CASE NothingNew
  BY <1>0, <1>1 DEF NothingNew, Harmless, AckInv
<1>2. CASE Stored
  <2>1. PICK w \in Conns, r \in Row :
          owed' = [owed EXCEPT ![w] = @ \cup {r}] /\ Safe(w, r)'
    BY <1>2 DEF Stored
  <2>2. \A v \in Conns : \A s \in owed'[v] : s \in owed[v] \/ (v = w /\ s = r)
    BY <1>0, <2>1
  <2>3. \A v \in Conns : \A s \in owed[v] : Safe(v, s)'
    BY <1>0, <1>2 DEF Stored, Harmless, AckInv
  <2> QED
    BY <2>1, <2>2, <2>3 DEF AckInv
<1>3. CASE Died
  <2>1. PICK w \in Conns :
          Abandon(w) /\ owed' = [owed EXCEPT ![w] = {r \in @ : Keeps(disk, r)}]
    BY <1>3 DEF Died
  <2>2. \A v \in Conns \ {w}, s \in Row : Safe(v, s) => Safe(v, s)'
    BY <1>0, <2>1, AbandonHarmless
  <2>3. \A r \in owed'[w] : Keeps(disk, r)
    BY <1>0, <2>1
  <2>4. hold'[w] = "none" /\ disk' = disk
    BY <1>0, <2>1 DEF Abandon, WalTypeOK
  <2>5. \A r \in owed'[w] : Safe(w, r)'
    BY <2>3, <2>4 DEF Safe, Sees, Keeps
  <2>6. \A v \in Conns \ {w} : owed'[v] = owed[v] /\ owed[v] \subseteq Row
    BY <1>0, <2>1
  <2> QED
    BY <2>2, <2>5, <2>6 DEF AckInv
<1>4. ~RolledBack /\ ~Mistaken
  BY CallFacts DEF RolledBack, Mistaken, StmtInv, InsertStmt
<1> QED
  BY <1>1, <1>2, <1>3, <1>4, RowsStep

LEMMA AckInvariant ==
  ASSUME NoName \notin Names, OnConflict = "ABORT"
  PROVE  Spec => []AckInv
<1>1. Init => AckInv
  BY DEF Init, AckInv
<1> QED
  BY <1>1, AckStep, TypeCorrect, StmtInvariant, WalInvariant, TxInvariant, PTL
  DEF Spec

(* An acknowledged row is kept for as long as the process lives, provided no
   table has the empty name and no column's metadata says ON CONFLICT
   ROLLBACK. *)
THEOREM AcknowledgedRows ==
  ASSUME NoName \notin Names, OnConflict = "ABORT"
  PROVE  Spec => []AcknowledgedRowsKept
<1>1. AckInv => AcknowledgedRowsKept
  BY DEF AckInv, AcknowledgedRowsKept, Safe
<1> QED
  BY <1>1, AckInvariant, PTL

(***************************************************************************)
(* A writer without transactions is safe from conflicts that roll back as  *)
(* well: it has nothing to roll back, and another's rollback is no harm.   *)
(***************************************************************************)
DirectInv ==
  \A w \in Conns : Flag[w] = "NoTransactions" => \A r \in owed[w] : Safe(w, r)

LEMMA DirectStep ==
  ASSUME NoName \notin Names, TypeOK, StmtInv, WalInv, TxInv, DirectInv, [Next]_vars
  PROVE  DirectInv'
<1>0. WalTypeOK /\ owed \in [Conns -> SUBSET Row]
  BY OwedType
<1>1. CASE NothingNew
  BY <1>0, <1>1 DEF NothingNew, Harmless, DirectInv
<1>2. CASE Stored
  <2>1. PICK w \in Conns, r \in Row :
          owed' = [owed EXCEPT ![w] = @ \cup {r}] /\ Safe(w, r)'
    BY <1>2 DEF Stored
  <2>2. \A v \in Conns : \A s \in owed'[v] : s \in owed[v] \/ (v = w /\ s = r)
    BY <1>0, <2>1
  <2>3. \A v \in Conns : Flag[v] = "NoTransactions" => \A s \in owed[v] : Safe(v, s)'
    BY <1>0, <1>2 DEF Stored, Harmless, DirectInv
  <2> QED
    BY <2>1, <2>2, <2>3 DEF DirectInv
<1>3. CASE Died \/ RolledBack
  <2>1. PICK w \in Conns : Abandon(w) /\ \A v \in Conns : owed'[v] \subseteq owed[v]
    BY <1>0, <1>3 DEF Died, RolledBack
  <2>2. \A v \in Conns : Flag[v] = "NoTransactions" => hold[v] # "write"
    BY DEF TxInv, WalInv, Transactional
  <2>3. \A v \in Conns, r \in Row :
          Flag[v] = "NoTransactions" /\ Safe(v, r) => Safe(v, r)'
    BY <1>0, <2>1, <2>2, AbandonHarmless
  <2> QED
    BY <1>0, <2>1, <2>3 DEF DirectInv
<1>4. ~Mistaken
  BY CallFacts DEF Mistaken, StmtInv, InsertStmt
<1> QED
  BY <1>1, <1>2, <1>3, <1>4, RowsStep

(* A writer without transactions has its rows in the file when the call that
   added them returns, even where metadata says ON CONFLICT ROLLBACK. *)
THEOREM DurableWithoutTransactions ==
  ASSUME NoName \notin Names
  PROVE  Spec => []DurableAtOnce
<1>1. Init => DirectInv
  BY DEF Init, DirectInv
<1>2. TypeOK /\ WalInv /\ TxInv /\ DirectInv => DurableAtOnce
  BY DEF WalInv, TxInv, DirectInv, DurableAtOnce, Safe, Transactional
<1> QED
  BY <1>1, <1>2, DirectStep, TypeCorrect, StmtInvariant, WalInvariant, TxInvariant, PTL
  DEF Spec

----------------------------------------------------------------------------
(***************************************************************************)
(* The transaction.  A writer with the default flag has one open for as    *)
(* long as it lives, but for the moment between the two halves of a cycle. *)
(***************************************************************************)
OpenInv ==
  \A w \in Conns :
    /\ tpc[w] # "none" => phase[w] # "off"
    /\ Transactional(w) /\ phase[w] # "off" => (intx[w] <=> tpc[w] # "begin")

LEMMA OpenInit == Init => OpenInv
BY DEF Init, OpenInv

(* A process that is gone has neither a thread nor a phase, and the other
   writers have what they had. *)
LEMMA GoneOpen ==
  ASSUME TypeOK, OpenInv, NEW w \in Conns, ProcessGone(w),
         \A v \in Conns \ {w} : intx'[v] = intx[v]
  PROVE  OpenInv'
<1>1. /\ phase' = [phase EXCEPT ![w] = "off"]
      /\ tpc' = [tpc EXCEPT ![w] = "none"]
  BY DEF ProcessGone
<1>2. DOMAIN phase = Conns /\ DOMAIN tpc = Conns
  BY DEF TypeOK, LifeTypeOK, ThreadTypeOK
<1> QED
  BY <1>1, <1>2 DEF OpenInv, Transactional

LEMMA OpenStep ==
  ASSUME OnConflict = "ABORT", TypeOK, TxInv, OpenInv, [Next]_vars
  PROVE  OpenInv'
<1> DEFINE Quiet == UNCHANGED <<phase, intx, tpc>>
<1>0. DOMAIN phase = Conns /\ DOMAIN tpc = Conns /\ DOMAIN intx = Conns
  BY DEF TypeOK, WalTypeOK, LifeTypeOK, ThreadTypeOK
<1>1. ASSUME NEW w \in Conns, Open(w) PROVE OpenInv'
  <2>1. phase' = [phase EXCEPT ![w] = "open"] /\ phase[w] = "off"
    BY <1>1 DEF Open
  <2>2. CASE Transactional(w)
    <3>1. /\ intx' = [intx EXCEPT ![w] = TRUE]
          /\ tpc' = [tpc EXCEPT ![w] = "check"]
      BY <1>1, <2>2 DEF Open, Begin, ExecBegin
    <3> QED
      BY <1>0, <2>1, <3>1 DEF OpenInv, Transactional
  <2>3. CASE ~Transactional(w)
    <3>1. UNCHANGED <<intx, tpc>>
      BY <1>1, <2>3 DEF Open, walVars
    <3> QED
      BY <1>0, <2>1, <2>3, <3>1 DEF OpenInv, Transactional
  <2> QED
    BY <2>2, <2>3
<1>2. ASSUME NEW w \in Conns, Crash(w) \/ Terminate(w) PROVE OpenInv'
  <2>1. \A v \in Conns \ {w} : intx'[v] = intx[v]
    BY <1>0, <1>2 DEF Crash, Terminate, Abandon
  <2> QED
    BY <1>2, <2>1, GoneOpen DEF Crash, Terminate
<1>3. ASSUME NEW w \in Conns, CommitThreadStep(w) PROVE OpenInv'
  <2>1. CASE CheckQuit(w) \/ Wake(w) \/ LockCycle(w)
    <3>1. UNCHANGED <<phase, intx>> /\ tpc[w] \in {"check", "sleep", "lock"}
      BY <2>1 DEF CheckQuit, Wake, LockCycle, lifeVars, walVars
    <3>2. \E p \in {"exited", "sleep", "lock", "check", "commit"} :
            tpc' = [tpc EXCEPT ![w] = p]
      BY <2>1 DEF CheckQuit, Wake, LockCycle
    <3> QED
      BY <1>0, <3>1, <3>2 DEF OpenInv, Transactional
  <2>2. CASE CycleCommit(w)
    <3>1. CASE Terminate(w)
      BY <1>2, <3>1
    <3>2. CASE /\ UNCHANGED phase /\ tpc[w] = "commit"
               /\ intx' = [intx EXCEPT ![w] = FALSE]
               /\ tpc' = [tpc EXCEPT ![w] = "begin"]
      BY <1>0, <3>2 DEF OpenInv, Transactional
    <3> QED
      BY <2>2, <3>1, <3>2 DEF CycleCommit, ExecCommit, lifeVars
  <2>3. CASE CycleBegin(w)
    <3>1. /\ UNCHANGED phase /\ tpc[w] = "begin"
          /\ intx' = [intx EXCEPT ![w] = TRUE]
          /\ tpc' = [tpc EXCEPT ![w] = "check"]
      BY <2>3 DEF CycleBegin, ExecBegin, lifeVars
    <3> QED
      BY <1>0, <3>1 DEF OpenInv, Transactional
  <2> QED
    BY <1>3, <2>1, <2>2, <2>3 DEF CommitThreadStep
<1>4. ASSUME NEW w \in Conns, Destroy(w) \/ Join(w) PROVE OpenInv'
  <2>1. /\ UNCHANGED <<intx, tpc>> /\ phase[w] # "off"
        /\ \E p \in {"joining", "destroying"} : phase' = [phase EXCEPT ![w] = p]
    BY <1>4 DEF Destroy, Join, walVars, threadVars
  <2> QED
    BY <1>0, <2>1 DEF OpenInv, Transactional
<1>5. ASSUME NEW w \in Conns, CloseDb(w) PROVE OpenInv'
  <2>1. \A v \in Conns \ {w} : intx'[v] = intx[v]
    BY <1>0, <1>5 DEF CloseDb, ExecCommit, Terminate, Abandon
  <2> QED
    BY <1>2, <1>5, <2>1, GoneOpen DEF CloseDb
<1>6. ASSUME NEW c \in Callers, CallAddValue(c) \/ CallQuery(c) \/ CallerLock(c)
      PROVE  Quiet
  BY <1>6 DEF CallAddValue, CallQuery, CallerLock, LockAddValue, LockQuery,
    lifeVars, walVars, threadVars
<1>7. ASSUME NEW c \in Callers, CallerStep(c) PROVE Quiet
  <2>1. CASE HaveColumn(c) \/ HaveTable(c) \/ ExecQuery(c) \/ PrepareInsert(c)
    BY <2>1 DEF HaveColumn, HaveTable, ExecQuery, PrepareInsert, Read, lifeVars,
      walVars, threadVars
  <2>2. CASE CreateTable(c) \/ AlterTable(c) \/ ExecThrows(c)
    BY <2>2 DEF CreateTable, AlterTable, ExecThrows, ExecCreateTable, ExecAlterTable,
      ColumnRefused, Write, lifeVars, walVars, threadVars
  <2>3. CASE ExecPrep(c)
    BY <2>3 DEF ExecPrep, ExecInsert, ExecBusy, ExecMissing, ExecRefused, ExecConflict,
      ExecForeign, BindRefused, Read, Write, walVars, lifeVars, threadVars
  <2> QED
    BY <1>7, <2>1, <2>2, <2>3 DEF CallerStep
<1>8. CASE UNCHANGED vars
  BY <1>8 DEF vars, OpenInv, Transactional, lifeVars, walVars, threadVars
<1>9. Quiet => OpenInv'
  BY DEF OpenInv, Transactional
<1> HIDE DEF Quiet
<1> QED
  BY <1>1, <1>2, <1>3, <1>4, <1>5, <1>6, <1>7, <1>8, <1>9
  DEF Next, DestructorStep

LEMMA OpenInvariant ==
  ASSUME OnConflict = "ABORT"
  PROVE  Spec => []OpenInv
BY OpenInit, OpenStep, TypeCorrect, TxInvariant, PTL DEF Spec

(* The commit thread and the destructor have a transaction to commit, and the
   thread none when it begins the next, provided no column's metadata says ON
   CONFLICT ROLLBACK: neither of them ends the process with an exception. *)
THEOREM CommitsHaveTransactions ==
  ASSUME OnConflict = "ABORT"
  PROVE  Spec => []CommitHasTransaction
<1>1. ASSUME TypeOK, MutexInv, TxInv, OpenInv PROVE CommitHasTransaction
  <2> SUFFICES ASSUME NEW w \in Conns
               PROVE  /\ tpc[w] = "commit" => intx[w]
                      /\ tpc[w] = "begin" => ~intx[w]
                      /\ phase[w] = "destroying" => (intx[w] <=> intransaction[w])
    BY <1>1 DEF CommitHasTransaction, TypeOK, WalTypeOK, MiniTypeOK
  <2>1. CASE Transactional(w)
    BY <1>1, <2>1 DEF MutexInv, TxInv, OpenInv
  <2>2. CASE ~Transactional(w)
    BY <1>1, <2>2 DEF TxInv
  <2> QED
    BY <2>1, <2>2
<1> QED
  BY <1>1, OpenInvariant, TypeCorrect, MutexInvariant, TxInvariant, PTL

(* A writer with the default flag has a transaction open at all times but
   between the two halves of a cycle: no row is committed by itself. *)
THEOREM AllWritesBatched ==
  ASSUME OnConflict = "ABORT"
  PROVE  Spec => []WritesBatched
<1>1. OpenInv => WritesBatched
  BY DEF OpenInv, WritesBatched, Transactional
<1> QED
  BY <1>1, OpenInvariant, PTL

=============================================================================
