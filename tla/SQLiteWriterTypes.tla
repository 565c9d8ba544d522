------------------------- MODULE SQLiteWriterTypes --------------------------
(***************************************************************************)
(* Theorems about SQLiteWriter, for any number of writers, callers, tables *)
(* and calls.                                                              *)
(***************************************************************************)
EXTENDS SQLiteWriter, WalFileProofs

USE NamesAssumption, WriterAssumption

----------------------------------------------------------------------------
(***************************************************************************)
(* Type correctness.                                                       *)
(***************************************************************************)

(* A function of functions changed at one place. *)
LEMMA UpdateType ==
  ASSUME NEW D, NEW E, NEW S, NEW f \in [D -> [E -> S]],
         NEW d \in D, NEW e \in E, NEW v \in S
  PROVE  [f EXCEPT ![d][e] = v] \in [D -> [E -> S]]
OBVIOUS

(* The statements the code prepares. *)
LEMMA StmtType ==
  /\ NoStmt \in Stmt
  /\ QueryStmt \in Stmt
  /\ \A cols \in Seq(Columns), r \in BOOLEAN : InsertStmt(cols, r) \in Stmt
BY DEF Stmt, NoStmt, QueryStmt, InsertStmt

(* prepare and the destructor keep the statement cache a cache. *)
LEMMA PrepareType ==
  ASSUME MiniTypeOK, NEW w \in Conns, NEW nm \in Names \cup {NoName},
         NEW s \in Stmt, Prepare(w, nm, s)
  PROVE  stmts' \in [Conns -> [Names \cup {NoName} -> Stmt]]
BY DEF MiniTypeOK, Prepare

LEMMA ForgetType ==
  ASSUME MiniTypeOK, NEW w \in Conns, Forget(w)
  PROVE  MiniTypeOK'
BY StmtType DEF MiniTypeOK, Forget

LEMMA InitType == Init => TypeOK
<1> SUFFICES ASSUME Init PROVE TypeOK
  OBVIOUS
<1> USE DEF Init
<1>1. WalTypeOK
  BY EmptyDbType DEF WalInit, WalTypeOK, Holds
<1>2. MiniTypeOK
  BY StmtType DEF MiniInit, MiniTypeOK
<1>3. LifeTypeOK
  BY DEF LifeTypeOK
<1>4. ThreadTypeOK
  BY DEF ThreadTypeOK, ThreadPcs
<1>5. CacheTypeOK
  BY DEF CacheTypeOK, NoColumns
<1>6. CallTypeOK
  BY DEF CallTypeOK, CallerPcs, Results
<1>7. owed \in [Conns -> SUBSET Row]
  OBVIOUS
<1>8. ThreadOfBatcher
  BY DEF ThreadOfBatcher
<1> QED
  BY <1>1, <1>2, <1>3, <1>4, <1>5, <1>6, <1>7, <1>8 DEF TypeOK

(* The parts of the state, each of which keeps its type when it is left
   alone. *)
LEMMA UnchangedType ==
  ASSUME TypeOK
  PROVE  /\ UNCHANGED walVars => WalTypeOK'
         /\ UNCHANGED miniVars => MiniTypeOK'
         /\ UNCHANGED lifeVars => LifeTypeOK'
         /\ UNCHANGED <<mutex, threadVars>> => ThreadTypeOK'
         /\ UNCHANGED cacheVars => CacheTypeOK'
         /\ UNCHANGED callVars => CallTypeOK'
         /\ UNCHANGED <<threadVars, lifeVars>> => ThreadOfBatcher'
BY DEF TypeOK, WalTypeOK, walVars, MiniTypeOK, miniVars, LifeTypeOK, lifeVars,
  ThreadTypeOK, threadVars, CacheTypeOK, cacheVars, CallTypeOK, callVars, ThreadOfBatcher

(* How a call goes on, or ends. *)
LEMMA ReturnType ==
  ASSUME CallTypeOK, ThreadTypeOK, NEW c \in Callers, NEW how \in Results,
         Return(c, how), UNCHANGED threadVars
  PROVE  CallTypeOK' /\ ThreadTypeOK'
BY DEF CallTypeOK, ThreadTypeOK, Return, threadVars, CallerPcs

(* What is left when a process is gone. *)
LEMMA ProcessGoneType ==
  ASSUME TypeOK, NEW w \in Conns, ProcessGone(w)
  PROVE  /\ MiniTypeOK' /\ LifeTypeOK' /\ ThreadTypeOK'
         /\ CacheTypeOK' /\ CallTypeOK' /\ ThreadOfBatcher'
<1> USE DEF ProcessGone, TypeOK
<1>1. MiniTypeOK'
  BY ForgetType
<1>2. LifeTypeOK'
  BY DEF LifeTypeOK
<1>3. ThreadTypeOK'
  BY DEF ThreadTypeOK, ThreadPcs
<1>4. CacheTypeOK'
  BY DEF CacheTypeOK, NoColumns
<1>5. CallTypeOK'
  BY DEF CallTypeOK, CallerPcs, Results
<1>6. ThreadOfBatcher'
  BY DEF ThreadOfBatcher, LifeTypeOK, ThreadTypeOK
<1> QED
  BY <1>1, <1>2, <1>3, <1>4, <1>5, <1>6

LEMMA TickType ==
  ASSUME ThreadTypeOK, NEW w \in Conns, Tick(w)
  PROVE  n' \in [Conns -> 0..(CyclePeriod - 1)]
<1>1. (n[w] + 1) % CyclePeriod \in 0..(CyclePeriod - 1)
  BY DEF ThreadTypeOK
<1> QED
  BY <1>1 DEF ThreadTypeOK, Tick

----------------------------------------------------------------------------
(* The life of a writer, and its thread. *)
LEMMA OpenType ==
  ASSUME TypeOK, NEW w \in Conns, Open(w)
  PROVE  TypeOK'
<1> USE DEF TypeOK, Open
<1>1. WalTypeOK' /\ MiniTypeOK'
  BY ExecBeginType, UnchangedType DEF Begin, MiniTypeOK, miniVars
<1>2. LifeTypeOK'
  BY DEF LifeTypeOK
<1>3. ThreadTypeOK'
  BY DEF ThreadTypeOK, ThreadPcs
<1>4. CacheTypeOK' /\ CallTypeOK'
  BY UnchangedType
<1>5. ThreadOfBatcher'
  BY DEF ThreadOfBatcher, LifeTypeOK, ThreadTypeOK, Transactional
<1> QED
  BY <1>1, <1>2, <1>3, <1>4, <1>5

LEMMA CrashType ==
  ASSUME TypeOK, NEW w \in Conns, Crash(w) \/ Terminate(w)
  PROVE  TypeOK'
BY ProcessGoneType, AbandonType DEF TypeOK, Crash, Terminate

LEMMA CommitThreadType ==
  ASSUME TypeOK, NEW w \in Conns, CommitThreadStep(w)
  PROVE  TypeOK'
<1>1. CASE CheckQuit(w)
  BY <1>1, UnchangedType
  DEF TypeOK, CheckQuit, ThreadTypeOK, ThreadPcs, lifeVars, ThreadOfBatcher
<1>2. CASE Wake(w)
  BY <1>2, UnchangedType, TickType
  DEF TypeOK, Wake, ThreadTypeOK, ThreadPcs, lifeVars, ThreadOfBatcher
<1>3. CASE LockCycle(w)
  BY <1>3, UnchangedType
  DEF TypeOK, LockCycle, ThreadTypeOK, ThreadPcs, lifeVars, ThreadOfBatcher
<1>4. CASE CycleCommit(w)
  BY <1>4, UnchangedType, ExecCommitType, CrashType
  DEF TypeOK, CycleCommit, ThreadTypeOK, ThreadPcs, lifeVars, ThreadOfBatcher
<1>5. CASE CycleBegin(w)
  BY <1>5, UnchangedType, ExecBeginType, TickType
  DEF TypeOK, CycleBegin, ThreadTypeOK, ThreadPcs, lifeVars, ThreadOfBatcher
<1> QED
  BY <1>1, <1>2, <1>3, <1>4, <1>5 DEF CommitThreadStep

LEMMA DestructorType ==
  ASSUME TypeOK, NEW w \in Conns, Destroy(w) \/ DestructorStep(w)
  PROVE  TypeOK'
<1>1. CASE Destroy(w)
  BY <1>1, UnchangedType
  DEF TypeOK, Destroy, LifeTypeOK, ThreadTypeOK, ThreadOfBatcher
<1>2. CASE Join(w)
  BY <1>2, UnchangedType
  DEF TypeOK, Join, LifeTypeOK, threadVars, ThreadOfBatcher
<1>3. CASE CloseDb(w)
  BY <1>3, ProcessGoneType, ExecCommitType, AbandonType, CrashType
  DEF TypeOK, CloseDb
<1> QED
  BY <1>1, <1>2, <1>3 DEF DestructorStep

----------------------------------------------------------------------------
(* The callers. *)
LEMMA CallType ==
  ASSUME TypeOK, NEW c \in Callers, CallAddValue(c) \/ CallQuery(c)
  PROVE  TypeOK'
<1>1. CASE CallAddValue(c)
  <2>1. calls' \in 0..MaxCalls /\ calls + 1 \in Nat
    BY <1>1 DEF CallAddValue, TypeOK, CallTypeOK
  <2>2. \/ UNCHANGED <<pc, arg>>
        \/ /\ pc' = [pc EXCEPT ![c] = "lock"]
           /\ \E a \in Args : arg' = [arg EXCEPT ![c] = a]
    <3>1. \A nm \in Names, s \in Sigs, k \in Keys \cup {NoKey}, r \in BOOLEAN :
            [name |-> nm, sig |-> s, key |-> k, replace |-> r, id |-> calls + 1]
              \in Args
      BY <2>1 DEF Args
    <3> QED
      BY <1>1, <3>1 DEF CallAddValue
  <2>3. result' \in [Callers -> Results] /\ todo' = todo
    BY <1>1 DEF CallAddValue, TypeOK, CallTypeOK, Results
  <2>4. /\ pc' \in [Callers -> CallerPcs]
        /\ arg' \in [Callers -> Args \cup {NoArg}]
    <3>1. pc \in [Callers -> CallerPcs] /\ arg \in [Callers -> Args \cup {NoArg}]
      BY DEF TypeOK, CallTypeOK
    <3>2. pc' \in [Callers -> CallerPcs]
      BY <2>2, <3>1 DEF CallerPcs
    <3> QED
      BY <2>2, <3>1, <3>2
  <2>5. /\ \A d \in Callers :
             pc'[d] \notin {"idle", "querylock", "query"} => arg'[d] \in Args
        /\ \A d \in Callers :
             pc'[d] \in {"haveTable", "create", "alter"} => todo'[d] # <<>>
    BY <2>2, <2>3 DEF TypeOK, CallTypeOK
  <2>6. CallTypeOK'
    BY <2>1, <2>3, <2>4, <2>5 DEF TypeOK, CallTypeOK
  <2> QED
    BY <1>1, <2>6, UnchangedType DEF TypeOK, CallAddValue
<1>2. CASE CallQuery(c)
  <2>1. calls' \in 0..MaxCalls
    BY <1>2 DEF CallQuery, TypeOK, CallTypeOK
  <2>2. /\ pc' \in [Callers -> CallerPcs]
        /\ result' \in [Callers -> Results]
    BY <1>2 DEF CallQuery, TypeOK, CallTypeOK, CallerPcs, Results
  <2>3. /\ \A d \in Callers :
             pc'[d] \notin {"idle", "querylock", "query"} => arg'[d] \in Args
        /\ \A d \in Callers :
             pc'[d] \in {"haveTable", "create", "alter"} => todo'[d] # <<>>
    BY <1>2 DEF CallQuery, TypeOK, CallTypeOK
  <2>4. CallTypeOK'
    BY <1>2, <2>1, <2>2, <2>3 DEF CallQuery, TypeOK, CallTypeOK
  <2> QED
    BY <1>2, <2>4, UnchangedType DEF TypeOK, CallQuery
<1> QED
  BY <1>1, <1>2

LEMMA CallerLockType ==
  ASSUME TypeOK, NEW c \in Callers, CallerLock(c)
  PROVE  TypeOK'
<1>1. CASE LockAddValue(c)
  <2>1. arg[c] \in Args /\ arg[c].sig \in Seq(Columns)
    BY <1>1 DEF LockAddValue, TypeOK, CallTypeOK, Args
  <2>2. CallTypeOK'
    BY <1>1, <2>1 DEF LockAddValue, Goto, TypeOK, CallTypeOK, CallerPcs, Inside
  <2>3. ThreadTypeOK'
    BY <1>1 DEF LockAddValue, TypeOK, ThreadTypeOK, threadVars
  <2> QED
    BY <1>1, <2>2, <2>3, UnchangedType DEF TypeOK, LockAddValue
<1>2. CASE LockQuery(c)
  <2>1. CallTypeOK'
    BY <1>2 DEF LockQuery, Goto, TypeOK, CallTypeOK, CallerPcs, Inside
  <2>2. ThreadTypeOK'
    BY <1>2 DEF LockQuery, TypeOK, ThreadTypeOK, threadVars
  <2> QED
    BY <1>2, <2>1, <2>2, UnchangedType DEF TypeOK, LockQuery
<1> QED
  BY <1>1, <1>2 DEF CallerLock

(* What a call works on once it has the mutex. *)
LEMMA CallFacts ==
  ASSUME TypeOK, NEW c \in Callers, pc[c] \notin {"idle", "querylock", "query"}
  PROVE  /\ WriterOf[c] \in Conns
         /\ arg[c].name \in Names
         /\ TableOf[arg[c].name] \in Tables
         /\ arg[c].sig \in Seq(Columns)
         /\ arg[c].replace \in BOOLEAN
         /\ Sees(WriterOf[c]) \in Db
         /\ RowOf(c) \in Row
BY SeesType DEF TypeOK, CallTypeOK, Args, RowOf, Row

LEMMA SchemaType ==
  ASSUME TypeOK, NEW w \in Conns, NEW nm \in Names
  PROVE  Schema(w, nm) \subseteq Columns
<1>1. Sees(w) \in Db /\ TableOf[nm] \in Tables
  BY SeesType DEF TypeOK
<1> QED
  BY <1>1 DEF Schema, Db

LEMMA ColumnMadeType ==
  ASSUME TypeOK, NEW c \in Callers, pc[c] \in {"create", "alter"},
         ColumnMade(c), UNCHANGED threadVars
  PROVE  CacheTypeOK' /\ CallTypeOK' /\ ThreadTypeOK'
<1>1. /\ todo[c] \in Seq(Columns) /\ todo[c] # <<>>
      /\ WriterOf[c] \in Conns /\ arg[c].name \in Names /\ arg[c] \in Args
  BY CallFacts DEF TypeOK, CallTypeOK
<1>2. Head(todo[c]) \in Columns /\ Tail(todo[c]) \in Seq(Columns)
  BY <1>1
<1>3. CacheTypeOK'
  BY <1>1, <1>2 DEF TypeOK, CacheTypeOK, ColumnMade
<1>4. CallTypeOK'
  BY <1>1, <1>2 DEF TypeOK, CallTypeOK, ColumnMade, Goto, CallerPcs, Inside
<1>5. ThreadTypeOK'
  BY DEF TypeOK, ThreadTypeOK, ColumnMade, threadVars
<1> QED
  BY <1>3, <1>4, <1>5

LEMMA CallerStepType ==
  ASSUME TypeOK, NEW c \in Callers, CallerStep(c)
  PROVE  TypeOK'
<1> DEFINE w == WriterOf[c]
<1>0. w \in Conns
  OBVIOUS
<1>1. CASE HaveColumn(c)
  <2>1. arg[c].name \in Names /\ arg[c] \in Args /\ todo[c] \in Seq(Columns)
    BY <1>1, CallFacts DEF HaveColumn, TypeOK, CallTypeOK
  <2>2. Known(c) \subseteq Columns
    BY <2>1, SchemaType DEF Known, TypeOK, CacheTypeOK
  <2>3. CacheTypeOK'
    BY <1>1, <2>1, <2>2 DEF HaveColumn, TypeOK, CacheTypeOK
  <2>4. WalTypeOK'
    BY <1>1, UnchangedType, ReadType DEF HaveColumn, TypeOK
  <2>5. todo[c] # <<>> /\ Tail(todo[c]) \in Seq(Columns)
    BY <1>1, <2>1 DEF HaveColumn
  <2>6. CallTypeOK'
    <3>1. \/ pc' = pc /\ todo' = [todo EXCEPT ![c] = Tail(@)]
          \/ pc' = [pc EXCEPT ![c] = "haveTable"] /\ todo' = todo
      BY <1>1 DEF HaveColumn, Goto
    <3>2. pc \in [Callers -> CallerPcs] /\ todo \in [Callers -> Seq(Columns)]
      BY DEF TypeOK, CallTypeOK
    <3>3. "haveTable" \in CallerPcs
      BY DEF CallerPcs, Inside
    <3>4. /\ pc' \in [Callers -> CallerPcs]
          /\ todo' \in [Callers -> Seq(Columns)]
      <4>1. CASE pc' = pc /\ todo' = [todo EXCEPT ![c] = Tail(@)]
        BY <2>5, <3>2, <4>1
      <4>2. CASE pc' = [pc EXCEPT ![c] = "haveTable"] /\ todo' = todo
        BY <3>2, <3>3, <4>2
      <4> QED
        BY <3>1, <4>1, <4>2
    <3>5. /\ \A d \in Callers :
               pc'[d] \notin {"idle", "querylock", "query"} => arg'[d] \in Args
          /\ \A d \in Callers :
               pc'[d] \in {"haveTable", "create", "alter"} => todo'[d] # <<>>
      BY <1>1, <2>1, <2>5 DEF HaveColumn, Goto, TypeOK, CallTypeOK
    <3> QED
      BY <1>1, <3>4, <3>5 DEF HaveColumn, Goto, TypeOK, CallTypeOK
  <2> QED
    BY <1>1, <2>3, <2>4, <2>6, UnchangedType DEF HaveColumn, TypeOK
<1>2. CASE HaveTable(c)
  <2>1. CallTypeOK'
    BY <1>2 DEF HaveTable, Goto, TypeOK, CallTypeOK, CallerPcs, Inside
  <2> QED
    BY <1>2, <2>1, UnchangedType, ReadType DEF HaveTable, TypeOK
<1>3. CASE CreateTable(c) \/ AlterTable(c)
  <2>1. /\ pc[c] \in {"create", "alter"} /\ UNCHANGED <<miniVars, threadVars, lifeVars, owed>>
    BY <1>3 DEF CreateTable, AlterTable
  <2>2. /\ TableOf[arg[c].name] \in Tables /\ Sees(w) \in Db
        /\ Head(todo[c]) \in Columns
    <3>1. todo[c] \in Seq(Columns) /\ todo[c] # <<>>
      BY <2>1 DEF TypeOK, CallTypeOK
    <3> QED
      BY <2>1, <3>1, CallFacts
  <2>3. ColumnAdded(Sees(w), TableOf[arg[c].name], Head(todo[c])) \in Db
    BY <2>2, ColumnAddedType
  <2>4. \/ ColumnMade(c) /\ WalTypeOK'
        \/ /\ \E why \in {"error", "schema"} : Return(c, why)
           /\ UNCHANGED <<walVars, cacheVars>>
    BY <1>3, <2>3, WriteType, UnchangedType
    DEF CreateTable, AlterTable, ExecCreateTable, ExecAlterTable,
      ColumnRefused, TypeOK
  <2>5. CASE ColumnMade(c) /\ WalTypeOK'
    BY <2>1, <2>5, ColumnMadeType, UnchangedType DEF TypeOK
  <2>6. CASE /\ \E why \in {"error", "schema"} : Return(c, why)
             /\ UNCHANGED <<walVars, cacheVars>>
    <3>1. CallTypeOK' /\ ThreadTypeOK'
      BY <2>1, <2>6, ReturnType DEF TypeOK, Results
    <3> QED
      BY <2>1, <2>6, <3>1, UnchangedType DEF TypeOK
  <2> QED
    BY <2>4, <2>5, <2>6
<1>4. CASE PrepareInsert(c)
  <2>1. /\ arg[c].name \in Names /\ arg[c] \in Args
        /\ arg[c].sig \in Seq(Columns) /\ arg[c].replace \in BOOLEAN
    BY <1>4, CallFacts DEF PrepareInsert, TypeOK, CallTypeOK
  <2>2. MiniTypeOK'
    BY <1>4, <2>1, StmtType, PrepareType DEF PrepareInsert, TypeOK, MiniTypeOK
  <2>3. CacheTypeOK'
    <3>1. \/ lastsig' = lastsig
          \/ lastsig' = [lastsig EXCEPT ![w][arg[c].name] = arg[c].sig]
      BY <1>4 DEF PrepareInsert
    <3>2. \/ lastreplace' = lastreplace
          \/ lastreplace' =
               [lastreplace EXCEPT ![w][arg[c].name] = arg[c].replace]
      BY <1>4 DEF PrepareInsert
    <3>3. lastsig \in [Conns -> [Names -> Seq(Columns)]]
      BY DEF TypeOK, CacheTypeOK
    <3>4. lastreplace \in [Conns -> [Names -> BOOLEAN]]
      BY DEF TypeOK, CacheTypeOK
    <3>5. lastsig' \in [Conns -> [Names -> Seq(Columns)]]
      <4>1. CASE lastsig' = [lastsig EXCEPT ![w][arg[c].name] = arg[c].sig]
        BY <1>0, <2>1, <3>3, <4>1, UpdateType
      <4> QED
        BY <3>1, <3>3, <4>1
    <3>6. lastreplace' \in [Conns -> [Names -> BOOLEAN]]
      <4>1. CASE lastreplace' =
                   [lastreplace EXCEPT ![w][arg[c].name] = arg[c].replace]
        BY <1>0, <2>1, <3>4, <4>1, UpdateType
      <4> QED
        BY <3>2, <3>4, <4>1
    <3> QED
      BY <1>4, <3>5, <3>6 DEF PrepareInsert, TypeOK, CacheTypeOK
  <2>4. CallTypeOK' /\ ThreadTypeOK'
    <3>1. CASE Return(c, "schema")
      BY <1>4, <3>1, ReturnType DEF PrepareInsert, TypeOK, Results
    <3>2. CASE Goto(c, "exec") /\ UNCHANGED <<todo, mutex>>
      BY <1>4, <2>1, <3>2
      DEF PrepareInsert, Goto, TypeOK, CallTypeOK, CallerPcs, Inside,
        ThreadTypeOK, threadVars
    <3> QED
      BY <1>4, <3>1, <3>2 DEF PrepareInsert
  <2> QED
    BY <1>4, <2>2, <2>3, <2>4, UnchangedType DEF PrepareInsert, TypeOK
<1>5. CASE ExecPrep(c)
  <2>1. RowOf(c) \in Row /\ Sees(w) \in Db
    BY <1>5, CallFacts DEF ExecPrep
  <2>2. /\ WalTypeOK' /\ owed' \in [Conns -> SUBSET Row]
        /\ \E how \in Results : Return(c, how)
    BY <1>5, <2>1, ReadType, WriteType, AbandonType, InsertedType, UnchangedType
    DEF ExecPrep, ExecInsert, ExecBusy, ExecMissing, ExecRefused, ExecConflict,
      ExecForeign, BindRefused, TypeOK, Results
  <2>3. CallTypeOK' /\ ThreadTypeOK'
    BY <1>5, <2>2, ReturnType DEF ExecPrep, TypeOK
  <2> QED
    BY <1>5, <2>2, <2>3, UnchangedType DEF ExecPrep, TypeOK
<1>6. CASE ExecQuery(c)
  <2>1. WalTypeOK' /\ \E how \in Results : Return(c, how)
    BY <1>6, ReadType, UnchangedType DEF ExecQuery, TypeOK, Results
  <2>2. MiniTypeOK'
    BY <1>6, StmtType, PrepareType DEF ExecQuery, TypeOK, MiniTypeOK
  <2>3. CallTypeOK' /\ ThreadTypeOK'
    BY <1>6, <2>1, ReturnType DEF ExecQuery, TypeOK
  <2> QED
    BY <1>6, <2>1, <2>2, <2>3, UnchangedType DEF ExecQuery, TypeOK
<1>7. CASE ExecThrows(c)
  <2>1. CallTypeOK' /\ ThreadTypeOK'
    BY <1>7, ReturnType DEF ExecThrows, ColumnRefused, TypeOK, Results
  <2> QED
    BY <1>7, <2>1, UnchangedType DEF ExecThrows, ColumnRefused, TypeOK
<1> QED
  BY <1>1, <1>2, <1>3, <1>4, <1>5, <1>6, <1>7 DEF CallerStep

(* Every variable keeps its type, in every reachable state. *)
THEOREM TypeCorrect == Spec => []TypeOK
<1>1. TypeOK /\ [Next]_vars => TypeOK'
  <2> SUFFICES ASSUME TypeOK, [Next]_vars PROVE TypeOK'
    OBVIOUS
  <2>1. CASE UNCHANGED vars
    BY <2>1, UnchangedType DEF TypeOK, vars
  <2>2. CASE Next
    BY <2>2, OpenType, CrashType, CommitThreadType, DestructorType, CallType,
      CallerLockType, CallerStepType DEF Next
  <2> QED
    BY <2>1, <2>2
<1> QED
  BY <1>1, InitType, PTL DEF Spec
=============================================================================
