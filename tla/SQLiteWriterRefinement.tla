----------------------- MODULE SQLiteWriterRefinement -----------------------
(***************************************************************************)
(* SQLiteWriters implement RowStore, for any number of writers, callers,   *)
(* tables, names and calls.                                                *)
(***************************************************************************)
EXTENDS SQLiteWriterProofs

USE NamesAssumption, WriterAssumption

(* All rows a database has ever had, and those of the file and of every open
   transaction. *)
Past(db) == db.rows \cup db.replaced
Seen(r) == r \in Past(disk) \/ \E w \in Conns : r \in Past(view[w])

----------------------------------------------------------------------------
(***************************************************************************)
(* What a step does to the data in the file and in the transactions.       *)
(***************************************************************************)

(* A statement or the end of a transaction that adds no row. *)
Rowless(w) ==
  \/ UNCHANGED walVars
  \/ Read(w)
  \/ ExecBegin(w)
  \/ ExecCommit(w)
  \/ Abandon(w)
  \/ \E db \in Db : Write(w, db) /\ Past(db) = Past(Sees(w))

(* Every step adds no row and owes none, or stores the row of a call, or is
   the death of a process, or executes what was left of a query under the
   empty name. *)
Inserts(c) ==
  /\ pc[c] = "exec"
  /\ StmtOf(c) = InsertStmt(arg[c].sig, arg[c].replace)
  /\ ExecInsert(c)

Confused(c) ==
  /\ pc[c] = "exec"
  /\ StmtOf(c).kind # "insert"
  /\ Read(WriterOf[c])
  /\ owed' = owed \/ owed' = [owed EXCEPT ![WriterOf[c]] = @ \cup {RowOf(c)}]

LEMMA ConfusedNot ==
  ASSUME NoName \notin Names, TypeOK, StmtInv, NEW c \in Callers
  PROVE  ~Confused(c)
BY CallFacts DEF Confused, StmtInv, InsertStmt

LEMMA SeesPast ==
  ASSUME NEW w \in Conns, NEW r, r \in Past(Sees(w))
  PROVE  Seen(r)
BY DEF Sees, Seen

LEMMA RowStepKinds ==
  ASSUME TypeOK, StmtInv, [Next]_vars
  PROVE  \/ owed' = owed /\ (UNCHANGED walVars \/ \E w \in Conns : Rowless(w))
         \/ \E c \in Callers : Inserts(c) \/ Confused(c)
         \/ Died
<1> DEFINE Plain == owed' = owed /\ (UNCHANGED walVars \/ \E w \in Conns : Rowless(w))
<1>1. ASSUME NEW w \in Conns, Open(w) PROVE Plain
  BY <1>1 DEF Open, Begin, Rowless
<1>2. ASSUME NEW w \in Conns, CommitThreadStep(w) PROVE Plain \/ Died
  BY <1>2, TerminateDied
  DEF CommitThreadStep, CheckQuit, Wake, LockCycle, CycleCommit, CycleBegin, Rowless
<1>3. ASSUME NEW w \in Conns, Destroy(w) \/ Join(w) PROVE Plain
  BY <1>3 DEF Destroy, Join
<1>4. ASSUME NEW w \in Conns, CloseDb(w) PROVE Plain \/ Died
  BY <1>4, TerminateDied DEF CloseDb, Rowless
<1>5. ASSUME NEW c \in Callers, CallAddValue(c) \/ CallQuery(c) \/ CallerLock(c)
      PROVE  Plain
  BY <1>5 DEF CallAddValue, CallQuery, CallerLock, LockAddValue, LockQuery
<1>6. ASSUME NEW c \in Callers, CallerStep(c) PROVE Plain \/ Inserts(c) \/ Confused(c)
  <2>0. WriterOf[c] \in Conns /\ Sees(WriterOf[c]) \in Db
    BY OwedType, SeesType
  <2>1. CASE HaveColumn(c) \/ HaveTable(c) \/ PrepareInsert(c) \/ ExecQuery(c)
    BY <2>0, <2>1 DEF HaveColumn, HaveTable, PrepareInsert, ExecQuery, Rowless
  <2>2. CASE CreateTable(c) \/ AlterTable(c)
    <3>1. TableOf[arg[c].name] \in Tables /\ Head(todo[c]) \in Columns
      <4>1. arg[c].name \in Names /\ todo[c] \in Seq(Columns) /\ todo[c] # <<>>
        BY <2>2, CallFacts DEF CreateTable, AlterTable, TypeOK, CallTypeOK
      <4> QED
        BY <4>1
    <3>2. \/ UNCHANGED walVars
          \/ Write(WriterOf[c], ColumnAdded(Sees(WriterOf[c]),
                                            TableOf[arg[c].name], Head(todo[c])))
      BY <2>2 DEF CreateTable, AlterTable, ExecCreateTable, ExecAlterTable, ColumnRefused
    <3>3. /\ ColumnAdded(Sees(WriterOf[c]), TableOf[arg[c].name], Head(todo[c])) \in Db
          /\ Past(ColumnAdded(Sees(WriterOf[c]), TableOf[arg[c].name], Head(todo[c])))
               = Past(Sees(WriterOf[c]))
      BY <2>0, <3>1, ColumnAddedType DEF ColumnAdded, Db, Past
    <3>4. owed' = owed
      BY <2>2 DEF CreateTable, AlterTable
    <3> QED
      BY <2>0, <3>2, <3>3, <3>4 DEF Rowless
  <2>5. CASE ExecThrows(c) \/ BindRefused(c)
    BY <2>5 DEF ExecThrows, ColumnRefused, BindRefused
  <2>3. CASE ExecPrep(c) /\ StmtOf(c).kind # "insert"
    BY <2>3, <2>5 DEF ExecPrep, ExecForeign, Confused
  <2>4. CASE ExecPrep(c) /\ StmtOf(c).kind = "insert"
    <3>1. StmtOf(c) = InsertStmt(arg[c].sig, arg[c].replace) /\ pc[c] = "exec"
      BY <2>4 DEF ExecPrep, StmtInv, QueryStmt
    <3>2. \/ ExecInsert(c) \/ ExecBusy(c) \/ ExecMissing(c)
          \/ ExecRefused(c) \/ ExecConflict(c) \/ BindRefused(c)
      BY <2>4 DEF ExecPrep
    <3>3. CASE ExecInsert(c)
      BY <3>1, <3>3 DEF Inserts
    <3>4. CASE ExecBusy(c)
      BY <3>4 DEF ExecBusy
    <3>5. CASE ExecMissing(c) \/ ExecRefused(c) \/ ExecConflict(c)
      BY <2>0, <3>5 DEF ExecMissing, ExecRefused, ExecConflict, Rowless
    <3> QED
      BY <2>5, <3>2, <3>3, <3>4, <3>5
  <2> QED
    BY <1>6, <2>1, <2>2, <2>3, <2>4, <2>5 DEF CallerStep
<1>7. ASSUME UNCHANGED vars PROVE Plain
  BY <1>7 DEF vars
<1>8. ASSUME NEW w \in Conns, Crash(w) PROVE Died
  BY <1>8, TerminateDied DEF Crash
<1> HIDE DEF Plain
<1>9. ASSUME NEW w \in Conns, DestructorStep(w) PROVE Plain \/ Died
  BY <1>3, <1>4, <1>9 DEF DestructorStep
<1>10. Plain \/ (\E c \in Callers : Inserts(c) \/ Confused(c)) \/ Died
  BY <1>1, <1>2, <1>3, <1>5, <1>6, <1>7, <1>8, <1>9 DEF Next
<1> QED
  BY <1>10 DEF Plain

----------------------------------------------------------------------------
(***************************************************************************)
(* Where rows come from.  Those of the file are owed by some writer, and a *)
(* transaction adds to them only rows that its own writer owes.            *)
(***************************************************************************)
SourceInv ==
  /\ \A r \in Past(disk) : \E v \in Conns : r \in owed[v]
  /\ \A w \in Conns : Past(Sees(w)) \subseteq Past(disk) \cup owed[w]

(* A step of w on the file takes its rows from what was there, and new. *)
Draws(w, new) ==
  /\ Past(disk)' \subseteq Past(disk) \cup Past(Sees(w)) \cup new
  /\ \A v \in Conns \ {w} : Past(Sees(v))' \subseteq Past(Sees(v)) \cup Past(disk)'
  /\ Past(Sees(w))' \subseteq Past(Sees(w)) \cup Past(disk)' \cup new

LEMMA WriteDraws ==
  ASSUME WalTypeOK, NEW w \in Conns, NEW db \in Db, NEW new, Write(w, db),
         Past(db) \subseteq Past(Sees(w)) \cup new
  PROVE  Draws(w, new)
<1>0. view \in [Conns -> Db] /\ hold \in [Conns -> Holds]
  BY DEF WalTypeOK
<1>1. CASE intx[w]
  <2>1. disk' = disk /\ Sees(w)' = db /\ \A v \in Conns \ {w} : Sees(v)' = Sees(v)
    BY <1>0, <1>1 DEF Write, Sees
  <2> QED
    BY <2>1 DEF Draws, Past
<1>2. CASE ~intx[w]
  <2>1. /\ disk' = db /\ view' = view
        /\ \A v \in Conns : hold'[v] = "none" \/ hold[v] # "none"
        /\ hold'[w] = "none"
    BY <1>0, <1>2 DEF Write, Publish, Holds
  <2>2. Sees(w)' = disk' /\ \A v \in Conns : Sees(v)' \in {Sees(v), disk'}
    BY <2>1 DEF Sees
  <2> QED
    BY <2>1, <2>2 DEF Draws, Past
<1> QED
  BY <1>1, <1>2

LEMMA RowlessDraws ==
  ASSUME WalTypeOK, NEW w \in Conns, Rowless(w)
  PROVE  Draws(w, {})
<1>0. view \in [Conns -> Db] /\ hold \in [Conns -> Holds]
  BY DEF WalTypeOK
<1>1. CASE UNCHANGED walVars \/ Read(w) \/ ExecBegin(w)
  <2>1. disk' = disk /\ \A v \in Conns : Sees(v)' = Sees(v)
    BY <1>0, <1>1 DEF walVars, Read, ExecBegin, Sees
  <2> QED
    BY <2>1 DEF Draws, Past
<1>2. CASE ExecCommit(w) \/ Abandon(w)
  <2>1. disk' \in {disk, Sees(w)}
    BY <1>2 DEF ExecCommit, Publish, Abandon, Sees
  <2>2. \A v \in Conns : Sees(v)' \in {Sees(v), disk'}
    BY <1>0, <1>2 DEF ExecCommit, Publish, Abandon, Sees
  <2> QED
    BY <2>1, <2>2 DEF Draws, Past
<1>3. ASSUME NEW db \in Db, Write(w, db), Past(db) = Past(Sees(w))
      PROVE  Draws(w, {})
  BY <1>3, WriteDraws
<1> QED
  BY <1>1, <1>2, <1>3 DEF Rowless

LEMMA InsertDraws ==
  ASSUME TypeOK, NEW c \in Callers, Inserts(c)
  PROVE  Draws(WriterOf[c], {RowOf(c)})
<1> DEFINE w == WriterOf[c]
           db == Inserted(Sees(w), RowOf(c))
<1>0. /\ w \in Conns /\ WalTypeOK /\ Sees(w) \in Db /\ RowOf(c) \in Row
      /\ Write(w, db)
  BY SeesType, CallFacts DEF TypeOK, Inserts, ExecInsert
<1>1. db \in Db
  BY <1>0, InsertedType
<1>2. Past(db) \subseteq Past(Sees(w)) \cup {RowOf(c)}
  BY <1>0 DEF Inserted, Past, Conflicts, Db
<1> HIDE DEF db
<1> QED
  BY <1>0, <1>1, <1>2, WriteDraws

(* New rows that are owed at once, in a step that loses nothing, come from
   where they should. *)
LEMMA DrawsSource ==
  ASSUME SourceInv, Kept(disk, disk'), NEW w \in Conns, NEW new, Draws(w, new),
         new \subseteq owed'[w], \A v \in Conns : owed[v] \subseteq owed'[v]
  PROVE  SourceInv'
<1>1. Past(disk) \subseteq Past(disk')
  BY DEF Kept, Past
<1>2. \A r \in Past(disk') : \E v \in Conns : r \in owed'[v]
  BY DEF SourceInv, Draws, Past
<1>3. \A v \in Conns : Past(Sees(v)') \subseteq Past(disk') \cup owed'[v]
  BY <1>1 DEF SourceInv, Draws, Past
<1> QED
  BY <1>2, <1>3 DEF SourceInv, Past

LEMMA SourceStep ==
  ASSUME TypeOK, StmtInv, WalInv, TxInv, SourceInv, [Next]_vars
  PROVE  SourceInv'
<1>0. Kept(disk, disk') /\ WalTypeOK /\ owed \in [Conns -> SUBSET Row]
  BY WalStep, OwedType
<1>1. CASE owed' = owed /\ UNCHANGED walVars
  BY <1>1 DEF walVars, SourceInv, Past, Sees
<1>2. ASSUME NEW w \in Conns, Rowless(w), \A v \in Conns : owed[v] \subseteq owed'[v]
      PROVE  SourceInv'
  BY <1>0, <1>2, RowlessDraws, DrawsSource
<1>3. ASSUME NEW c \in Callers, Inserts(c) PROVE SourceInv'
  <2>1. WriterOf[c] \in Conns /\ owed' = [owed EXCEPT ![WriterOf[c]] = @ \cup {RowOf(c)}]
    BY <1>3 DEF Inserts, ExecInsert
  <2>2. Draws(WriterOf[c], {RowOf(c)})
    BY <1>3, InsertDraws
  <2> QED
    BY <1>0, <2>1, <2>2, DrawsSource
<1>4. ASSUME NEW c \in Callers, Confused(c) PROVE SourceInv'
  <2>1. /\ WriterOf[c] \in Conns /\ Rowless(WriterOf[c])
        /\ \A v \in Conns : owed[v] \subseteq owed'[v]
    BY <1>0, <1>4 DEF Confused, Rowless
  <2> QED
    BY <1>2, <2>1
<1>5. CASE Died
  <2>1. PICK w \in Conns :
          Abandon(w) /\ owed' = [owed EXCEPT ![w] = {r \in @ : Keeps(disk, r)}]
    BY <1>5 DEF Died
  <2>2. disk' = disk /\ Sees(w)' = disk /\ \A v \in Conns \ {w} : Sees(v)' = Sees(v)
    BY <1>0, <2>1 DEF Abandon, WalTypeOK, Sees
  <2>3. \A v \in Conns : \A r \in owed[v] :
          (v # w \/ r \in Past(disk)) => r \in owed'[v]
    BY <1>0, <2>1 DEF Keeps, Past
  <2> QED
    BY <2>2, <2>3 DEF SourceInv, Past
<1> QED
  BY <1>0, <1>1, <1>2, <1>3, <1>4, <1>5, RowStepKinds

(* A call that throws has stored nothing: every row that a writer sees was
   acknowledged, whatever the names, flags and metadata. *)
THEOREM StoredAreAcknowledged == Spec => []StoredRowsAcknowledged
<1>1. Init => SourceInv
  BY DEF Init, WalInit, EmptyDb, SourceInv, Past, Sees
<1>2. SourceInv => StoredRowsAcknowledged
  BY DEF SourceInv, StoredRowsAcknowledged, Past
<1> QED
  BY <1>1, <1>2, SourceStep, TypeCorrect, StmtInvariant, WalInvariant, TxInvariant, PTL
  DEF Spec

----------------------------------------------------------------------------
(***************************************************************************)
(* Every call that is under way has a number of its own, which no row      *)
(* anywhere in the file or in a transaction has.                           *)
(***************************************************************************)
FreshInv ==
  /\ \A r : Seen(r) => r.id <= calls
  /\ \A c \in Callers : arg[c].id <= calls
  /\ \A c \in Callers : pc[c] = "lock" \/ pc[c] \in Inside \ {"query"} => arg[c].id # 0
  /\ \A c, d \in Callers : c # d /\ arg[c].id = arg[d].id => arg[c].id = 0
  /\ \A c \in Callers : \A r : arg[c].id # 0 /\ Seen(r) => r.id # arg[c].id

LEMMA SeenType ==
  ASSUME WalTypeOK, NEW r, Seen(r)
  PROVE  r \in Row
BY DEF WalTypeOK, Db, Seen, Past

LEMMA RowlessSeen ==
  ASSUME WalTypeOK, NEW w \in Conns, Rowless(w), NEW r, Seen(r)'
  PROVE  Seen(r)
<1>0. view \in [Conns -> Db] /\ hold \in [Conns -> Holds]
  BY DEF WalTypeOK
<1>1. Past(EmptyDb) = {}
  BY DEF EmptyDb, Past
<1>2. CASE UNCHANGED walVars
  BY <1>2 DEF walVars, Seen
<1>3. CASE Read(w) \/ ExecBegin(w)
  BY <1>0, <1>3 DEF Read, ExecBegin, Seen
<1>4. CASE ExecCommit(w)
  BY <1>0, <1>1, <1>4 DEF ExecCommit, Publish, Seen
<1>5. CASE Abandon(w)
  BY <1>0, <1>1, <1>5 DEF Abandon, Seen
<1>6. ASSUME NEW db \in Db, Write(w, db), Past(db) = Past(Sees(w)) PROVE Seen(r)
  <2>1. disk' = disk \/ disk' = db
    BY <1>6 DEF Write, Publish
  <2>2. view' = view \/ view' = [view EXCEPT ![w] = db]
    BY <1>6 DEF Write
  <2>3. r \in Past(db) => Seen(r)
    BY <1>6, SeesPast
  <2> QED
    BY <1>0, <2>1, <2>2, <2>3 DEF Seen
<1> QED
  BY <1>2, <1>3, <1>4, <1>5, <1>6 DEF Rowless

LEMMA InsertSeen ==
  ASSUME TypeOK, NEW c \in Callers, Inserts(c), NEW r, Seen(r)'
  PROVE  Seen(r) \/ r = RowOf(c)
<1> DEFINE w == WriterOf[c]
           db == Inserted(Sees(w), RowOf(c))
<1>0. view \in [Conns -> Db] /\ w \in Conns /\ Sees(w) \in Db
  BY SeesType DEF TypeOK, WalTypeOK
<1>1. Write(w, db)
  BY DEF Inserts, ExecInsert
<1>2. r \in Past(db) => r \in Past(Sees(w)) \/ r = RowOf(c)
  BY <1>0 DEF Inserted, Past, Conflicts, Db
<1>3. r \in Past(db) => Seen(r) \/ r = RowOf(c)
  BY <1>0, <1>2, SeesPast
<1> HIDE DEF db, w
<1>4. /\ disk' = disk \/ disk' = db
      /\ view' = view \/ view' = [view EXCEPT ![w] = db]
  BY <1>1 DEF Write, Publish
<1> QED
  BY <1>0, <1>3, <1>4 DEF Seen

(* What becomes of the arguments of calls: they stay or go, or a call with the
   next number begins. *)
LEMMA ArgStep ==
  ASSUME TypeOK, [Next]_vars
  PROVE  \/ /\ calls' \in {calls, calls + 1}
            /\ \A c \in Callers :
                 \/ arg'[c] = NoArg /\ pc'[c] \in {"idle", "querylock", "query"}
                 \/ /\ arg'[c] = arg[c]
                    /\ \/ pc'[c] \in {"idle", "querylock", "query"}
                       \/ pc[c] = "lock" \/ pc[c] \in Inside \ {"query"}
         \/ /\ calls' = calls + 1
            /\ UNCHANGED walVars
            /\ \E c \in Callers :
                 /\ arg'[c].id = calls'
                 /\ \A d \in Callers \ {c} : arg'[d] = arg[d] /\ pc'[d] = pc[d]
<1> DEFINE Stay == /\ calls' \in {calls, calls + 1}
                   /\ \A c \in Callers :
                        \/ arg'[c] = NoArg /\ pc'[c] \in {"idle", "querylock", "query"}
                        \/ /\ arg'[c] = arg[c]
                           /\ \/ pc'[c] \in {"idle", "querylock", "query"}
                              \/ pc[c] = "lock" \/ pc[c] \in Inside \ {"query"}
           Begins == /\ calls' = calls + 1
                     /\ UNCHANGED walVars
                     /\ \E c \in Callers :
                          /\ arg'[c].id = calls'
                          /\ \A d \in Callers \ {c} : arg'[d] = arg[d] /\ pc'[d] = pc[d]
<1>0. /\ pc \in [Callers -> CallerPcs] /\ DOMAIN arg = Callers /\ calls \in Nat
      /\ \A c \in Callers : \/ pc[c] \in {"idle", "querylock", "query"}
                            \/ pc[c] = "lock" \/ pc[c] \in Inside \ {"query"}
  BY DEF TypeOK, CallTypeOK, CallerPcs, Inside
<1>1. ASSUME UNCHANGED <<pc, arg, calls>> PROVE Stay
  BY <1>0, <1>1
<1>2. ASSUME NEW w \in Conns, ProcessGone(w) PROVE Stay
  BY <1>0, <1>2 DEF ProcessGone
<1>3. ASSUME NEW c \in Callers, NEW how, Return(c, how) PROVE Stay
  BY <1>0, <1>3 DEF Return
<1>4. ASSUME NEW c \in Callers, NEW where, Goto(c, where),
             where = "query" \/ pc[c] \in {"lock"} \cup (Inside \ {"query"})
      PROVE  Stay
  BY <1>0, <1>4 DEF Goto
<1>5. ASSUME NEW w \in Conns,
             Open(w) \/ Destroy(w) \/ CheckQuit(w) \/ Wake(w) \/ LockCycle(w)
               \/ CycleBegin(w) \/ Join(w)
      PROVE  UNCHANGED <<pc, arg, calls>>
  BY <1>5 DEF Open, Destroy, CheckQuit, Wake, LockCycle, CycleBegin, Join, callVars
<1>6. ASSUME NEW w \in Conns, Crash(w) \/ CycleCommit(w) \/ CloseDb(w)
      PROVE  ProcessGone(w) \/ UNCHANGED <<pc, arg, calls>>
  BY <1>6 DEF Crash, CycleCommit, CloseDb, Terminate, callVars
<1>7. ASSUME NEW c \in Callers, CallAddValue(c) PROVE Stay \/ Begins
  <2>1. CASE UNCHANGED <<pc, arg>>
    BY <1>0, <1>7, <2>1 DEF CallAddValue
  <2>2. CASE ~UNCHANGED <<pc, arg>>
    <3>1. /\ \E nm \in Names, s \in Sigs, k \in Keys \cup {NoKey}, r \in BOOLEAN :
               arg' = [arg EXCEPT ![c] = [name |-> nm, sig |-> s, key |-> k,
                                          replace |-> r, id |-> calls + 1]]
          /\ pc' = [pc EXCEPT ![c] = "lock"]
      BY <1>7, <2>2, Zenon DEF CallAddValue
    <3>2. PICK nm \in Names, s \in Sigs, k \in Keys \cup {NoKey}, r \in BOOLEAN :
            arg' = [arg EXCEPT ![c] = [name |-> nm, sig |-> s, key |-> k,
                                       replace |-> r, id |-> calls + 1]]
      BY <3>1
    <3>3. /\ calls' = calls + 1
          /\ UNCHANGED walVars
      BY <1>7 DEF CallAddValue
    <3>4. /\ arg'[c].id = calls'
          /\ \A d \in Callers \ {c} : arg'[d] = arg[d] /\ pc'[d] = pc[d]
      BY <1>0, <3>1, <3>2, <3>3
    <3> QED
      BY <3>3, <3>4
  <2> QED
    BY <2>1, <2>2
<1>8. ASSUME NEW c \in Callers, CallQuery(c) PROVE Stay
  BY <1>0, <1>8 DEF CallQuery
<1>9. ASSUME NEW c \in Callers, CallerLock(c) \/ CallerStep(c) PROVE Stay
  <2>1. CASE LockAddValue(c) \/ LockQuery(c)
    BY <1>4, <2>1 DEF LockAddValue, LockQuery
  <2>2. CASE HaveColumn(c) \/ HaveTable(c)
    BY <1>1, <1>4, <2>2 DEF HaveColumn, HaveTable, Inside
  <2>3. CASE CreateTable(c) \/ AlterTable(c) \/ ExecThrows(c)
    BY <1>3, <1>4, <2>3
    DEF CreateTable, AlterTable, ExecThrows, ColumnMade, ColumnRefused, Inside
  <2>4. CASE PrepareInsert(c)
    BY <1>3, <1>4, <2>4 DEF PrepareInsert, Inside
  <2>5. CASE ExecPrep(c)
    BY <1>3, <2>5 DEF ExecPrep, ExecInsert, ExecBusy, ExecMissing, ExecRefused,
      ExecConflict, ExecForeign, BindRefused
  <2>6. CASE ExecQuery(c)
    BY <1>3, <2>6 DEF ExecQuery
  <2> QED
    BY <1>9, <2>1, <2>2, <2>3, <2>4, <2>5, <2>6 DEF CallerLock, CallerStep
<1>10. ASSUME UNCHANGED vars PROVE Stay
  BY <1>1, <1>10 DEF vars, callVars
<1> HIDE DEF Stay, Begins
<1>11. ASSUME NEW w \in Conns,
              Open(w) \/ Crash(w) \/ Destroy(w) \/ CommitThreadStep(w)
                \/ DestructorStep(w)
       PROVE  Stay
  BY <1>1, <1>2, <1>5, <1>6, <1>11 DEF CommitThreadStep, DestructorStep
<1>12. Stay \/ Begins
  BY <1>7, <1>8, <1>9, <1>10, <1>11 DEF Next
<1> QED
  BY <1>12 DEF Stay, Begins

(* The numbers stay fresh. *)
LEMMA FreshStep ==
  ASSUME TypeOK, StmtInv, FreshInv, [Next]_vars
  PROVE  FreshInv'
<1>0. /\ calls \in Nat /\ WalTypeOK /\ NoArg.id = 0
      /\ \A c \in Callers : arg[c].id \in Nat
  BY DEF TypeOK, CallTypeOK, NoArg, Args
<1>1. /\ \A r : Seen(r) => r.id <= calls
      /\ \A c \in Callers : arg[c].id <= calls
      /\ \A c \in Callers : pc[c] = "lock" \/ pc[c] \in Inside \ {"query"} =>
           arg[c].id # 0
      /\ \A c, d \in Callers : c # d /\ arg[c].id = arg[d].id => arg[c].id = 0
      /\ \A c \in Callers : \A r : arg[c].id # 0 /\ Seen(r) => r.id # arg[c].id
  BY DEF FreshInv
<1>2. CASE \E c \in Callers : Inserts(c)
  <2>1. PICK c \in Callers : Inserts(c)
    BY <1>2
  <2>2. pc[c] = "exec" /\ Return(c, "ok") /\ DOMAIN arg = Callers /\ DOMAIN pc = Callers
    BY <2>1 DEF Inserts, ExecInsert, TypeOK, CallTypeOK
  <2>3. /\ arg'[c] = NoArg /\ calls' = calls /\ pc'[c] = "idle"
        /\ \A d \in Callers \ {c} : arg'[d] = arg[d] /\ pc'[d] = pc[d]
    BY <2>2 DEF Return
  <2>4. RowOf(c).id = arg[c].id /\ arg[c].id # 0
    BY <1>1, <2>2 DEF RowOf, Inside
  <2>5. \A r : Seen(r)' => Seen(r) \/ r = RowOf(c)
    BY <2>1, InsertSeen
  <2>6. \A r : Seen(r)' => r.id <= calls'
    BY <1>1, <2>3, <2>4, <2>5
  <2>7. \A d \in Callers : \A r : arg'[d].id # 0 /\ Seen(r)' => r.id # arg'[d].id
    BY <1>0, <1>1, <2>3, <2>4, <2>5
  <2>8. \A d, e \in Callers : d # e /\ arg'[d].id = arg'[e].id => arg'[d].id = 0
    BY <1>0, <1>1, <2>3
  <2>9. \A d \in Callers : arg'[d].id <= calls'
    BY <1>0, <1>1, <2>3
  <2>10. \A d \in Callers : pc'[d] = "lock" \/ pc'[d] \in Inside \ {"query"} =>
           arg'[d].id # 0
    BY <1>1, <2>3 DEF Inside
  <2> QED
    BY <2>6, <2>7, <2>8, <2>9, <2>10 DEF FreshInv, Inside
<1>3. CASE ~\E c \in Callers : Inserts(c)
  <2>1. \A r : Seen(r)' => Seen(r)
    <3>1. UNCHANGED walVars \/ \E w \in Conns : Rowless(w)
      BY <1>3, RowStepKinds DEF Died, Confused, Rowless
    <3>2. ASSUME UNCHANGED walVars, NEW r, Seen(r)' PROVE Seen(r)
      BY <3>2 DEF walVars, Seen
    <3> QED
      BY <1>0, <3>1, <3>2, RowlessSeen
  <2>2. CASE /\ calls' \in {calls, calls + 1}
             /\ \A c \in Callers :
                  \/ arg'[c] = NoArg /\ pc'[c] \in {"idle", "querylock", "query"}
                  \/ /\ arg'[c] = arg[c]
                     /\ \/ pc'[c] \in {"idle", "querylock", "query"}
                        \/ pc[c] = "lock" \/ pc[c] \in Inside \ {"query"}
    <3>1. \A r : Seen(r)' => r.id <= calls'
      BY <1>0, <1>1, <2>1, <2>2, SeenType DEF Row
    <3>2. \A c \in Callers : arg'[c].id <= calls'
      BY <1>0, <1>1, <2>2
    <3>3. \A c \in Callers : pc'[c] = "lock" \/ pc'[c] \in Inside \ {"query"} =>
            arg'[c].id # 0
      BY <1>1, <2>2 DEF Inside
    <3>4. \A c, d \in Callers : c # d /\ arg'[c].id = arg'[d].id => arg'[c].id = 0
      BY <1>0, <1>1, <2>2
    <3>5. \A c \in Callers : \A r : arg'[c].id # 0 /\ Seen(r)' => r.id # arg'[c].id
      BY <1>0, <1>1, <2>1, <2>2
    <3> QED
      BY <3>1, <3>2, <3>3, <3>4, <3>5 DEF FreshInv, Inside
  <2>3. CASE /\ calls' = calls + 1
             /\ UNCHANGED walVars
             /\ \E c \in Callers :
                  /\ arg'[c].id = calls'
                  /\ \A d \in Callers \ {c} : arg'[d] = arg[d] /\ pc'[d] = pc[d]
    <3>1. PICK c \in Callers :
            /\ arg'[c].id = calls'
            /\ \A d \in Callers \ {c} : arg'[d] = arg[d] /\ pc'[d] = pc[d]
      BY <2>3
    <3>2. \A r : Seen(r)' => r.id <= calls' /\ r.id # calls'
      BY <1>0, <1>1, <2>1, <2>3, SeenType DEF Row
    <3>3. \A d \in Callers \ {c} : arg'[d].id <= calls' /\ arg'[d].id # calls'
      BY <1>0, <1>1, <2>3, <3>1
    <3>4. \A d \in Callers : pc'[d] = "lock" \/ pc'[d] \in Inside \ {"query"} =>
            arg'[d].id # 0
      BY <1>0, <1>1, <2>3, <3>1 DEF Inside
    <3>5. \A d, e \in Callers : d # e /\ arg'[d].id = arg'[e].id => arg'[d].id = 0
      BY <1>0, <1>1, <3>1, <3>3
    <3>6. \A d \in Callers : \A r : arg'[d].id # 0 /\ Seen(r)' => r.id # arg'[d].id
      BY <1>0, <1>1, <2>1, <3>1, <3>2
    <3>7. \A d \in Callers : arg'[d].id <= calls'
      BY <1>0, <2>3, <3>1, <3>3
    <3> QED
      BY <3>2, <3>4, <3>5, <3>6, <3>7 DEF FreshInv, Inside
  <2> QED
    BY <2>2, <2>3, ArgStep
<1> QED
  BY <1>2, <1>3

LEMMA FreshInvariant == Spec => []FreshInv
<1>1. Init => FreshInv
  BY DEF Init, WalInit, EmptyDb, NoArg, FreshInv, Seen, Past, Inside
<1> QED
  BY <1>1, FreshStep, TypeCorrect, StmtInvariant, PTL DEF Spec

----------------------------------------------------------------------------
(***************************************************************************)
(* The steps, as RowStore sees them.                                       *)
(***************************************************************************)

(* A new version of the file comes from whoever may have the write lock, and
   has all that its transaction wrote. *)
Publishes ==
  \/ disk' = disk
  \/ \E w \in Conns : LockFree(w) /\ (hold[w] = "write" => disk' = view[w])

LEMMA RowlessPublishes ==
  ASSUME WalTypeOK, WalInv, NEW w \in Conns, Rowless(w)
  PROVE  Publishes
<1>1. CASE ExecCommit(w)
  <2>1. hold[w] = "write" => LockFree(w) /\ disk' = view[w]
    BY <1>1 DEF ExecCommit, Publish, WalInv, LockFree
  <2>2. hold[w] # "write" => disk' = disk
    BY <1>1 DEF ExecCommit, Publish
  <2> QED
    BY <2>1, <2>2 DEF Publishes
<1>2. ASSUME NEW db, Write(w, db) PROVE Publishes
  <2>1. CASE intx[w]
    BY <1>2, <2>1 DEF Write, Publishes
  <2>2. CASE ~intx[w]
    BY <1>2, <2>2 DEF Write, MayWrite, WalInv, Publishes
  <2> QED
    BY <2>1, <2>2
<1> QED
  BY <1>1, <1>2 DEF Rowless, Read, ExecBegin, Abandon, walVars, Publishes

durableOf == [w \in Conns |-> Durable(w)]

(* With no new row, some writer commits all it owes or nothing happens. *)
LEMMA PublishStep ==
  ASSUME TypeOK, WalInv, AckInv, Kept(disk, disk'), owed' = owed, Publishes
  PROVE  UNCHANGED <<owed, durableOf>> \/ \E w \in Conns : Store!Commit(w)
<1>1. CASE disk' = disk
  BY <1>1 DEF durableOf, Durable
<1>2. ASSUME NEW w \in Conns, LockFree(w), hold[w] = "write" => disk' = view[w]
      PROVE  UNCHANGED <<owed, durableOf>> \/ Store!Commit(w)
  <2>1. \A v \in Conns : v # w \/ hold[w] # "write" =>
          \A r \in owed[v] : Keeps(disk, r) /\ Keeps(disk', r)
    BY <1>2 DEF AckInv, Safe, LockFree, Kept, Keeps
  <2>2. CASE hold[w] # "write"
    <3>1. \A v \in Conns : Durable(v) = owed[v] /\ Durable(v)' = owed[v]
      BY <2>1, <2>2 DEF Durable
    <3> QED
      BY <3>1 DEF durableOf
  <2>3. CASE hold[w] = "write"
    <3>1. \A r \in owed[w] : Keeps(disk', r)
      BY <1>2, <2>3 DEF AckInv, Safe, Sees
    <3>2. \A v \in Conns : Durable(v)' = IF v = w THEN owed[v] ELSE Durable(v)
      BY <2>1, <3>1 DEF Durable
    <3>3. durableOf' = [durableOf EXCEPT ![w] = owed[w]]
      BY <3>2 DEF durableOf
    <3> QED
      BY <3>3 DEF Store!Commit, durableOf
  <2> QED
    BY <2>2, <2>3
<1> QED
  BY <1>1, <1>2 DEF Publishes

(* The row of a call is accepted. *)
LEMMA InsertAccepts ==
  ASSUME TypeOK, MutexInv, WalInv, TxInv, OpenInv, AckInv, FreshInv, Kept(disk, disk'),
         NEW c \in Callers, Inserts(c), AckInv'
  PROVE  Store!Accept(WriterOf[c])
<1> DEFINE w == WriterOf[c]
           r == RowOf(c)
<1>0. /\ w \in Conns /\ owed \in [Conns -> SUBSET Row] /\ WalTypeOK
      /\ Write(w, Inserted(Sees(w), r))
      /\ owed' = [owed EXCEPT ![w] = @ \cup {r}]
      /\ pc[c] = "exec"
  BY DEF TypeOK, Inserts, ExecInsert
<1>1. ~Keeps(disk, r)
  BY <1>0 DEF FreshInv, Inside, RowOf, Seen, Past, Keeps
<1>2. Transactional(w) <=> intx[w]
  BY <1>0 DEF MutexInv, InsideThread, Inside, TxInv, OpenInv
<1>3. durableOf' = [durableOf EXCEPT ![w] = IF Transactional(w) THEN @ ELSE owed'[w]]
  <2>1. CASE intx[w]
    <3>1. disk' = disk
      BY <1>0, <2>1 DEF Write
    <3>2. \A v \in Conns : Durable(v)' = Durable(v)
      BY <1>0, <1>1, <3>1 DEF Durable
    <3> QED
      BY <1>2, <2>1, <3>2 DEF durableOf
  <2>2. CASE ~intx[w]
    <3>1. LockFree(w) /\ hold[w] = "none"
      BY <1>0, <2>2 DEF Write, MayWrite, WalInv
    <3>2. \A v \in Conns \ {w} : Durable(v)' = Durable(v)
      BY <1>0, <3>1 DEF LockFree, AckInv, Safe, Kept, Keeps, Durable
    <3>3. hold'[w] = "none"
      BY <1>0, <2>2 DEF Write, Publish
    <3>4. Durable(w)' = owed'[w]
      BY <3>3 DEF AckInv, Safe, Durable
    <3> QED
      BY <1>2, <2>2, <3>2, <3>4 DEF durableOf
  <2> QED
    BY <2>1, <2>2 DEF TypeOK
<1>4. r \in owed'[w]
  BY <1>0
<1> HIDE DEF w, r
<1>5. Store!Accept(w)
  BY <1>0, <1>3, <1>4 DEF Store!Accept, durableOf
<1> QED
  BY <1>5 DEF w

(* A death takes the rows the file does not keep. *)
LEMMA DiedDies ==
  ASSUME TypeOK, Died
  PROVE  \E w \in Conns : Store!Die(w)
<1>1. PICK w \in Conns :
        Abandon(w) /\ owed' = [owed EXCEPT ![w] = {r \in @ : Keeps(disk, r)}]
  BY DEF Died
<1>2. owed \in [Conns -> SUBSET Row] /\ disk' = disk
  BY <1>1 DEF TypeOK, Abandon
<1>3. owed' = [owed EXCEPT ![w] = Durable(w)]
  BY <1>1 DEF Durable
<1>4. \A v \in Conns : Durable(v)' = Durable(v)
  BY <1>2, <1>3 DEF Durable
<1> QED
  BY <1>3, <1>4 DEF Store!Die

(* The writers implement RowStore, provided no table has the empty name and no
   column's metadata says ON CONFLICT ROLLBACK. *)
THEOREM RowStoreImplemented ==
  ASSUME NoName \notin Names, OnConflict = "ABORT"
  PROVE  Spec => ImplementsRowStore
<1>1. Init => Store!Init
  BY DEF Init, Store!Init, Durable
<1>2. ASSUME TypeOK, MutexInv, StmtInv, WalInv, TxInv, OpenInv, AckInv, FreshInv,
             [Next]_vars
      PROVE  [Store!Next]_<<owed, durableOf>>
  <2>1. Kept(disk, disk') /\ AckInv'
    BY <1>2, WalStep, AckStep
  <2>2. CASE owed' = owed /\ (UNCHANGED walVars \/ \E w \in Conns : Rowless(w))
    <3>1. Publishes
      BY <1>2, <2>2, RowlessPublishes, OwedType DEF Publishes, walVars
    <3> QED
      BY <1>2, <2>1, <2>2, <3>1, PublishStep DEF Store!Next
  <2>3. ASSUME NEW c \in Callers, Inserts(c) PROVE Store!Next
    BY <1>2, <2>1, <2>3, InsertAccepts DEF Store!Next
  <2>4. CASE Died
    BY <1>2, <2>4, DiedDies DEF Store!Next
  <2> QED
    BY <1>2, <2>2, <2>3, <2>4, RowStepKinds, ConfusedNot
<1> QED
  BY <1>1, <1>2, TypeCorrect, MutexInvariant, StmtInvariant, WalInvariant,
    TxInvariant, OpenInvariant, AckInvariant, FreshInvariant, PTL
  DEF Spec, ImplementsRowStore, Store!Spec, durableOf
=============================================================================
