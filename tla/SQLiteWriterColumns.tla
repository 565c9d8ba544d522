------------------------ MODULE SQLiteWriterColumns ------------------------
(***************************************************************************)
(* Theorems about columns: what a writer that batches remembers of a       *)
(* table's columns is true of the table, for any number of writers.        *)
(***************************************************************************)
EXTENDS SQLiteWriterProofs

USE NamesAssumption, WriterAssumption

----------------------------------------------------------------------------
(***************************************************************************)
(* Tables only ever get more columns.  A snapshot that others have written *)
(* past has no column the file does not have, and the owner of the write   *)
(* lock sees all those of the file.                                        *)
(***************************************************************************)
Wider(old, new) == \A t \in Tables : old.schema[t] \subseteq new.schema[t]

SchemaInv ==
  /\ \A c \in Conns : hold[c] = "stale" => Wider(view[c], disk)
  /\ \A c \in Conns : hold[c] = "write" => Wider(disk, view[c])

(* What a step on the connection w leaves to the others: no column they see
   goes away, and what their transactions hold they go on holding. *)
Spares(w) ==
  /\ SchemaInv'
  /\ \A d \in Conns \ {w} :
       /\ Wider(Sees(d), Sees(d)')
       /\ hold[d] # "none" => hold'[d] # "none" /\ view'[d] = view[d]

(* ... and when none goes away for w either. *)
Grows(w) == Spares(w) /\ Wider(Sees(w), Sees(w)')

LEMMA WiderSame ==
  ASSUME NEW db
  PROVE  Wider(db, db)
BY DEF Wider

LEMMA WiderTransitive ==
  ASSUME NEW a, NEW b, NEW c, Wider(a, b), Wider(b, c)
  PROVE  Wider(a, c)
BY DEF Wider

LEMMA UnchangedGrows ==
  ASSUME SchemaInv, UNCHANGED walVars
  PROVE  \A w \in Conns : Grows(w)
BY DEF SchemaInv, Grows, Spares, Wider, Sees, walVars

LEMMA ExecBeginGrows ==
  ASSUME SchemaInv, NEW w \in Conns, ExecBegin(w)
  PROVE  Grows(w)
BY DEF SchemaInv, Grows, Spares, Wider, Sees, ExecBegin

LEMMA ReadGrows ==
  ASSUME WalTypeOK, SchemaInv, NEW w \in Conns, Read(w)
  PROVE  Grows(w) /\ Sees(w)' = Sees(w)
<1>1. \A d \in Conns : Sees(d)' = Sees(d)
  BY DEF WalTypeOK, Read, Sees
<1>2. SchemaInv'
  BY DEF WalTypeOK, Read, SchemaInv, Wider
<1>3. \A d \in Conns \ {w} : hold'[d] = hold[d] /\ view'[d] = view[d]
  BY DEF WalTypeOK, Read
<1> QED
  BY <1>1, <1>2, <1>3, WiderSame DEF Grows, Spares

LEMMA PublishSpares ==
  ASSUME WalTypeOK, WalInv, SchemaInv, NEW w \in Conns, NEW db \in Db,
         Publish(w, db), Wider(disk, db), db = disk \/ LockFree(w),
         \A d \in Conns \ {w} : view'[d] = view[d]
  PROVE  Spares(w) /\ Sees(w)' = db
<1>1. disk' = db /\ hold'[w] = "none"
  BY DEF WalTypeOK, Publish
<1>2. \A d \in Conns \ {w} :
        \/ hold'[d] = hold[d] /\ (hold[d] = "read" => db = disk)
        \/ hold[d] = "read" /\ hold'[d] = "stale"
  BY DEF Publish
<1>3. \A d \in Conns \ {w} : hold[d] = "write" => db = disk
  BY DEF LockFree
<1>4. \A d \in Conns \ {w} : hold'[d] = "write" => Wider(disk', view'[d])
  BY <1>1, <1>2, <1>3 DEF SchemaInv
<1>5. \A d \in Conns \ {w} : hold'[d] = "stale" => Wider(view'[d], disk')
  BY <1>1, <1>2, WiderTransitive DEF SchemaInv, WalInv
<1>6. SchemaInv'
  BY <1>1, <1>4, <1>5 DEF SchemaInv
<1>7. ASSUME NEW d \in Conns \ {w} PROVE Wider(Sees(d), Sees(d)')
  <2>1. CASE hold[d] = "none"
    BY <1>1, <1>2, <2>1 DEF Sees
  <2>2. CASE hold[d] # "none"
    BY <1>2, <2>2, WiderSame DEF Sees
  <2> QED
    BY <2>1, <2>2
<1> QED
  BY <1>1, <1>2, <1>6, <1>7 DEF Spares, Sees

LEMMA WriteGrows ==
  ASSUME WalTypeOK, WalInv, SchemaInv, NEW w \in Conns, NEW db \in Db,
         Write(w, db), Wider(Sees(w), db)
  PROVE  Grows(w) /\ Sees(w)' = db
<1>1. Wider(disk, Sees(w))
  BY WiderSame DEF WalInv, SchemaInv, Write, MayWrite, Sees
<1>2. Wider(disk, db)
  BY <1>1, WiderTransitive
<1>3. CASE intx[w]
  <2>1. /\ view' = [view EXCEPT ![w] = db]
        /\ hold' = [hold EXCEPT ![w] = "write"]
        /\ UNCHANGED disk
    BY <1>3 DEF Write
  <2>2. SchemaInv'
    BY <1>2, <2>1 DEF WalTypeOK, SchemaInv, Wider
  <2>3. Sees(w)' = db /\ \A d \in Conns \ {w} : /\ Sees(d)' = Sees(d)
                                                /\ hold'[d] = hold[d]
                                                /\ view'[d] = view[d]
    BY <2>1 DEF WalTypeOK, Sees
  <2> QED
    BY <2>2, <2>3, WiderSame DEF Grows, Spares
<1>4. CASE ~intx[w]
  <2>1. Publish(w, db) /\ UNCHANGED <<view, intx>> /\ LockFree(w)
    BY <1>4 DEF Write, MayWrite, WalInv
  <2>2. Spares(w) /\ Sees(w)' = db
    BY <1>2, <2>1, PublishSpares
  <2> QED
    BY <2>2 DEF Grows
<1> QED
  BY <1>3, <1>4 DEF WalTypeOK

LEMMA ExecCommitGrows ==
  ASSUME WalTypeOK, WalInv, SchemaInv, NEW w \in Conns, ExecCommit(w)
  PROVE  Grows(w)
<1> DEFINE db == IF hold[w] = "write" THEN view[w] ELSE disk
<1>1. db \in Db /\ Wider(disk, db)
  BY WiderSame DEF WalTypeOK, SchemaInv
<1>2. db = disk \/ LockFree(w)
  BY DEF WalInv, LockFree
<1>3. Publish(w, db) /\ \A d \in Conns \ {w} : view'[d] = view[d]
  BY DEF ExecCommit, WalTypeOK
<1>4. Wider(Sees(w), db)
  BY WiderSame DEF Sees, WalTypeOK, Holds, WalInv, SchemaInv
<1>5. Spares(w) /\ Sees(w)' = db
  <2> HIDE DEF db
  <2> QED
    BY <1>1, <1>2, <1>3, PublishSpares
<1> QED
  BY <1>4, <1>5 DEF Grows

LEMMA AbandonSpares ==
  ASSUME WalTypeOK, SchemaInv, NEW w \in Conns, Abandon(w)
  PROVE  Spares(w)
<1>1. SchemaInv'
  BY DEF WalTypeOK, SchemaInv, Wider, Abandon
<1>2. \A d \in Conns \ {w} : /\ Sees(d)' = Sees(d) /\ hold'[d] = hold[d]
                             /\ view'[d] = view[d]
  BY DEF WalTypeOK, Abandon, Sees
<1> QED
  BY <1>1, <1>2, WiderSame DEF Spares

(* The statements of the program that write leave the columns, or add one. *)
LEMMA ColumnAddedWider ==
  ASSUME NEW db \in Db, NEW t \in Tables, NEW x \in Columns
  PROVE  Wider(db, ColumnAdded(db, t, x)) /\ x \in ColumnAdded(db, t, x).schema[t]
BY DEF ColumnAdded, Db, Wider

LEMMA InsertedWider ==
  ASSUME NEW db \in Db, NEW r \in Row
  PROVE  Wider(db, Inserted(db, r))
BY DEF Inserted, Db, Wider

----------------------------------------------------------------------------
(***************************************************************************)
(* The cache.  A call that found no table looks at a snapshot that shows   *)
(* it none until it has made the table, so CREATE TABLE makes its column;  *)
(* if its writer has a transaction to keep that snapshot.                  *)
(***************************************************************************)
Adding(c) == pc[c] \notin {"idle", "querylock", "query"}

Steady(w) == Flag[w] # "NoTransactions"

CacheInv ==
  /\ BatchersCacheSound
  /\ \A c \in Callers : Adding(c) => Flag[WriterOf[c]] # "ReadOnly"
  /\ \A c \in Callers : pc[c] = "create" /\ Steady(WriterOf[c]) =>
       hold[WriterOf[c]] # "none" /\ ~haveTable(WriterOf[c], arg[c].name)

LEMMA CacheInit == Init => CacheInv
<1> SUFFICES ASSUME Init PROVE CacheInv
  OBVIOUS
<1>1. \A w \in Conns, nm \in Names : columns[w][nm] = {}
  BY DEF Init, NoColumns
<1>2. \A c \in Callers : pc[c] = "idle"
  BY DEF Init
<1> QED
  BY <1>1, <1>2 DEF CacheInv, BatchersCacheSound, Adding

(* What was cached of a table is still there when a table grows. *)
LEMMA WiderCache ==
  ASSUME TypeOK, NEW v \in Conns, NEW nm \in Names, NEW S,
         S \subseteq Schema(v, nm), Wider(Sees(v), Sees(v)')
  PROVE  S \subseteq Schema(v, nm)'
<1>1. TableOf[nm] \in Tables
  OBVIOUS
<1>2. Schema(v, nm) = Sees(v).schema[TableOf[nm]]
      /\ Schema(v, nm)' = Sees(v)'.schema[TableOf[nm]]
  BY DEF Schema
<1> QED
  BY <1>1, <1>2 DEF Wider

(* Another connection's step leaves a call what it has found out. *)
LEMMA SparesCreate ==
  ASSUME NEW w \in Conns, Spares(w), NEW v \in Conns \ {w}, NEW nm \in Names,
         hold[v] # "none", ~haveTable(v, nm)
  PROVE  hold'[v] # "none" /\ ~haveTable(v, nm)'
BY DEF Spares, haveTable, Schema, Sees

(* A step that caches nothing, and takes no call to CREATE TABLE. *)
LEMMA CacheKept ==
  ASSUME TypeOK, CacheInv, NEW w \in Conns, Grows(w), UNCHANGED columns,
         \A c \in Callers : Adding(c)' => Adding(c),
         \A c \in Callers : pc'[c] = "create" =>
           /\ pc[c] = "create" /\ arg'[c] = arg[c]
           /\ UNCHANGED walVars \/ WriterOf[c] # w
  PROVE  CacheInv'
<1>1. \A v \in Conns : Wider(Sees(v), Sees(v)')
  BY DEF Grows, Spares
<1>2. BatchersCacheSound'
  BY <1>1, WiderCache DEF CacheInv, BatchersCacheSound
<1>3. \A c \in Callers : Adding(c)' => Flag[WriterOf[c]] # "ReadOnly"
  BY DEF CacheInv
<1>4. ASSUME NEW c \in Callers, pc'[c] = "create", Steady(WriterOf[c])
      PROVE  hold'[WriterOf[c]] # "none" /\ ~haveTable(WriterOf[c], arg[c].name)'
  <2>1. /\ pc[c] = "create" /\ arg'[c] = arg[c] /\ arg[c].name \in Names
        /\ WriterOf[c] \in Conns /\ hold[WriterOf[c]] # "none"
        /\ ~haveTable(WriterOf[c], arg[c].name)
    BY <1>4, CallFacts DEF CacheInv
  <2>2. CASE UNCHANGED walVars
    BY <2>1, <2>2 DEF haveTable, Schema, Sees, walVars
  <2>3. CASE WriterOf[c] # w
    <3>1. \A nm \in Names : ~haveTable(WriterOf[c], nm) =>
            hold'[WriterOf[c]] # "none" /\ ~haveTable(WriterOf[c], nm)'
      BY <2>1, <2>3, SparesCreate DEF Grows
    <3> QED
      BY <2>1, <3>1 DEF haveTable, Schema
  <2> QED
    BY <1>4, <2>2, <2>3
<1> QED
  BY <1>2, <1>3, <1>4 DEF CacheInv, Steady

(* A process that is gone has no cache and no calls. *)
LEMMA CacheGone ==
  ASSUME TypeOK, CacheInv, NEW w \in Conns, ProcessGone(w), Spares(w)
  PROVE  CacheInv'
<1>1. /\ columns'[w] = NoColumns
      /\ \A v \in Conns \ {w} : columns'[v] = columns[v]
      /\ \A c \in Callers : WriterOf[c] = w => pc'[c] = "idle"
      /\ \A c \in Callers : WriterOf[c] # w => pc'[c] = pc[c] /\ arg'[c] = arg[c]
  BY DEF ProcessGone, TypeOK, CacheTypeOK
<1>2. \A nm \in Names : columns'[w][nm] = {}
  BY <1>1 DEF NoColumns
<1>3. ASSUME NEW v \in Conns, NEW nm \in Names, Steady(v)
      PROVE  columns'[v][nm] \subseteq Schema(v, nm)'
  <2>1. CASE v = w
    BY <1>2, <2>1
  <2>2. CASE v # w
    <3>1. columns[v][nm] \subseteq Schema(v, nm)'
      BY <1>3, <2>2, WiderCache DEF CacheInv, BatchersCacheSound, Steady, Spares
    <3> QED
      BY <1>1, <2>2, <3>1
  <2> QED
    BY <2>1, <2>2
<1>4. \A c \in Callers : Adding(c)' => Flag[WriterOf[c]] # "ReadOnly"
  BY <1>1 DEF CacheInv, Adding
<1>5. ASSUME NEW c \in Callers, pc'[c] = "create", Steady(WriterOf[c])
      PROVE  hold'[WriterOf[c]] # "none" /\ ~haveTable(WriterOf[c], arg[c].name)'
  <2>1. /\ WriterOf[c] # w /\ pc[c] = "create" /\ arg'[c] = arg[c]
        /\ arg[c].name \in Names
        /\ WriterOf[c] \in Conns /\ hold[WriterOf[c]] # "none"
        /\ ~haveTable(WriterOf[c], arg[c].name)
    BY <1>1, <1>5, CallFacts DEF CacheInv
  <2>2. \A nm \in Names : ~haveTable(WriterOf[c], nm) =>
          hold'[WriterOf[c]] # "none" /\ ~haveTable(WriterOf[c], nm)'
    BY <2>1, SparesCreate
  <2> QED
    BY <2>1, <2>2 DEF haveTable, Schema
<1> QED
  BY <1>3, <1>4, <1>5 DEF CacheInv, BatchersCacheSound, Steady

(* The steps of a call that has the mutex.  No other call of its writer is in
   CREATE TABLE meanwhile. *)
LEMMA AloneCreates ==
  ASSUME MutexInv, NEW c \in Callers, pc[c] \in Inside, NEW d \in Callers,
         pc[d] = "create", d # c
  PROVE  WriterOf[d] # WriterOf[c]
BY DEF MutexInv, Inside

(* A step that stores columns in the cache, after which they are there. *)
LEMMA CacheFilled ==
  ASSUME TypeOK, MutexInv, CacheInv, NEW c \in Callers, pc[c] \in Inside, Adding(c),
         Grows(WriterOf[c]), NEW S, NEW nm \in Names,
         columns' = [columns EXCEPT ![WriterOf[c]][nm] = S],
         Steady(WriterOf[c]) => S \subseteq Schema(WriterOf[c], nm)',
         \A d \in Callers \ {c} : pc'[d] = pc[d],
         arg' = arg, pc'[c] # "create"
  PROVE  CacheInv'
<1> DEFINE w == WriterOf[c]
<1>0. w \in Conns
  OBVIOUS
<1>1. \A v \in Conns : Wider(Sees(v), Sees(v)')
  BY DEF Grows, Spares
<1>2. ASSUME NEW v \in Conns, NEW x \in Names, Steady(v)
      PROVE  columns'[v][x] \subseteq Schema(v, x)'
  <2>1. columns[v][x] \subseteq Schema(v, x)'
    BY <1>1, <1>2, WiderCache DEF CacheInv, BatchersCacheSound, Steady
  <2>2. columns'[v][x] = IF v = w /\ x = nm THEN S ELSE columns[v][x]
    BY DEF TypeOK, CacheTypeOK
  <2>3. v = w /\ x = nm => S \subseteq Schema(v, x)'
    BY <1>2
  <2> QED
    BY <2>1, <2>2, <2>3
<1>3. \A d \in Callers : Adding(d)' => Flag[WriterOf[d]] # "ReadOnly"
  BY DEF CacheInv, Adding
<1>4. ASSUME NEW d \in Callers, pc'[d] = "create", Steady(WriterOf[d])
      PROVE  hold'[WriterOf[d]] # "none" /\ ~haveTable(WriterOf[d], arg[d].name)'
  <2>1. /\ d # c /\ pc[d] = "create" /\ WriterOf[d] \in Conns \ {w}
        /\ arg'[d] = arg[d] /\ arg[d].name \in Names
        /\ hold[WriterOf[d]] # "none" /\ ~haveTable(WriterOf[d], arg[d].name)
    BY <1>4, AloneCreates, CallFacts DEF CacheInv
  <2>2. \A x \in Names : ~haveTable(WriterOf[d], x) =>
          hold'[WriterOf[d]] # "none" /\ ~haveTable(WriterOf[d], x)'
    BY <1>0, <2>1, SparesCreate DEF Grows
  <2> QED
    BY <2>1, <2>2 DEF haveTable, Schema
<1> QED
  BY <1>2, <1>3, <1>4 DEF CacheInv, BatchersCacheSound, Steady

LEMMA HaveColumnCache ==
  ASSUME TypeOK, MutexInv, SchemaInv, CacheInv, NEW c \in Callers, HaveColumn(c)
  PROVE  CacheInv' /\ SchemaInv'
<1> DEFINE w == WriterOf[c]
           nm == arg[c].name
<1>1. /\ pc[c] = "columns" /\ pc[c] \in Inside /\ Adding(c)
      /\ w \in Conns /\ nm \in Names /\ WalTypeOK
  BY CallFacts, OwedType DEF HaveColumn, Inside, Adding
<1>2. Grows(w)
  BY <1>1, ReadGrows, UnchangedGrows DEF HaveColumn
<1>3. /\ columns' = [columns EXCEPT ![w][nm] = Known(c)]
      /\ arg' = arg
      /\ pc' = pc \/ pc' = [pc EXCEPT ![c] = "haveTable"]
  BY DEF HaveColumn, Goto
<1>4. Steady(w) => Known(c) \subseteq Schema(w, nm)
  BY <1>1 DEF Known, CacheInv, BatchersCacheSound, Steady
<1>5. pc \in [Callers -> CallerPcs]
  BY DEF TypeOK, CallTypeOK
<1>6. pc'[c] # "create" /\ \A d \in Callers \ {c} : pc'[d] = pc[d]
  BY <1>1, <1>3, <1>5
<1> HIDE DEF w, nm
<1>7. \A x \in Names : Known(c) \subseteq Schema(w, x) => Known(c) \subseteq Schema(w, x)'
  <2>1. Wider(Sees(w), Sees(w)')
    BY <1>2 DEF Grows
  <2> QED
    BY <1>1, <2>1, WiderCache
<1>8. \A x \in Names : x = nm /\ Steady(w) => Known(c) \subseteq Schema(w, x)'
  BY <1>4, <1>7
<1>9. PICK x \in Names : x = nm
  BY <1>1
<1>10. CacheInv'
  BY <1>1, <1>2, <1>3, <1>6, <1>8, <1>9, CacheFilled DEF w
<1> QED
  BY <1>2, <1>10 DEF Grows, Spares

(* A call that works on the connection of a batching writer is in its
   transaction. *)
LEMMA InTransaction ==
  ASSUME MutexInv, OpenInv, CacheInv, NEW c \in Callers, pc[c] \in Inside, Adding(c),
         Steady(WriterOf[c])
  PROVE  intx[WriterOf[c]]
<1>1. /\ WriterOf[c] \in Conns /\ phase[WriterOf[c]] = "open"
      /\ mutex[WriterOf[c]] = c /\ Transactional(WriterOf[c])
  BY DEF MutexInv, CacheInv, Inside, Steady, Transactional
<1>2. tpc[WriterOf[c]] # "begin"
  BY <1>1 DEF MutexInv, InsideThread
<1> QED
  BY <1>1, <1>2 DEF OpenInv

LEMMA HaveTableCache ==
  ASSUME TypeOK, MutexInv, OpenInv, SchemaInv, CacheInv, NEW c \in Callers, HaveTable(c)
  PROVE  CacheInv' /\ SchemaInv'
<1> DEFINE w == WriterOf[c]
<1>1. /\ pc[c] = "haveTable" /\ pc[c] \in Inside /\ Adding(c)
      /\ w \in Conns /\ arg[c].name \in Names /\ WalTypeOK
  BY CallFacts, OwedType DEF HaveTable, Inside, Adding
<1>2. Grows(w) /\ Sees(w)' = Sees(w)
  BY <1>1, ReadGrows DEF HaveTable
<1>3. /\ UNCHANGED <<columns, arg>>
      /\ pc' = [pc EXCEPT ![c] = IF haveTable(w, arg[c].name) THEN "alter" ELSE "create"]
  BY DEF HaveTable, Goto, cacheVars
<1>4. pc \in [Callers -> CallerPcs]
  BY DEF TypeOK, CallTypeOK
<1>5. Steady(w) => hold'[w] # "none"
  BY <1>1, InTransaction DEF HaveTable, Read, WalTypeOK
<1>6. BatchersCacheSound'
  <2>1. \A v \in Conns : Wider(Sees(v), Sees(v)')
    BY <1>2 DEF Grows, Spares
  <2> QED
    BY <1>3, <2>1, WiderCache DEF CacheInv, BatchersCacheSound
<1>7. \A d \in Callers : Adding(d)' => Flag[WriterOf[d]] # "ReadOnly"
  BY <1>1, <1>3, <1>4 DEF CacheInv, Adding
<1>8. ASSUME NEW d \in Callers, pc'[d] = "create", Steady(WriterOf[d])
      PROVE  hold'[WriterOf[d]] # "none" /\ ~haveTable(WriterOf[d], arg[d].name)'
  <2>1. CASE d = c
    <3>1. ~haveTable(w, arg[c].name)
      BY <1>3, <1>4, <1>8, <2>1
    <3>2. haveTable(w, arg[c].name)' <=> haveTable(w, arg[c].name)
      BY <1>2, <1>3 DEF haveTable, Schema
    <3> QED
      BY <1>5, <1>8, <2>1, <3>1, <3>2
  <2>2. CASE d # c
    <3>1. /\ pc[d] = "create" /\ WriterOf[d] \in Conns \ {w}
          /\ arg'[d] = arg[d] /\ arg[d].name \in Names
          /\ hold[WriterOf[d]] # "none" /\ ~haveTable(WriterOf[d], arg[d].name)
      BY <1>1, <1>3, <1>4, <1>8, <2>2, AloneCreates, CallFacts DEF CacheInv
    <3>2. \A x \in Names : ~haveTable(WriterOf[d], x) =>
            hold'[WriterOf[d]] # "none" /\ ~haveTable(WriterOf[d], x)'
      BY <1>1, <1>2, <3>1, SparesCreate DEF Grows
    <3> QED
      BY <3>1, <3>2 DEF haveTable, Schema
  <2> QED
    BY <2>1, <2>2
<1>9. CacheInv'
  BY <1>6, <1>7, <1>8 DEF CacheInv, Steady
<1> QED
  BY <1>2, <1>9 DEF Grows, Spares

LEMMA AddColumnCache ==
  ASSUME TypeOK, MutexInv, WalInv, SchemaInv, CacheInv,
         NEW c \in Callers, CreateTable(c) \/ AlterTable(c)
  PROVE  CacheInv' /\ SchemaInv'
<1> DEFINE w == WriterOf[c]
           nm == arg[c].name
           x == Head(todo[c])
           t == TableOf[nm]
<1>1. /\ pc[c] \in {"create", "alter"} /\ pc[c] \in Inside /\ Adding(c)
      /\ w \in Conns /\ nm \in Names /\ t \in Tables /\ WalTypeOK /\ Sees(w) \in Db
  BY CallFacts, OwedType DEF CreateTable, AlterTable, Inside, Adding
<1>2. x \in Columns
  <2>1. todo[c] \in Seq(Columns) /\ todo[c] # <<>>
    BY <1>1 DEF TypeOK, CallTypeOK
  <2> QED
    BY <2>1
<1>3. pc \in [Callers -> CallerPcs] /\ DOMAIN arg = Callers
  BY DEF TypeOK, CallTypeOK
<1>4. ASSUME Grows(w), Steady(w) => x \in Sees(w)'.schema[t], ColumnMade(c)
      PROVE  CacheInv' /\ SchemaInv'
  <2>1. /\ columns' = [columns EXCEPT ![w][nm] = columns[w][nm] \cup {x}]
        /\ arg' = arg /\ pc' = [pc EXCEPT ![c] = "columns"]
    BY <1>4 DEF ColumnMade, Goto
  <2>2. pc'[c] # "create" /\ \A d \in Callers \ {c} : pc'[d] = pc[d]
    BY <1>3, <2>1
  <2> DEFINE S == columns[w][nm] \cup {x}
  <2>3. Steady(w) => columns[w][nm] \subseteq Schema(w, nm)
    BY <1>1 DEF CacheInv, BatchersCacheSound, Steady
  <2>4. ASSUME NEW y \in Names, y = nm, Steady(w) PROVE S \subseteq Schema(w, y)'
    <3>1. columns[w][y] \subseteq Schema(w, y)'
      BY <1>1, <1>4, <2>3, <2>4, WiderCache DEF Grows
    <3>2. x \in Schema(w, y)'
      BY <1>4, <2>4 DEF Schema
    <3> QED
      BY <2>4, <3>1, <3>2
  <2> HIDE DEF w, nm, x, t, S
  <2>5. PICK y \in Names : y = nm
    BY <1>1
  <2>6. columns' = [columns EXCEPT ![WriterOf[c]][y] = S]
        /\ (Steady(WriterOf[c]) => S \subseteq Schema(WriterOf[c], y)')
    BY <2>1, <2>4, <2>5 DEF w, S
  <2>7. CacheInv'
    BY <1>1, <1>4, <2>1, <2>2, <2>6, CacheFilled DEF w
  <2> QED
    BY <1>4, <2>7 DEF Grows, Spares
<1>5. CASE UNCHANGED <<walVars, columns>> /\ \E how : Return(c, how)
  <2>1. Grows(w)
    BY <1>1, <1>5, UnchangedGrows
  <2>2. pc' = [pc EXCEPT ![c] = "idle"] /\ arg' = [arg EXCEPT ![c] = NoArg]
    BY <1>5 DEF Return
  <2>3. /\ \A d \in Callers : Adding(d)' => Adding(d)
        /\ \A d \in Callers : pc'[d] = "create" => pc[d] = "create" /\ arg'[d] = arg[d]
    BY <1>3, <2>2 DEF Adding
  <2>4. CacheInv'
    BY <1>1, <1>5, <2>1, <2>3, CacheKept
  <2> QED
    BY <2>1, <2>4 DEF Grows, Spares
<1>6. ASSUME Write(w, ColumnAdded(Sees(w), t, x))
      PROVE  Grows(w) /\ x \in Sees(w)'.schema[t]
  <2>1. /\ ColumnAdded(Sees(w), t, x) \in Db
        /\ Wider(Sees(w), ColumnAdded(Sees(w), t, x))
        /\ x \in ColumnAdded(Sees(w), t, x).schema[t]
    BY <1>1, <1>2, ColumnAddedType, ColumnAddedWider
  <2>2. Grows(w) /\ Sees(w)' = ColumnAdded(Sees(w), t, x)
    BY <1>1, <1>6, <2>1, WriteGrows
  <2> QED
    BY <2>1, <2>2
<1>7. CASE CreateTable(c)
  <2>1. Steady(w) => ~haveTable(w, nm)
    BY <1>7 DEF CreateTable, CacheInv
  <2>2. UNCHANGED walVars => Grows(w)
    BY <1>1, UnchangedGrows
  <2> QED
    BY <1>4, <1>5, <1>6, <1>7, <2>1, <2>2
    DEF CreateTable, ExecCreateTable, ColumnRefused, cacheVars
<1>8. CASE AlterTable(c)
  BY <1>4, <1>5, <1>6, <1>8 DEF AlterTable, ExecAlterTable, ColumnRefused, cacheVars
<1> QED
  BY <1>7, <1>8

(* A call's other steps. *)
LEMMA ExecPrepGrows ==
  ASSUME OnConflict = "ABORT", TypeOK, WalInv, SchemaInv, NEW c \in Callers, ExecPrep(c)
  PROVE  Grows(WriterOf[c])
<1> DEFINE w == WriterOf[c]
<1>1. w \in Conns /\ WalTypeOK /\ Sees(w) \in Db /\ RowOf(c) \in Row
  BY CallFacts, OwedType DEF ExecPrep
<1>2. CASE Write(w, Inserted(Sees(w), RowOf(c)))
  <2>1. /\ Inserted(Sees(w), RowOf(c)) \in Db
        /\ Wider(Sees(w), Inserted(Sees(w), RowOf(c)))
    BY <1>1, InsertedType, InsertedWider
  <2> QED
    BY <1>1, <1>2, <2>1, WriteGrows
<1>3. CASE Write(w, Sees(w))
  BY <1>1, <1>3, WiderSame, WriteGrows
<1>4. CASE UNCHANGED walVars
  BY <1>1, <1>4, UnchangedGrows
<1>5. CASE Read(w)
  BY <1>1, <1>5, ReadGrows
<1> QED
  BY <1>2, <1>3, <1>4, <1>5 DEF ExecPrep, ExecInsert, ExecBusy, ExecMissing,
    ExecRefused, ExecConflict, ExecForeign, BindRefused

LEMMA CallerCache ==
  ASSUME OnConflict = "ABORT", TypeOK, MutexInv, WalInv, OpenInv, SchemaInv, CacheInv,
         NEW c \in Callers, CallerStep(c)
  PROVE  CacheInv' /\ SchemaInv'
<1>1. CASE HaveColumn(c) \/ HaveTable(c) \/ CreateTable(c) \/ AlterTable(c)
  BY <1>1, HaveColumnCache, HaveTableCache, AddColumnCache
<1>2. CASE PrepareInsert(c) \/ ExecPrep(c) \/ ExecQuery(c) \/ ExecThrows(c)
  <2>0. /\ WriterOf[c] \in Conns /\ WalTypeOK /\ pc \in [Callers -> CallerPcs]
        /\ DOMAIN arg = Callers
    BY OwedType DEF TypeOK, CallTypeOK
  <2>1. Grows(WriterOf[c])
    BY <1>2, <2>0, ExecPrepGrows, ReadGrows, UnchangedGrows
    DEF PrepareInsert, ExecQuery, ExecThrows, ColumnRefused
  <2>2. /\ pc[c] \in Inside /\ UNCHANGED columns
        /\ \/ pc' = [pc EXCEPT ![c] = "idle"] /\ arg' = [arg EXCEPT ![c] = NoArg]
           \/ pc[c] = "columns" /\ pc' = [pc EXCEPT ![c] = "exec"] /\ arg' = arg
    <3>1. CASE PrepareInsert(c)
      BY <3>1 DEF PrepareInsert, Goto, Return, Inside
    <3>2. CASE ExecPrep(c)
      BY <3>2 DEF ExecPrep, ExecInsert, ExecBusy, ExecMissing, ExecRefused, ExecConflict,
        ExecForeign, BindRefused, Return, Inside, cacheVars
    <3>3. CASE ExecQuery(c) \/ ExecThrows(c)
      BY <3>3 DEF ExecQuery, ExecThrows, ColumnRefused, Return, Inside, cacheVars
    <3> QED
      BY <1>2, <3>1, <3>2, <3>3
  <2>3. /\ \A d \in Callers : Adding(d)' => Adding(d)
        /\ \A d \in Callers : pc'[d] = "create" =>
             d # c /\ pc[d] = "create" /\ arg'[d] = arg[d]
    BY <2>0, <2>2 DEF Adding
  <2>4. CacheInv'
    BY <2>0, <2>1, <2>2, <2>3, AloneCreates, CacheKept
  <2> QED
    BY <2>1, <2>4 DEF Grows, Spares
<1> QED
  BY <1>1, <1>2 DEF CallerStep

LEMMA CacheStep ==
  ASSUME OnConflict = "ABORT", TypeOK, MutexInv, WalInv, TxInv, OpenInv, SchemaInv, CacheInv, [Next]_vars
  PROVE  CacheInv' /\ SchemaInv'
<1>0. /\ WalTypeOK /\ pc \in [Callers -> CallerPcs] /\ DOMAIN arg = Callers
  BY OwedType DEF TypeOK, CallTypeOK
<1>1. ASSUME NEW w \in Conns, Terminate(w) PROVE CacheInv' /\ SchemaInv'
  <2>1. ProcessGone(w) /\ Spares(w)
    BY <1>0, <1>1, AbandonSpares DEF Terminate
  <2> QED
    BY <2>1, CacheGone DEF Spares
<1>2. ASSUME NEW w \in Conns, Grows(w), UNCHANGED <<columns, pc, arg>>,
             UNCHANGED walVars \/ \A c \in Callers : WriterOf[c] = w => pc[c] \notin Inside
      PROVE  CacheInv' /\ SchemaInv'
  <2>1. \A c \in Callers : pc[c] = "create" => UNCHANGED walVars \/ WriterOf[c] # w
    BY <1>2 DEF Inside
  <2>2. \A c \in Callers : Adding(c)' => Adding(c)
    BY <1>2 DEF Adding
  <2>3. CacheInv'
    BY <1>2, <2>1, <2>2, CacheKept
  <2> QED
    BY <1>2, <2>3 DEF Grows, Spares
<1>3. ASSUME NEW w \in Conns, Open(w) PROVE CacheInv' /\ SchemaInv'
  <2>1. /\ ExecBegin(w) \/ UNCHANGED walVars
        /\ UNCHANGED <<columns, pc, arg>> /\ phase[w] = "off"
    BY <1>3 DEF Open, Begin, cacheVars, callVars
  <2>2. \A c \in Callers : WriterOf[c] = w => pc[c] \notin Inside
    BY <2>1 DEF MutexInv, Inside
  <2>3. Grows(w)
    BY <2>1, ExecBeginGrows, UnchangedGrows
  <2> QED
    BY <1>2, <2>1, <2>2, <2>3
<1>4. ASSUME NEW w \in Conns, CommitThreadStep(w) PROVE CacheInv' /\ SchemaInv'
  <2>1. CASE CheckQuit(w) \/ Wake(w) \/ LockCycle(w)
    <3>1. UNCHANGED walVars /\ UNCHANGED <<columns, pc, arg>>
      BY <2>1 DEF CheckQuit, Wake, LockCycle, cacheVars, callVars
    <3> QED
      BY <1>2, <3>1, UnchangedGrows
  <2>2. CASE CycleCommit(w) \/ CycleBegin(w)
    <3>1. \A c \in Callers : WriterOf[c] = w => pc[c] \notin Inside
      BY <2>2 DEF CycleCommit, CycleBegin, MutexInv, InsideThread
    <3>2. \/ Terminate(w)
          \/ (ExecCommit(w) \/ ExecBegin(w)) /\ UNCHANGED <<columns, pc, arg>>
      BY <2>2 DEF CycleCommit, CycleBegin, cacheVars, callVars
    <3> QED
      BY <1>0, <1>1, <1>2, <3>1, <3>2, ExecCommitGrows, ExecBeginGrows
  <2> QED
    BY <1>4, <2>1, <2>2 DEF CommitThreadStep
<1>5. ASSUME NEW w \in Conns, Destroy(w) \/ Join(w) PROVE CacheInv' /\ SchemaInv'
  <2>1. UNCHANGED walVars /\ UNCHANGED <<columns, pc, arg>>
    BY <1>5 DEF Destroy, Join, cacheVars, callVars
  <2> QED
    BY <1>2, <2>1, UnchangedGrows
<1>6. ASSUME NEW w \in Conns, CloseDb(w) PROVE CacheInv' /\ SchemaInv'
  <2>1. CASE Terminate(w)
    BY <1>1, <2>1
  <2>2. CASE ProcessGone(w) /\ (ExecCommit(w) \/ Abandon(w))
    <3>1. Spares(w)
      BY <1>0, <2>2, ExecCommitGrows, AbandonSpares DEF Grows
    <3> QED
      BY <2>2, <3>1, CacheGone DEF Spares
  <2> QED
    BY <1>6, <2>1, <2>2 DEF CloseDb
<1>7. ASSUME NEW c \in Callers, CallAddValue(c) \/ CallQuery(c) \/ CallerLock(c)
      PROVE  CacheInv' /\ SchemaInv'
  <2>1. /\ UNCHANGED walVars /\ UNCHANGED columns
        /\ \E p \in CallerPcs : pc' = pc \/ pc' = [pc EXCEPT ![c] = p]
        /\ pc'[c] = "create" => pc[c] = "create"
        /\ \A d \in Callers \ {c} : arg'[d] = arg[d]
        /\ pc[c] \notin Inside
        /\ Adding(c)' => Adding(c) \/ Flag[WriterOf[c]] # "ReadOnly"
    <3>1. CASE CallAddValue(c)
      BY <1>0, <3>1 DEF CallAddValue, cacheVars, CallerPcs, Adding, Inside
    <3>2. CASE CallQuery(c)
      BY <1>0, <3>2 DEF CallQuery, cacheVars, CallerPcs, Adding, Inside
    <3>3. CASE CallerLock(c)
      BY <1>0, <3>3 DEF CallerLock, LockAddValue, LockQuery, Goto, cacheVars, CallerPcs,
        Inside, Adding
    <3> QED
      BY <1>7, <3>1, <3>2, <3>3
  <2>2. ASSUME NEW d \in Callers, pc'[d] = "create"
        PROVE  pc[d] = "create" /\ arg'[d] = arg[d]
    BY <1>0, <2>1, <2>2 DEF Inside
  <2>3. \A d \in Callers \ {c} : pc'[d] = pc[d]
    BY <1>0, <2>1
  <2>4. \A d \in Callers : Adding(d)' => Flag[WriterOf[d]] # "ReadOnly"
    BY <2>1, <2>3 DEF CacheInv, Adding, Transactional
  <2>5. /\ BatchersCacheSound'
        /\ \A d \in Callers : pc'[d] = "create" /\ Steady(WriterOf[d]) =>
             hold'[WriterOf[d]] # "none" /\ ~haveTable(WriterOf[d], arg[d].name)'
    BY <2>1, <2>2 DEF CacheInv, BatchersCacheSound, Steady, haveTable, Schema, Sees, walVars
  <2>6. SchemaInv'
    BY <2>1 DEF SchemaInv, Wider, walVars
  <2> QED
    BY <2>4, <2>5, <2>6 DEF CacheInv, Steady
<1>8. ASSUME NEW c \in Callers, CallerStep(c) PROVE CacheInv' /\ SchemaInv'
  BY <1>8, CallerCache
<1>9. CASE UNCHANGED vars
  <2>1. UNCHANGED <<walVars, columns, pc, arg>>
    BY <1>9 DEF vars, cacheVars, callVars
  <2> QED
    BY <2>1 DEF CacheInv, SchemaInv, Wider, BatchersCacheSound, haveTable, Schema, Sees,
      walVars, Adding, Transactional
<1> QED
  BY <1>1, <1>3, <1>4, <1>5, <1>6, <1>7, <1>8, <1>9 DEF Next, DestructorStep, Crash

LEMMA CacheInvariant ==
  ASSUME OnConflict = "ABORT"
  PROVE  Spec => [](SchemaInv /\ CacheInv)
<1>1. Init => SchemaInv /\ CacheInv
  BY CacheInit DEF Init, WalInit, SchemaInv
<1>2. OnConflict = "ABORT"
  OBVIOUS
<1>3. /\ TypeOK /\ MutexInv /\ WalInv /\ TxInv /\ OpenInv
      /\ SchemaInv /\ CacheInv /\ [Next]_vars
      => (SchemaInv /\ CacheInv)'
  BY <1>2, CacheStep
<1> QED
  BY <1>1, <1>2, <1>3, TypeCorrect, MutexInvariant, WalInvariant, TxInvariant,
    OpenInvariant, PTL DEF Spec

(* What a batching writer remembers of a table's columns is true of the table:
   it never builds an INSERT on a column that is not there.  Its transaction
   keeps the others out between the two statements of addColumn, also those
   that have none themselves; a conflict that rolls back would end it. *)
THEOREM BatchersCacheIsSound ==
  ASSUME OnConflict = "ABORT"
  PROVE  Spec => []BatchersCacheSound
<1>1. CacheInv => BatchersCacheSound
  BY DEF CacheInv
<1> QED
  BY <1>1, CacheInvariant, PTL

(* Where every writer batches or only reads, that is true of each cache. *)
THEOREM CacheIsSound ==
  ASSUME OnConflict = "ABORT", \A w \in Conns : Flag[w] # "NoTransactions"
  PROVE  Spec => []ColumnCacheSound
<1>1. BatchersCacheSound => ColumnCacheSound
  BY DEF BatchersCacheSound, ColumnCacheSound
<1> QED
  BY <1>1, BatchersCacheIsSound, PTL

----------------------------------------------------------------------------
(***************************************************************************)
(* A writer that has the file for itself.  Its cache is empty or exact, a  *)
(* statement it keeps compiles, and a call has the columns it has dealt    *)
(* with, so no column is ever missing and none is made twice.              *)
(***************************************************************************)
SoleWriter ==
  /\ \A v, w \in Conns : v = w
  /\ NoName \notin Names
  /\ \A x, y \in Names : TableOf[x] = TableOf[y] => x = y
  /\ <<>> \notin Sigs
  /\ Unaddable = {}
  /\ OnConflict = "ABORT"

Has(w, nm, sig) == \A i \in DOMAIN sig : sig[i] \in Schema(w, nm)
Elements(q) == {q[i] : i \in DOMAIN q}
Ahead(c) == Elements(todo[c])

NameInv(w, nm) ==
  /\ columns[w][nm] \in {{}, Schema(w, nm)}
  /\ isPrepared(w, nm) => lastsig[w][nm] # <<>> /\ Has(w, nm, lastsig[w][nm])

CallInv(c) ==
  /\ result[c] # "schema"
  /\ Adding(c) => arg[c].sig # <<>>
  /\ pc[c] \in {"columns", "haveTable", "create", "alter"} =>
       \A i \in DOMAIN arg[c].sig :
         arg[c].sig[i] \in Schema(WriterOf[c], arg[c].name) \cup Ahead(c)
  /\ pc[c] \in {"haveTable", "create", "alter"} =>
       /\ columns[WriterOf[c]][arg[c].name] = Schema(WriterOf[c], arg[c].name)
       /\ Head(todo[c]) \notin Schema(WriterOf[c], arg[c].name)
  /\ pc[c] = "create" => ~haveTable(WriterOf[c], arg[c].name)
  /\ pc[c] = "exec" => Has(WriterOf[c], arg[c].name, arg[c].sig)

GenInv ==
  /\ \A w \in Conns : hold[w] # "stale"
  /\ \A w \in Conns, nm \in Names : NameInv(w, nm)
  /\ \A c \in Callers : CallInv(c)

LEMMA GenInit == Init => GenInv
<1> SUFFICES ASSUME Init PROVE GenInv
  OBVIOUS
<1>1. \A w \in Conns : hold[w] = "none"
  BY DEF Init, WalInit
<1>2. \A w \in Conns, nm \in Names : columns[w][nm] = {} /\ ~isPrepared(w, nm)
  BY DEF Init, NoColumns, MiniInit, isPrepared, NoStmt
<1>3. \A c \in Callers : pc[c] = "idle" /\ result[c] = "none"
  BY DEF Init
<1> QED
  BY <1>1, <1>2, <1>3 DEF GenInv, NameInv, CallInv, Adding

(* The statements of the only connection. *)
SameSchema == \A w \in Conns : Sees(w)'.schema = Sees(w).schema /\ hold'[w] # "stale"

LEMMA SoleRead ==
  ASSUME WalTypeOK, GenInv, SoleWriter, NEW w \in Conns,
         Read(w) \/ ExecBegin(w) \/ UNCHANGED walVars
  PROVE  SameSchema
BY DEF WalTypeOK, GenInv, Read, ExecBegin, SameSchema, Sees, walVars

LEMMA SoleWrite ==
  ASSUME WalTypeOK, WalInv, GenInv, SoleWriter, NEW w \in Conns, NEW db \in Db,
         Write(w, db)
  PROVE  Sees(w)' = db /\ hold'[w] # "stale"
<1>1. CASE intx[w]
  BY <1>1 DEF Write, Sees, WalTypeOK
<1>2. CASE ~intx[w]
  BY <1>2 DEF Write, Publish, Sees, WalTypeOK, WalInv
<1> QED
  BY <1>1, <1>2 DEF WalTypeOK

LEMMA SoleCommit ==
  ASSUME WalTypeOK, WalInv, GenInv, SoleWriter, NEW w \in Conns, ExecCommit(w)
  PROVE  SameSchema
<1>1. hold[w] \in {"none", "read", "write"}
  BY DEF WalTypeOK, GenInv, Holds
<1>2. Sees(w) = IF hold[w] = "write" THEN view[w] ELSE disk
  BY <1>1 DEF WalInv, Sees
<1>3. hold'[w] = "none" /\ Sees(w)' = Sees(w)
  BY <1>2 DEF ExecCommit, Publish, Sees
<1> QED
  BY <1>3 DEF SoleWriter, SameSchema

LEMMA SchemaSame ==
  ASSUME SameSchema
  PROVE  /\ \A w \in Conns : hold'[w] # "stale"
         /\ \A w \in Conns, nm \in Names : Schema(w, nm)' = Schema(w, nm)
BY DEF SameSchema, Schema

(* A process that is gone. *)
LEMMA GenGone ==
  ASSUME TypeOK, GenInv, SoleWriter, NEW w \in Conns, ProcessGone(w),
         hold'[w] # "stale"
  PROVE  GenInv'
<1>1. \A v \in Conns : v = w
  BY DEF SoleWriter
<1>2. \A v \in Conns, nm \in Names : columns'[v][nm] = {} /\ ~isPrepared(v, nm)'
  <2>1. columns'[w] = NoColumns /\ stmts'[w] = [nm \in Names \cup {NoName} |-> NoStmt]
    BY DEF ProcessGone, Forget, TypeOK, CacheTypeOK, MiniTypeOK
  <2> QED
    BY <1>1, <2>1 DEF NoColumns, isPrepared, NoStmt
<1>3. \A c \in Callers : pc'[c] = "idle" /\ result'[c] = "none"
  <2>1. \A c \in Callers : WriterOf[c] = w
    BY <1>1
  <2> QED
    BY <2>1 DEF ProcessGone
<1> QED
  BY <1>1, <1>2, <1>3 DEF GenInv, NameInv, CallInv, Adding

(* What is true of a name stays so while its table has the same columns. *)
LEMMA NamesKept ==
  ASSUME GenInv, SameSchema, UNCHANGED <<columns, stmts, lastsig>>
  PROVE  \A w \in Conns, nm \in Names : NameInv(w, nm)'
BY SchemaSame DEF GenInv, NameInv, Has, isPrepared

(* What is true of a call stays so as long as it does not move. *)
LEMMA CallKept ==
  ASSUME TypeOK, GenInv, SameSchema, UNCHANGED columns, NEW c \in Callers,
         pc'[c] = pc[c], arg'[c] = arg[c], todo'[c] = todo[c], result'[c] = result[c]
  PROVE  CallInv(c)'
<1>0. CallInv(c)
  BY DEF GenInv
<1>1. CASE ~Adding(c)
  BY <1>0, <1>1 DEF CallInv, Adding
<1>2. CASE Adding(c)
  <2>1. WriterOf[c] \in Conns /\ arg[c].name \in Names
    BY <1>2, CallFacts DEF Adding
  <2>2. Schema(WriterOf[c], arg[c].name)' = Schema(WriterOf[c], arg[c].name)
    <3>1. \A nm \in Names : Schema(WriterOf[c], nm)' = Schema(WriterOf[c], nm)
      BY <2>1, SchemaSame
    <3> QED
      BY <2>1, <3>1 DEF Schema
  <2>3. haveTable(WriterOf[c], arg[c].name)' <=> haveTable(WriterOf[c], arg[c].name)
    BY <2>2 DEF haveTable
  <2> QED
    BY <1>0, <2>2, <2>3 DEF CallInv, Adding, Ahead, Has
<1> QED
  BY <1>1, <1>2

(* Nobody else works on the connection while a call does. *)
LEMMA OthersWait ==
  ASSUME MutexInv, SoleWriter, NEW c \in Callers, pc[c] \in Inside, NEW d \in Callers, d # c
  PROVE  pc[d] \notin Inside
BY DEF MutexInv, SoleWriter, Inside

LEMMA OthersKept ==
  ASSUME TypeOK, MutexInv, GenInv, SoleWriter, NEW c \in Callers, pc[c] \in Inside,
         \A d \in Callers \ {c} :
           pc'[d] = pc[d] /\ arg'[d] = arg[d] /\ result'[d] = result[d]
  PROVE  \A d \in Callers \ {c} : CallInv(d)'
<1> SUFFICES ASSUME NEW d \in Callers \ {c} PROVE CallInv(d)'
  OBVIOUS
<1>1. pc[d] \notin Inside /\ CallInv(d)
  BY OthersWait DEF GenInv
<1> QED
  BY <1>1 DEF CallInv, Inside, Adding

LEMMA AheadTail ==
  ASSUME NEW q \in Seq(Columns), q # <<>>
  PROVE  Elements(q) = {Head(q)} \cup Elements(Tail(q))
<1>1. /\ DOMAIN q = 1..Len(q) /\ DOMAIN Tail(q) = 1..(Len(q) - 1)
      /\ Len(q) \in Nat \ {0} /\ Head(q) = q[1]
      /\ \A i \in 1..(Len(q) - 1) : Tail(q)[i] = q[i + 1]
  OBVIOUS
<1>2. \A i \in DOMAIN q : i = 1 \/ (i - 1 \in DOMAIN Tail(q) /\ Tail(q)[i - 1] = q[i])
  BY <1>1
<1>3. \A i \in DOMAIN Tail(q) : i + 1 \in DOMAIN q /\ Tail(q)[i] = q[i + 1]
  BY <1>1
<1>4. Elements(q) \subseteq {Head(q)} \cup Elements(Tail(q))
  <2> SUFFICES ASSUME NEW i \in DOMAIN q PROVE q[i] \in {Head(q)} \cup Elements(Tail(q))
    BY DEF Elements
  <2>1. CASE i = 1
    BY <1>1, <2>1
  <2>2. CASE i - 1 \in DOMAIN Tail(q) /\ Tail(q)[i - 1] = q[i]
    BY <2>2 DEF Elements
  <2> QED
    BY <1>2, <2>1, <2>2
<1>5. {Head(q)} \cup Elements(Tail(q)) \subseteq Elements(q)
  BY <1>1, <1>3 DEF Elements
<1> QED
  BY <1>4, <1>5

(* A call that looks at its next column. *)
LEMMA HaveColumnGen ==
  ASSUME TypeOK, MutexInv, WalInv, GenInv, SoleWriter, NEW c \in Callers, HaveColumn(c)
  PROVE  GenInv'
<1> DEFINE w == WriterOf[c]
           nm == arg[c].name
<1>1. /\ pc[c] = "columns" /\ pc[c] \in Inside /\ Adding(c)
      /\ w \in Conns /\ nm \in Names /\ WalTypeOK
      /\ todo[c] \in Seq(Columns) /\ todo[c] # <<>>
  BY CallFacts, OwedType DEF HaveColumn, Inside, Adding, TypeOK, CallTypeOK
<1>2. SameSchema
  BY <1>1, SoleRead DEF HaveColumn
<1>3. Known(c) = Schema(w, nm)
  BY <1>1 DEF Known, GenInv, NameInv
<1>4. /\ columns' = [columns EXCEPT ![w][nm] = Schema(w, nm)]
      /\ UNCHANGED <<arg, result, stmts, lastsig>>
      /\ pc' = pc \/ pc' = [pc EXCEPT ![c] = "haveTable"]
      /\ \/ Head(todo[c]) \in Schema(w, nm) /\ todo' = [todo EXCEPT ![c] = Tail(@)] /\ pc' = pc
         \/ /\ Head(todo[c]) \notin Schema(w, nm) /\ todo' = todo
            /\ pc' = [pc EXCEPT ![c] = "haveTable"]
  BY <1>3 DEF HaveColumn, Goto, miniVars
<1>5. /\ DOMAIN pc = Callers /\ DOMAIN todo = Callers
      /\ columns \in [Conns -> [Names -> SUBSET Columns]]
  BY DEF TypeOK, CallTypeOK, CacheTypeOK
<1>6. \A v \in Conns, x \in Names :
        columns'[v][x] = IF v = w /\ x = nm THEN Schema(w, nm) ELSE columns[v][x]
  BY <1>4, <1>5
<1>7. \A v \in Conns, x \in Names : Schema(v, x)' = Schema(v, x)
  BY <1>2, SchemaSame
<1>8. ASSUME NEW v \in Conns, NEW x \in Names PROVE NameInv(v, x)'
  <2>1. columns'[v][x] \in {{}, Schema(v, x)}
    BY <1>6 DEF GenInv, NameInv
  <2> QED
    BY <1>4, <1>7, <2>1 DEF GenInv, NameInv, Has, isPrepared
<1>9. CallInv(c)'
  <2>0. CallInv(c)
    BY DEF GenInv
  <2>1. Schema(WriterOf[c], arg[c].name)' = Schema(w, nm)
    <3>1. \A x \in Names : x = nm => Schema(w, x)' = Schema(w, nm)
      BY <1>1, <1>7
    <3> QED
      BY <1>1, <1>4, <3>1 DEF Schema
  <2>2. columns'[w][nm] = Schema(w, nm)
    BY <1>1, <1>6
  <2>3. CASE Head(todo[c]) \in Schema(w, nm) /\ todo' = [todo EXCEPT ![c] = Tail(@)] /\ pc' = pc
    <3>1. Ahead(c) = {Head(todo[c])} \cup Ahead(c)'
      <4>1. todo'[c] = Tail(todo[c])
        BY <1>5, <2>3
      <4> QED
        BY <1>1, <4>1, AheadTail DEF Ahead
    <3> QED
      BY <1>1, <1>4, <2>0, <2>1, <2>3, <3>1 DEF CallInv, Adding
  <2>4. CASE /\ Head(todo[c]) \notin Schema(w, nm) /\ todo' = todo
             /\ pc' = [pc EXCEPT ![c] = "haveTable"]
    <3>1. pc'[c] = "haveTable" /\ Ahead(c)' = Ahead(c)
      BY <1>5, <2>4 DEF Ahead
    <3> QED
      BY <1>1, <1>4, <2>0, <2>1, <2>2, <2>4, <3>1 DEF CallInv, Adding
  <2> QED
    BY <1>4, <2>3, <2>4
<1>10. \A d \in Callers \ {c} : CallInv(d)'
  BY <1>1, <1>4, <1>5, OthersKept
<1> QED
  BY <1>2, <1>8, <1>9, <1>10 DEF GenInv, SameSchema

LEMMA HaveTableGen ==
  ASSUME TypeOK, MutexInv, WalInv, GenInv, SoleWriter, NEW c \in Callers, HaveTable(c)
  PROVE  GenInv'
<1> DEFINE w == WriterOf[c]
           nm == arg[c].name
<1>1. /\ pc[c] = "haveTable" /\ pc[c] \in Inside /\ Adding(c)
      /\ w \in Conns /\ nm \in Names /\ WalTypeOK
  BY CallFacts, OwedType DEF HaveTable, Inside, Adding
<1>2. SameSchema
  BY <1>1, SoleRead DEF HaveTable
<1>3. /\ UNCHANGED <<columns, arg, result, stmts, lastsig, todo>>
      /\ pc' = [pc EXCEPT ![c] = IF haveTable(w, nm) THEN "alter" ELSE "create"]
  BY DEF HaveTable, Goto, cacheVars, miniVars
<1>4. DOMAIN pc = Callers
  BY DEF TypeOK, CallTypeOK
<1>5. \A v \in Conns, x \in Names : NameInv(v, x)'
  BY <1>2, <1>3, NamesKept
<1>6. Schema(WriterOf[c], arg[c].name)' = Schema(w, nm)
  <2>1. \A x \in Names : Schema(w, x)' = Schema(w, x)
    BY <1>1, <1>2, SchemaSame
  <2> QED
    BY <1>1, <1>3, <2>1 DEF Schema
<1>7. CallInv(c)'
  <2>1. CallInv(c)
    BY DEF GenInv
  <2>2. /\ pc'[c] \in {"alter", "create"} /\ Ahead(c)' = Ahead(c)
        /\ pc'[c] = "create" => ~haveTable(w, nm)
    BY <1>3, <1>4 DEF Ahead
  <2>3. haveTable(WriterOf[c], arg[c].name)' <=> haveTable(w, nm)
    BY <1>6 DEF haveTable
  <2> QED
    BY <1>1, <1>3, <1>6, <2>1, <2>2, <2>3 DEF CallInv, Adding
<1>8. \A d \in Callers \ {c} : CallInv(d)'
  BY <1>1, <1>3, <1>4, OthersKept
<1> QED
  BY <1>2, <1>5, <1>7, <1>8 DEF GenInv, SameSchema

(* A call that adds a column: the table did not have it, so it gets it. *)
LEMMA AddColumnGen ==
  ASSUME TypeOK, MutexInv, WalInv, GenInv, SoleWriter,
         NEW c \in Callers, CreateTable(c) \/ AlterTable(c)
  PROVE  GenInv'
<1> DEFINE w == WriterOf[c]
           nm == arg[c].name
           x == Head(todo[c])
           t == TableOf[nm]
<1>1. /\ pc[c] \in {"create", "alter"} /\ pc[c] \in Inside /\ Adding(c)
      /\ w \in Conns /\ nm \in Names /\ t \in Tables /\ WalTypeOK /\ Sees(w) \in Db
      /\ todo[c] \in Seq(Columns) /\ todo[c] # <<>>
  BY CallFacts, OwedType
  DEF CreateTable, AlterTable, Inside, Adding, TypeOK, CallTypeOK
<1>2. x \in Columns
  BY <1>1
<1>3. DOMAIN pc = Callers /\ DOMAIN arg = Callers /\ DOMAIN todo = Callers
      /\ DOMAIN result = Callers
      /\ columns \in [Conns -> [Names -> SUBSET Columns]]
  BY DEF TypeOK, CallTypeOK, CacheTypeOK
<1>4. /\ CallInv(c) /\ columns[w][nm] = Schema(w, nm) /\ x \notin Schema(w, nm)
      /\ pc[c] = "create" => ~haveTable(w, nm)
  BY <1>1 DEF GenInv, CallInv
<1>5. UNCHANGED <<stmts, lastsig>>
  BY DEF CreateTable, AlterTable, miniVars, ColumnMade, ColumnRefused, cacheVars
<1>6. CASE Write(w, ColumnAdded(Sees(w), t, x)) /\ ColumnMade(c)
  <2>1. ColumnAdded(Sees(w), t, x) \in Db
    BY <1>1, <1>2, ColumnAddedType
  <2>2. Sees(w)' = ColumnAdded(Sees(w), t, x) /\ hold'[w] # "stale"
    BY <1>1, <1>6, <2>1, SoleWrite
  <2>3. /\ columns' = [columns EXCEPT ![w][nm] = @ \cup {x}]
        /\ UNCHANGED <<arg, result>>
        /\ todo' = [todo EXCEPT ![c] = Tail(@)]
        /\ pc' = [pc EXCEPT ![c] = "columns"]
    BY <1>6 DEF ColumnMade, Goto
  <2>4. \A u \in Tables : ColumnAdded(Sees(w), t, x).schema[u] =
          IF u = t THEN Sees(w).schema[u] \cup {x} ELSE Sees(w).schema[u]
    BY <1>1 DEF ColumnAdded, Db
  <2>5. ASSUME NEW v \in Conns, NEW y \in Names
        PROVE  Schema(v, y)' = IF y = nm THEN Schema(v, y) \cup {x} ELSE Schema(v, y)
    <3>1. v = w /\ TableOf[y] \in Tables /\ (TableOf[y] = t <=> y = nm)
      BY <1>1 DEF SoleWriter
    <3>2. Schema(v, y)' = ColumnAdded(Sees(w), t, x).schema[TableOf[y]]
      BY <2>2, <3>1 DEF Schema
    <3> QED
      BY <2>4, <3>1, <3>2 DEF Schema
  <2>6. ASSUME NEW v \in Conns, NEW y \in Names PROVE NameInv(v, y)'
    <3>1. v = w
      BY <1>1 DEF SoleWriter
    <3>2. columns'[v][y] = IF y = nm THEN columns[v][y] \cup {x} ELSE columns[v][y]
      BY <1>1, <1>3, <2>3, <3>1
    <3>3. columns'[v][y] \in {{}, Schema(v, y)'}
      BY <1>4, <2>5, <3>1, <3>2 DEF GenInv, NameInv
    <3>4. isPrepared(v, y)' =>
            /\ lastsig[v][y] # <<>>
            /\ \A i \in DOMAIN lastsig[v][y] : lastsig[v][y][i] \in Schema(v, y)
      BY <1>5 DEF isPrepared, GenInv, NameInv, Has
    <3>5. Schema(v, y) \subseteq Schema(v, y)'
      BY <2>5
    <3> QED
      BY <1>5, <3>3, <3>4, <3>5 DEF NameInv, Has
  <2>7. CallInv(c)'
    <3>1. pc'[c] = "columns" /\ todo'[c] = Tail(todo[c])
      BY <1>3, <2>3
    <3>2. Ahead(c) = {x} \cup Ahead(c)'
      BY <1>1, <3>1, AheadTail DEF Ahead
    <3>3. Schema(WriterOf[c], arg[c].name)' = Schema(w, nm) \cup {x}
      <4>1. \A y \in Names : y = nm => Schema(w, y)' = Schema(w, y) \cup {x}
        BY <1>1, <2>5
      <4> QED
        BY <1>1, <2>3, <4>1 DEF Schema
    <3>4. \A i \in DOMAIN arg[c].sig : arg[c].sig[i] \in Schema(w, nm) \cup Ahead(c)
      BY <1>1, <1>4 DEF CallInv
    <3>5. arg[c].sig # <<>> /\ result[c] # "schema"
      BY <1>1, <1>4 DEF CallInv
    <3> QED
      BY <2>3, <3>1, <3>2, <3>3, <3>4, <3>5 DEF CallInv, Adding
  <2>8. \A d \in Callers \ {c} : CallInv(d)'
    BY <1>1, <1>3, <2>3, OthersKept
  <2>9. \A v \in Conns : hold'[v] # "stale"
    BY <1>1, <2>2 DEF SoleWriter
  <2> QED
    BY <2>6, <2>7, <2>8, <2>9 DEF GenInv
<1>7. CASE UNCHANGED <<walVars, columns>> /\ Return(c, "error")
  <2>1. SameSchema
    BY <1>1, <1>7, SoleRead
  <2>2. /\ pc'[c] = "idle" /\ result'[c] = "error"
        /\ \A d \in Callers \ {c} :
             pc'[d] = pc[d] /\ arg'[d] = arg[d] /\ result'[d] = result[d]
    BY <1>3, <1>7 DEF Return
  <2>3. CallInv(c)'
    BY <2>2 DEF CallInv, Adding
  <2>4. \A d \in Callers \ {c} : CallInv(d)'
    BY <1>1, <2>2, OthersKept
  <2>5. \A v \in Conns, y \in Names : NameInv(v, y)'
    BY <1>5, <1>7, <2>1, NamesKept
  <2> QED
    BY <2>1, <2>3, <2>4, <2>5 DEF GenInv, SameSchema
<1>8. CASE CreateTable(c)
  BY <1>4, <1>6, <1>7, <1>8 DEF CreateTable, ExecCreateTable, ColumnRefused, cacheVars
<1>9. CASE AlterTable(c)
  <2>1. CanAlterTable(w, nm, x)
    BY <1>4 DEF CanAlterTable, SoleWriter
  <2> QED
    BY <1>6, <1>7, <1>9, <2>1 DEF AlterTable, ExecAlterTable, ColumnRefused, cacheVars
<1> QED
  BY <1>8, <1>9

(* A call that has dealt with all its columns: the INSERT compiles. *)
LEMMA PrepareInsertGen ==
  ASSUME TypeOK, MutexInv, WalInv, GenInv, SoleWriter, NEW c \in Callers, PrepareInsert(c)
  PROVE  GenInv'
<1> DEFINE w == WriterOf[c]
           nm == arg[c].name
           sig == arg[c].sig
<1>1. /\ pc[c] = "columns" /\ pc[c] \in Inside /\ Adding(c) /\ todo[c] = <<>>
      /\ w \in Conns /\ nm \in Names /\ sig \in Seq(Columns) /\ WalTypeOK
  BY CallFacts, OwedType DEF PrepareInsert, Inside, Adding
<1>2. Has(w, nm, sig) /\ sig # <<>>
  <2>1. Ahead(c) = {} /\ CallInv(c)
    BY <1>1 DEF Ahead, Elements, GenInv
  <2> QED
    BY <1>1, <2>1 DEF CallInv, Has
<1>3. Compiles(w, nm, sig)
  <2>1. DOMAIN sig = 1..Len(sig)
    BY <1>1
  <2> QED
    BY <1>2, <2>1 DEF Compiles, Has
<1>4. /\ stmts' = [stmts EXCEPT ![w][nm] = InsertStmt(sig, arg[c].replace)]
      /\ lastsig' = [lastsig EXCEPT ![w][nm] = sig]
      /\ pc' = [pc EXCEPT ![c] = "exec"]
      /\ UNCHANGED <<walVars, columns, arg, result>>
  BY <1>3 DEF PrepareInsert, Prepare, Goto
<1>5. SameSchema
  BY <1>1, <1>4, SoleRead
<1>6. /\ DOMAIN pc = Callers
      /\ stmts \in [Conns -> [Names \cup {NoName} -> Stmt]]
      /\ lastsig \in [Conns -> [Names -> Seq(Columns)]]
  BY DEF TypeOK, CallTypeOK, MiniTypeOK, CacheTypeOK
<1>7. \A v \in Conns, y \in Names : Schema(v, y)' = Schema(v, y)
  BY <1>5, SchemaSame
<1>8. ASSUME NEW v \in Conns, NEW y \in Names PROVE NameInv(v, y)'
  <2>1. /\ columns'[v][y] \in {{}, Schema(v, y)'}
        /\ isPrepared(v, y) => lastsig[v][y] # <<>> /\ Has(v, y, lastsig[v][y])
    BY <1>4, <1>7 DEF GenInv, NameInv
  <2>2. CASE v = w /\ y = nm
    <3>1. lastsig'[v][y] = sig
      BY <1>4, <1>6, <2>2
    <3>2. Has(v, y, sig)
      BY <1>2, <2>2
    <3> QED
      BY <1>2, <1>7, <2>1, <3>1, <3>2 DEF NameInv, Has
  <2>3. CASE ~(v = w /\ y = nm)
    <3>1. lastsig'[v][y] = lastsig[v][y] /\ stmts'[v][y] = stmts[v][y]
      BY <1>4, <1>6, <2>3
    <3> QED
      BY <1>7, <2>1, <3>1 DEF NameInv, Has, isPrepared
  <2> QED
    BY <2>2, <2>3
<1>9. CallInv(c)'
  <2>1. pc'[c] = "exec" /\ result[c] # "schema"
    BY <1>4, <1>6 DEF GenInv, CallInv
  <2>2. Has(WriterOf[c], arg[c].name, arg[c].sig)'
    <3>1. \A y \in Names : y = nm => \A i \in DOMAIN sig : sig[i] \in Schema(w, y)'
      BY <1>1, <1>2, <1>7 DEF Has
    <3> QED
      BY <1>1, <1>4, <3>1 DEF Has, Schema
  <2> QED
    BY <1>2, <1>4, <2>1, <2>2 DEF CallInv
<1>10. \A d \in Callers \ {c} : CallInv(d)'
  BY <1>1, <1>4, <1>6, OthersKept
<1> QED
  BY <1>5, <1>8, <1>9, <1>10 DEF GenInv, SameSchema

(* A call that executes: its INSERT compiles. *)
LEMMA ExecPrepGen ==
  ASSUME TypeOK, MutexInv, StmtInv, WalInv, GenInv, SoleWriter,
         NEW c \in Callers, ExecPrep(c)
  PROVE  GenInv'
<1> DEFINE w == WriterOf[c]
           nm == arg[c].name
           sig == arg[c].sig
<1>1. /\ pc[c] = "exec" /\ pc[c] \in Inside /\ Adding(c) /\ w \in Conns /\ nm \in Names
      /\ sig \in Seq(Columns) /\ WalTypeOK /\ Sees(w) \in Db /\ RowOf(c) \in Row
  BY CallFacts, OwedType DEF ExecPrep, Inside, Adding
<1>2. StmtOf(c) = InsertStmt(sig, arg[c].replace)
  BY <1>1 DEF StmtInv, SoleWriter
<1>3. Compiles(w, nm, StmtOf(c).cols)
  <2>1. CallInv(c) /\ DOMAIN sig = 1..Len(sig)
    BY <1>1 DEF GenInv
  <2>2. sig # <<>> /\ \A i \in 1..Len(sig) : sig[i] \in Schema(w, nm)
    BY <1>1, <2>1 DEF CallInv, Has
  <2> QED
    BY <1>2, <2>2 DEF Compiles, InsertStmt
<1>4. \/ ExecInsert(c) \/ ExecBusy(c) \/ ExecRefused(c) \/ ExecConflict(c)
      \/ BindRefused(c)
  BY <1>2, <1>3 DEF ExecPrep, InsertStmt, ExecMissing
<1>5. SameSchema
  <2>1. CASE Write(w, Inserted(Sees(w), RowOf(c)))
    <3>1. /\ Inserted(Sees(w), RowOf(c)) \in Db
          /\ Inserted(Sees(w), RowOf(c)).schema = Sees(w).schema
      BY <1>1, InsertedType DEF Inserted, Db
    <3>2. Sees(w)'.schema = Sees(w).schema /\ hold'[w] # "stale"
      BY <1>1, <2>1, <3>1, SoleWrite
    <3> QED
      BY <1>1, <3>2 DEF SoleWriter, SameSchema
  <2>2. CASE Write(w, Sees(w))
    <3>1. Sees(w)' = Sees(w) /\ hold'[w] # "stale"
      BY <1>1, <2>2, SoleWrite
    <3> QED
      BY <1>1, <3>1 DEF SoleWriter, SameSchema
  <2>3. CASE UNCHANGED walVars
    BY <1>1, <2>3, SoleRead
  <2> QED
    BY <1>4, <2>1, <2>2, <2>3
    DEF ExecInsert, ExecBusy, ExecRefused, ExecConflict, BindRefused, SoleWriter
<1>6. /\ UNCHANGED <<columns, stmts, lastsig>>
      /\ \E how \in {"ok", "error"} : Return(c, how)
  BY <1>4 DEF ExecPrep, ExecInsert, ExecBusy, ExecRefused, ExecConflict, BindRefused,
    miniVars, cacheVars
<1>7. /\ pc'[c] = "idle" /\ result'[c] # "schema"
      /\ \A d \in Callers \ {c} :
           pc'[d] = pc[d] /\ arg'[d] = arg[d] /\ result'[d] = result[d]
  BY <1>6 DEF Return, TypeOK, CallTypeOK
<1>8. CallInv(c)'
  BY <1>7 DEF CallInv, Adding
<1>9. \A d \in Callers \ {c} : CallInv(d)'
  BY <1>1, <1>7, OthersKept
<1>10. \A v \in Conns, y \in Names : NameInv(v, y)'
  BY <1>5, <1>6, NamesKept
<1> QED
  BY <1>5, <1>8, <1>9, <1>10 DEF GenInv, SameSchema

(* A call that ends by an exception while it fills the cache or adds a column. *)
LEMMA ExecThrowsGen ==
  ASSUME TypeOK, MutexInv, GenInv, SoleWriter, NEW c \in Callers, ExecThrows(c)
  PROVE  GenInv'
<1>1. /\ pc[c] \in Inside /\ WriterOf[c] \in Conns /\ WalTypeOK
      /\ UNCHANGED walVars
      /\ UNCHANGED <<columns, stmts, lastsig>>
      /\ Return(c, "error")
  BY OwedType DEF ExecThrows, ColumnRefused, Inside, miniVars, cacheVars
<1>2. SameSchema
  BY <1>1, SoleRead
<1>3. /\ pc'[c] = "idle" /\ result'[c] # "schema"
      /\ \A d \in Callers \ {c} :
           pc'[d] = pc[d] /\ arg'[d] = arg[d] /\ result'[d] = result[d]
  BY <1>1 DEF Return, TypeOK, CallTypeOK
<1>4. CallInv(c)'
  BY <1>3 DEF CallInv, Adding
<1>5. \A d \in Callers \ {c} : CallInv(d)'
  BY <1>1, <1>2, <1>3, OthersKept
<1>6. \A v \in Conns, y \in Names : NameInv(v, y)'
  BY <1>1, <1>2, NamesKept
<1> QED
  BY <1>2, <1>4, <1>5, <1>6 DEF GenInv, SameSchema

(* A query leaves the statements of tables alone. *)
LEMMA ExecQueryGen ==
  ASSUME TypeOK, MutexInv, WalInv, GenInv, SoleWriter, NEW c \in Callers, ExecQuery(c)
  PROVE  GenInv'
<1> DEFINE w == WriterOf[c]
<1>1. pc[c] \in Inside /\ w \in Conns /\ WalTypeOK
  BY OwedType DEF ExecQuery, Inside
<1>2. SameSchema
  BY <1>1, SoleRead DEF ExecQuery
<1>3. /\ UNCHANGED <<columns, lastsig>>
      /\ \E st : stmts' = [stmts EXCEPT ![w][NoName] = st]
      /\ \E how \in {"ok", "error"} : Return(c, how)
  BY DEF ExecQuery, Prepare, cacheVars
<1>4. \A v \in Conns, y \in Names : isPrepared(v, y)' <=> isPrepared(v, y)
  BY <1>3 DEF TypeOK, MiniTypeOK, isPrepared, SoleWriter
<1>5. \A v \in Conns, y \in Names : NameInv(v, y)'
  BY <1>2, <1>3, <1>4, SchemaSame DEF GenInv, NameInv, Has
<1>6. /\ pc'[c] = "idle" /\ result'[c] # "schema"
      /\ \A d \in Callers \ {c} :
           pc'[d] = pc[d] /\ arg'[d] = arg[d] /\ result'[d] = result[d]
  BY <1>3 DEF Return, TypeOK, CallTypeOK
<1>7. CallInv(c)'
  BY <1>6 DEF CallInv, Adding
<1>8. \A d \in Callers \ {c} : CallInv(d)'
  BY <1>1, <1>6, OthersKept
<1> QED
  BY <1>2, <1>5, <1>7, <1>8 DEF GenInv, SameSchema

(* A call begins, or gets the mutex. *)
LEMMA CallGen ==
  ASSUME TypeOK, GenInv, SoleWriter, NEW c \in Callers,
         CallAddValue(c) \/ CallQuery(c) \/ CallerLock(c)
  PROVE  GenInv'
<1>1. /\ UNCHANGED <<columns, stmts, lastsig>> /\ UNCHANGED walVars
      /\ \A d \in Callers \ {c} : /\ pc'[d] = pc[d] /\ arg'[d] = arg[d]
                                  /\ todo'[d] = todo[d] /\ result'[d] = result[d]
  BY DEF CallAddValue, CallQuery, CallerLock, LockAddValue, LockQuery, Goto, miniVars,
    cacheVars, TypeOK, CallTypeOK
<1>2. SameSchema
  BY <1>1, SoleRead, OwedType
<1>3. \A v \in Conns, y \in Names : NameInv(v, y)'
  BY <1>1, <1>2, NamesKept
<1>4. \A d \in Callers \ {c} : CallInv(d)'
  BY <1>1, <1>2, CallKept
<1>5. CallInv(c)
  BY DEF GenInv
<1>6. CallInv(c)'
  <2>0. /\ DOMAIN pc = Callers /\ DOMAIN arg = Callers
        /\ DOMAIN todo = Callers /\ DOMAIN result = Callers
    BY DEF TypeOK, CallTypeOK
  <2>1. CASE CallAddValue(c)
    <3>1. CASE Flag[WriterOf[c]] = "ReadOnly"
      <4>1. pc'[c] = "idle" /\ result'[c] = "error"
        BY <2>0, <2>1, <3>1 DEF CallAddValue
      <4> QED
        BY <4>1 DEF CallInv, Adding
    <3>2. CASE Flag[WriterOf[c]] # "ReadOnly"
      <4>1. PICK a \in Names, s \in Sigs, k \in Keys \cup {NoKey}, r \in BOOLEAN :
              arg' = [arg EXCEPT ![c] = [name |-> a, sig |-> s, key |-> k,
                                         replace |-> r, id |-> calls + 1]]
        BY <2>1, <3>2 DEF CallAddValue
      <4>2. arg'[c].sig \in Sigs
        BY <2>0, <4>1
      <4>3. pc'[c] = "lock" /\ result'[c] = "none"
        BY <2>0, <2>1, <3>2 DEF CallAddValue
      <4> QED
        BY <4>2, <4>3 DEF CallInv, Adding, SoleWriter
    <3> QED
      BY <3>1, <3>2
  <2>2. CASE CallQuery(c) \/ LockQuery(c)
    <3>1. pc'[c] \in {"idle", "querylock", "query"} /\ result'[c] # "schema"
      BY <1>5, <2>0, <2>2 DEF CallQuery, LockQuery, Goto, CallInv
    <3> QED
      BY <3>1 DEF CallInv, Adding
  <2>3. CASE LockAddValue(c)
    <3> DEFINE w == WriterOf[c]
               nm == arg[c].name
    <3>1. /\ pc[c] = "lock" /\ Adding(c) /\ w \in Conns /\ nm \in Names
          /\ UNCHANGED <<arg, result>> /\ arg[c].sig # <<>> /\ result[c] # "schema"
      BY <1>5, <2>3, CallFacts DEF LockAddValue, Goto, Adding, CallInv
    <3>2. CASE Reusable(c)
      <4>1. pc'[c] = "exec" /\ Has(w, nm, arg[c].sig)
        BY <2>0, <2>3, <3>1, <3>2 DEF LockAddValue, Goto, Reusable, GenInv, NameInv
      <4>2. \A y \in Names : Schema(w, y)' = Schema(w, y)
        BY <1>2, <3>1, SchemaSame
      <4>3. Has(WriterOf[c], arg[c].name, arg[c].sig)'
        BY <3>1, <4>1, <4>2 DEF Has, Schema
      <4> QED
        BY <3>1, <4>1, <4>3 DEF CallInv
    <3>3. CASE ~Reusable(c)
      <4>1. pc'[c] = "columns" /\ todo'[c] = arg[c].sig
        BY <2>0, <2>3, <3>3 DEF LockAddValue, Goto
      <4> QED
        BY <3>1, <4>1 DEF CallInv, Ahead, Elements
    <3> QED
      BY <3>2, <3>3
  <2> QED
    BY <2>1, <2>2, <2>3 DEF CallerLock
<1> QED
  BY <1>2, <1>3, <1>4, <1>6 DEF GenInv, SameSchema

LEMMA GenStep ==
  ASSUME TypeOK, MutexInv, StmtInv, WalInv, GenInv, SoleWriter, [Next]_vars
  PROVE  GenInv'
<1>0. WalTypeOK
  BY OwedType
<1>1. ASSUME NEW w \in Conns, UNCHANGED <<columns, stmts, lastsig>>,
             UNCHANGED <<pc, arg, todo, result>>,
             ExecBegin(w) \/ ExecCommit(w) \/ UNCHANGED walVars
      PROVE  GenInv'
  <2>1. SameSchema
    BY <1>0, <1>1, SoleRead, SoleCommit
  <2>2. /\ \A v \in Conns, y \in Names : NameInv(v, y)'
        /\ \A c \in Callers : CallInv(c)'
    BY <1>1, <2>1, NamesKept, CallKept
  <2> QED
    BY <2>1, <2>2 DEF GenInv, SameSchema
<1>2. ASSUME NEW w \in Conns, ProcessGone(w), ExecCommit(w) \/ Abandon(w)
      PROVE  GenInv'
  <2>1. hold'[w] # "stale"
    BY <1>0, <1>2 DEF ExecCommit, Publish, Abandon, WalTypeOK
  <2> QED
    BY <1>2, <2>1, GenGone
<1>3. ASSUME NEW w \in Conns, Open(w) \/ Destroy(w) \/ Join(w) PROVE GenInv'
  <2>1. ExecBegin(w) \/ UNCHANGED walVars
    BY <1>3 DEF Open, Begin, Destroy, Join
  <2>2. /\ UNCHANGED <<columns, stmts, lastsig>>
        /\ UNCHANGED <<pc, arg, todo, result>>
    BY <1>3 DEF Open, Destroy, Join, miniVars, cacheVars, callVars
  <2> QED
    BY <1>1, <2>1, <2>2
<1>4. ASSUME NEW w \in Conns, CommitThreadStep(w) PROVE GenInv'
  <2>1. \/ Terminate(w)
        \/ /\ ExecBegin(w) \/ ExecCommit(w) \/ UNCHANGED walVars
           /\ UNCHANGED <<columns, stmts, lastsig>>
           /\ UNCHANGED <<pc, arg, todo, result>>
    BY <1>4 DEF CommitThreadStep, CheckQuit, Wake, LockCycle, CycleCommit, CycleBegin,
      miniVars, cacheVars, callVars
  <2> QED
    BY <1>1, <1>2, <2>1 DEF Terminate
<1>5. ASSUME NEW w \in Conns, CloseDb(w) \/ Crash(w) PROVE GenInv'
  BY <1>2, <1>5 DEF CloseDb, Crash, Terminate
<1>6. ASSUME NEW c \in Callers, CallerStep(c) PROVE GenInv'
  BY <1>6, HaveColumnGen, HaveTableGen, AddColumnGen, PrepareInsertGen, ExecPrepGen,
    ExecQueryGen, ExecThrowsGen DEF CallerStep
<1>7. CASE UNCHANGED vars
  <2>1. /\ UNCHANGED <<columns, stmts, lastsig>> /\ UNCHANGED walVars
        /\ UNCHANGED <<pc, arg, todo, result>>
    BY <1>7 DEF vars, miniVars, cacheVars, callVars
  <2>2. CASE \E w \in Conns : TRUE
    BY <1>1, <2>1, <2>2
  <2>3. CASE ~\E w \in Conns : TRUE
    <3>1. \A c \in Callers : FALSE
      BY <2>3
    <3> QED
      BY <2>3, <3>1 DEF GenInv
  <2> QED
    BY <2>2, <2>3
<1> QED
  BY <1>3, <1>4, <1>5, <1>6, <1>7, CallGen DEF Next, DestructorStep

(* Columns are generated on first use: a writer that is alone on its file, with
   metadata that ALTER TABLE takes and no ON CONFLICT ROLLBACK, called with at
   least one column and by one name for each table, never fails a call for a
   column that is missing, is there already or cannot be added, whatever its
   threads, failures, restarts and commits. *)
THEOREM GeneratesColumns ==
  ASSUME SoleWriter
  PROVE  Spec => []ColumnsGenerated
<1>1. SoleWriter
  OBVIOUS
<1>2. TypeOK /\ MutexInv /\ StmtInv /\ WalInv /\ GenInv /\ [Next]_vars => GenInv'
  BY <1>1, GenStep
<1>3. GenInv => ColumnsGenerated
  BY DEF GenInv, CallInv, ColumnsGenerated
<1> QED
  BY <1>2, <1>3, GenInit, TypeCorrect, MutexInvariant, StmtInvariant, WalInvariant, PTL
  DEF Spec
=============================================================================
