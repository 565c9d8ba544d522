-------------------------- MODULE PSQLWriterProofs --------------------------
(***************************************************************************)
(* The safety theorems about PSQLWriter, for any number of callers,        *)
(* tables, columns and messages, and any limits.                           *)
(***************************************************************************)
EXTENDS PSQLWriter, FiniteSetTheorems, TLAPS

USE ServerAssumption, WriterAssumption

----------------------------------------------------------------------------
(***************************************************************************)
(* Types.                                                                  *)
(***************************************************************************)

LEMMA EmptyDbType == EmptyDb \in Db
BY DEF EmptyDb, Db

LEMMA FieldsFinite ==
  ASSUME NEW m \in Row
  PROVE  Cardinality(m.values) \in Nat
<1>1. m.values \subseteq Columns
  BY DEF Row
<1> QED
  BY <1>1, FS_Subset, FS_CardinalityType

(* The operations on the server. *)
LEMMA ServerTypes ==
  ASSUME PgTypeOK
  PROVE  /\ RolledBack => PgTypeOK'
         /\ Committed => PgTypeOK'
         /\ \A t \in Tables, x \in Columns : ColumnAdded(t, x) => PgTypeOK'
         /\ \A t \in Tables, x \in Columns : OtherAdds(t, x) => PgTypeOK'
         /\ \A rows \in SUBSET Row : RowsAdded(rows) => PgTypeOK'
         /\ UNCHANGED pgVars => PgTypeOK'
<1>1. RolledBack => PgTypeOK'
  BY EmptyDbType DEF PgTypeOK, RolledBack
<1>2. Committed => PgTypeOK'
  BY EmptyDbType DEF PgTypeOK, Committed, ColumnsOf, Db
<1>3. ASSUME NEW t \in Tables, NEW x \in Columns, ColumnAdded(t, x)
      PROVE  PgTypeOK'
  BY <1>3 DEF PgTypeOK, ColumnAdded, Db
<1>4. ASSUME NEW t \in Tables, NEW x \in Columns, OtherAdds(t, x)
      PROVE  PgTypeOK'
  BY <1>4 DEF PgTypeOK, OtherAdds, Db
<1>5. ASSUME NEW rows \in SUBSET Row, RowsAdded(rows) PROVE PgTypeOK'
  BY <1>5 DEF PgTypeOK, RowsAdded, Db
<1>6. UNCHANGED pgVars => PgTypeOK'
  BY DEF PgTypeOK, pgVars
<1> QED
  BY <1>1, <1>2, <1>3, <1>4, <1>5, <1>6


LEMMA NothingType ==
  /\ NoBatch \in [Tables -> Seq(Row)]
  /\ NoSchemas \in [Tables -> SUBSET Columns]
BY DEF NoBatch, NoSchemas

LEMMA InitType == Init => TypeOK
<1> SUFFICES ASSUME Init PROVE TypeOK
  OBVIOUS
<1>1. PgTypeOK
  BY EmptyDbType DEF Init, PgInit, PgTypeOK
<1>2. ThreadTypeOK
  <2>1. tpc = "none" /\ cur = None /\ col = None
    BY DEF Init
  <2>2. /\ cur \in IF tpc \in Working THEN Tables ELSE {None}
        /\ col \in IF tpc \in {"create", "alter"} THEN Columns ELSE {None}
    BY <2>1 DEF Working
  <2>3. lim \in 0..MaxMsgs /\ sumparms \in Nat /\ known \subseteq Tables
    BY DEF Init
  <2>4. /\ batch \in [Tables -> Seq(Row)]
        /\ schemas \in [Tables -> SUBSET Columns]
    BY NothingType DEF Init
  <2> QED
    BY <2>1, <2>2, <2>3, <2>4 DEF Init, ThreadTypeOK, ThreadPcs
<1>3. pipe \in Seq(Row) /\ pc \in [Callers -> {"idle", "write"}]
  BY DEF Init
<1> QED
  BY <1>1, <1>2, <1>3 DEF Init, TypeOK

(* The rows of a batch. *)
LEMMA BatchType ==
  ASSUME TypeOK, NEW t \in Tables
  PROVE  batch[t] \in Seq(Row) /\ Range(batch[t]) \subseteq Row
BY DEF TypeOK, ThreadTypeOK, Range

(* The messages of the batch are rows. *)
LEMMA RowsType ==
  ASSUME TypeOK
  PROVE  /\ server.rows \subseteq Row /\ own.rows \subseteq Row
         /\ InBatch \subseteq Row /\ Range(pipe) \subseteq Row
         /\ sent \in Nat
<1>1. server.rows \subseteq Row /\ own.rows \subseteq Row
  BY DEF TypeOK, PgTypeOK, Db
<1>2. InBatch \subseteq Row
  BY BatchType DEF InBatch
<1>3. Range(pipe) \subseteq Row
  BY DEF TypeOK, Range
<1> QED
  BY <1>1, <1>2, <1>3 DEF TypeOK

LEMMA IdsType ==
  ASSUME NEW rows \in SUBSET Row
  PROVE  Ids(rows) \subseteq Nat
BY DEF Ids, Row

LEMMA ProcessGoneType ==
  ASSUME TypeOK, ProcessGone, PgTypeOK'
  PROVE  TypeOK'
<1>1. ThreadTypeOK'
  <2>1. tpc' = "none" /\ cur' = None /\ col' = None
    BY DEF ProcessGone
  <2>2. /\ cur' \in IF tpc' \in Working THEN Tables ELSE {None}
        /\ col' \in IF tpc' \in {"create", "alter"} THEN Columns ELSE {None}
    BY <2>1 DEF Working
  <2>3. lim' \in 0..MaxMsgs /\ sumparms' \in Nat /\ known' \subseteq Tables
    BY DEF ProcessGone
  <2>4. /\ batch' \in [Tables -> Seq(Row)]
        /\ schemas' \in [Tables -> SUBSET Columns]
    BY NothingType DEF ProcessGone
  <2> QED
    BY <2>1, <2>2, <2>3, <2>4 DEF ProcessGone, ThreadTypeOK, ThreadPcs, Working
<1>2. pipe' \in Seq(Row) /\ pc' \in [Callers -> {"idle", "write"}]
  BY DEF ProcessGone
<1>3. lost' \subseteq Nat
  <2>1. Range(pipe) \cup InBatch \cup (own.rows \ server'.rows) \subseteq Row
    BY RowsType
  <2> QED
    BY <2>1, IdsType DEF ProcessGone, TypeOK
<1> QED
  BY <1>1, <1>2, <1>3 DEF ProcessGone, TypeOK

LEMMA TypeStep ==
  ASSUME TypeOK, [Next]_vars
  PROVE  TypeOK'
<1> USE DEF TypeOK
<1>1. CASE Open
  BY <1>1, ServerTypes DEF Open, ThreadTypeOK, ThreadPcs, Working, batchVars, cacheVars
<1>2. CASE Crash \/ PollInterrupted \/ Join
  BY <1>2, ServerTypes, ProcessGoneType DEF Crash, PollInterrupted, Join, Terminate
<1>3. CASE ServerFails
  BY <1>3, ServerTypes, ProcessGoneType DEF ServerFails
<1>4. CASE Destroy
  BY <1>4, ServerTypes DEF Destroy, ThreadTypeOK, batchVars, cacheVars
<1>5. ASSUME NEW c \in Callers, CallAddValue(c) PROVE TypeOK'
  BY <1>5, ServerTypes DEF CallAddValue, ThreadTypeOK, batchVars, cacheVars
<1>6. ASSUME NEW c \in Callers, WriteMessage(c) PROVE TypeOK'
  <2>1. \A t \in Tables, s \in Sigs :
          [id |-> sent + 1, table |-> t, values |-> s] \in Row
    BY DEF Row
  <2>2. pipe' \in Seq(Row) /\ sent' \in Nat
    BY <1>6, <2>1 DEF WriteMessage
  <2> QED
    BY <1>6, <2>2, ServerTypes DEF WriteMessage, ThreadTypeOK, batchVars, cacheVars
<1>7. CASE SecondPasses
  BY <1>7, ServerTypes DEF SecondPasses, ThreadTypeOK, batchVars, cacheVars, callVars
<1>8. CASE OtherSession
  BY <1>8, ServerTypes DEF OtherSession, ThreadTypeOK, batchVars, cacheVars, callVars
<1>9. CASE Connect \/ StopReading
  BY <1>9, ServerTypes DEF Connect, StopReading, Goto, callVars, ThreadTypeOK, ThreadPcs,
    Working, batchVars, cacheVars
<1>10. CASE ReadMessage
  <2>1. /\ Head(pipe) \in Row /\ Head(pipe).table \in Tables
        /\ Tail(pipe) \in Seq(Row)
        /\ Cardinality(Head(pipe).values) \in Nat
    <3>1. pipe \in Seq(Row) /\ pipe # <<>>
      BY <1>10 DEF ReadMessage
    <3>2. Head(pipe) \in Row /\ Tail(pipe) \in Seq(Row)
      BY <3>1
    <3> QED
      BY <3>2, FieldsFinite DEF Row
  <2>2. /\ batch' \in [Tables -> Seq(Row)]
        /\ lim' \in 0..MaxMsgs
        /\ sumparms' \in Nat
        /\ pipe' \in Seq(Row)
    BY <1>10, <2>1 DEF ReadMessage, Full, ThreadTypeOK
  <2> QED
    BY <1>10, <2>2, ServerTypes DEF ReadMessage, ThreadTypeOK, cacheVars, callVars
<1>11. CASE ReadNothing
  BY <1>11, ServerTypes DEF ReadNothing, Goto, callVars, ThreadTypeOK, ThreadPcs, Working,
    batchVars, cacheVars
<1>12. CASE NextTable
  <2>1. PICK t \in Tables :
          /\ cur' = t
          /\ schemas' = IF t \in known THEN schemas
                        ELSE [schemas EXCEPT ![t] = getSchema(t)]
          /\ known' = known \cup {t}
    BY <1>12 DEF NextTable
  <2>2. getSchema(t) \subseteq Columns
    BY DEF getSchema, ColumnsOf, PgTypeOK, Db
  <2>3. schemas' \in [Tables -> SUBSET Columns] /\ known' \subseteq Tables
    BY <2>1, <2>2 DEF ThreadTypeOK
  <2> QED
    BY <1>12, <2>1, <2>3, ServerTypes DEF NextTable, Goto, callVars, ThreadTypeOK, ThreadPcs,
      Working, batchVars
<1>13. CASE NoMoreTables
  BY <1>13, ServerTypes DEF NoMoreTables, Goto, callVars, ThreadTypeOK, ThreadPcs, Working, cacheVars
<1>14. CASE MissField \/ MissNoField
  BY <1>14, ServerTypes DEF MissField, MissNoField, Goto, callVars, ThreadTypeOK, ThreadPcs,
    Working, batchVars, cacheVars
<1>15. CASE AddColumn
  <2>1. cur \in Tables /\ col \in Columns /\ Lower[cur] \in Tables /\ Lower[col] \in Columns
    BY <1>15 DEF AddColumn, ThreadTypeOK, Working
  <2>2. PgTypeOK'
    BY <1>15, <2>1, ServerTypes DEF AddColumn, ExecCreateTable, ExecAlterTable
  <2> QED
    BY <1>15, <2>1, <2>2 DEF AddColumn, Goto, callVars, ThreadTypeOK, ThreadPcs, Working, batchVars
<1>16. CASE Insert
  <2>1. cur \in Tables
    BY <1>16 DEF Insert, ThreadTypeOK, Working
  <2>2. PgTypeOK'
    BY <1>16, <2>1, BatchType, ServerTypes DEF Insert
  <2>3. batch' \in [Tables -> Seq(Row)]
    BY <1>16, <2>1 DEF Insert, ThreadTypeOK
  <2> QED
    BY <1>16, <2>2, <2>3 DEF Insert, Goto, callVars, ThreadTypeOK, ThreadPcs, Working, cacheVars
<1>17. CASE Commit \/ Begin
  BY <1>17, ServerTypes DEF Commit, Begin, Goto, callVars, ThreadTypeOK, ThreadPcs, Working,
    batchVars, cacheVars
<1>18. CASE UNCHANGED vars
  BY <1>18, ServerTypes DEF vars, ThreadTypeOK, batchVars, cacheVars, callVars
<1> QED
  BY <1>1, <1>2, <1>3, <1>4, <1>5, <1>6, <1>7, <1>8, <1>9, <1>10, <1>11, <1>12,
    <1>13, <1>14, <1>15, <1>16, <1>17, <1>18 DEF Next, ThreadStep

(* Every variable keeps its type, and there is a thread as long as there is a
   writer, in every reachable state. *)
THEOREM TypeCorrect == Spec => []TypeOK
BY InitType, TypeStep, PTL DEF Spec

----------------------------------------------------------------------------
(***************************************************************************)
(* Order.  Messages leave the pipe in the order in which they entered it,  *)
(* and the rows of a table move on all together.  So the rows of a table   *)
(* in the database come before those in the transaction, these before      *)
(* those in the batch, and these before the messages in the pipe.          *)
(***************************************************************************)
Before(A, B) == \A r \in A, s \in B : r.table = s.table => r.id < s.id
Sorted(q) == \A i, j \in DOMAIN q : i < j => q[i].id < q[j].id

OrderInv ==
  /\ \A r \in Stored \cup InBatch \cup Range(pipe) : r.id <= sent
  /\ Before(server.rows, own.rows \cup InBatch \cup Range(pipe))
  /\ Before(own.rows, InBatch \cup Range(pipe))
  /\ \A r \in InBatch, s \in Range(pipe) : r.id < s.id
  /\ Sorted(pipe)
  /\ \A t \in Tables : Sorted(batch[t]) /\ \A r \in Range(batch[t]) : r.table = t

LEMMA RangeAppend ==
  ASSUME NEW S, NEW q \in Seq(S), NEW e \in S
  PROVE  Range(Append(q, e)) = Range(q) \cup {e}
<1>1. /\ DOMAIN Append(q, e) = 1..(Len(q) + 1) /\ DOMAIN q = 1..Len(q)
      /\ \A i \in 1..Len(q) : Append(q, e)[i] = q[i]
      /\ Append(q, e)[Len(q) + 1] = e /\ Len(q) \in Nat
  OBVIOUS
<1> QED
  BY <1>1 DEF Range

LEMMA RangeTail ==
  ASSUME NEW S, NEW q \in Seq(S), q # <<>>
  PROVE  Range(q) = {Head(q)} \cup Range(Tail(q))
<1>1. /\ DOMAIN q = 1..Len(q) /\ DOMAIN Tail(q) = 1..(Len(q) - 1)
      /\ Len(q) \in Nat \ {0} /\ Head(q) = q[1]
      /\ \A i \in 1..(Len(q) - 1) : Tail(q)[i] = q[i + 1]
  OBVIOUS
<1>2. \A i \in DOMAIN q : i = 1 \/ (i - 1 \in DOMAIN Tail(q) /\ Tail(q)[i - 1] = q[i])
  BY <1>1
<1>3. \A i \in DOMAIN Tail(q) : i + 1 \in DOMAIN q /\ Tail(q)[i] = q[i + 1]
  BY <1>1
<1>4. Range(q) \subseteq {Head(q)} \cup Range(Tail(q))
  BY <1>1, <1>2 DEF Range
<1>5. {Head(q)} \cup Range(Tail(q)) \subseteq Range(q)
  BY <1>1, <1>3 DEF Range
<1> QED
  BY <1>4, <1>5

LEMMA SortedAppend ==
  ASSUME NEW q \in Seq(Row), NEW e \in Row, Sorted(q),
         \A r \in Range(q) : r.id < e.id
  PROVE  Sorted(Append(q, e))
<1>1. /\ DOMAIN Append(q, e) = 1..(Len(q) + 1) /\ DOMAIN q = 1..Len(q)
      /\ \A i \in 1..Len(q) : Append(q, e)[i] = q[i]
      /\ Append(q, e)[Len(q) + 1] = e /\ Len(q) \in Nat
  OBVIOUS
<1>2. \A i \in 1..Len(q) : q[i].id < e.id
  BY <1>1 DEF Range
<1> QED
  BY <1>1, <1>2 DEF Sorted

LEMMA SortedTail ==
  ASSUME NEW q \in Seq(Row), q # <<>>, Sorted(q)
  PROVE  Sorted(Tail(q)) /\ \A r \in Range(Tail(q)) : Head(q).id < r.id
<1>1. /\ DOMAIN q = 1..Len(q) /\ DOMAIN Tail(q) = 1..(Len(q) - 1)
      /\ Len(q) \in Nat \ {0} /\ Head(q) = q[1]
      /\ \A i \in 1..(Len(q) - 1) : Tail(q)[i] = q[i + 1]
  OBVIOUS
<1> QED
  BY <1>1 DEF Sorted, Range

(***************************************************************************)
(* What a step does with rows: it moves none, or is one of a few.          *)
(***************************************************************************)
Moveless == UNCHANGED <<server.rows, own.rows, batch, pipe, sent, lost>>
Dies == ProcessGone /\ (RolledBack \/ Committed)
Commits == Committed /\ UNCHANGED <<batch, pipe, sent, lost>>

LEMMA RowStepKinds ==
  ASSUME TypeOK, [Next]_vars
  PROVE  \/ Moveless \/ Dies \/ Commits \/ ReadMessage \/ Insert
         \/ \E c \in Callers : WriteMessage(c)
<1>0. UNCHANGED pgVars => UNCHANGED <<server.rows, own.rows>>
  BY DEF pgVars
<1>1. CASE Open \/ Destroy \/ Connect \/ StopReading \/ ReadNothing \/ NextTable
           \/ NoMoreTables \/ MissField \/ MissNoField \/ Begin \/ SecondPasses
  BY <1>0, <1>1 DEF Open, Destroy, Connect, StopReading, ReadNothing, NextTable,
    NoMoreTables, MissField, MissNoField, Begin, SecondPasses, Goto, Moveless,
    batchVars, callVars
<1>2. CASE Crash \/ PollInterrupted \/ Join \/ ServerFails
  BY <1>2 DEF Crash, PollInterrupted, Join, ServerFails, Terminate, Dies
<1>3. ASSUME NEW c \in Callers, CallAddValue(c) PROVE Moveless
  BY <1>0, <1>3 DEF CallAddValue, Moveless, batchVars
<1>4. ASSUME NEW t \in Tables, NEW x \in Columns, ColumnAdded(t, x) \/ OtherAdds(t, x)
      PROVE  UNCHANGED <<server.rows, own.rows>>
  BY <1>4 DEF ColumnAdded, OtherAdds, TypeOK, PgTypeOK, Db
<1>5. CASE AddColumn
  <2>1. /\ cur \in Tables /\ col \in Columns
        /\ Lower[cur] \in Tables /\ Lower[col] \in Columns
    BY <1>5 DEF AddColumn, TypeOK, ThreadTypeOK, Working
  <2>2. UNCHANGED <<server.rows, own.rows>>
    BY <1>0, <1>4, <1>5, <2>1 DEF AddColumn, ExecCreateTable, ExecAlterTable
  <2> QED
    BY <1>5, <2>2 DEF AddColumn, Goto, Moveless, batchVars, callVars
<1>6. CASE OtherSession
  BY <1>4, <1>6 DEF OtherSession, Moveless, batchVars, callVars
<1>7. CASE Commit
  BY <1>7 DEF Commit, Commits, Goto, batchVars, callVars
<1>8. CASE UNCHANGED vars
  BY <1>0, <1>8 DEF vars, Moveless, batchVars, callVars
<1> QED
  BY <1>1, <1>2, <1>3, <1>5, <1>6, <1>7, <1>8 DEF Next, ThreadStep

(* Where the rows are afterwards. *)
LEMMA ReadMoves ==
  ASSUME TypeOK, ReadMessage
  PROVE  /\ Head(pipe) \in Row
         /\ InBatch' = InBatch \cup {Head(pipe)}
         /\ Range(pipe) = {Head(pipe)} \cup Range(pipe')
         /\ UNCHANGED <<server, own, sent, lost>>
<1> DEFINE m == Head(pipe)
<1>1. /\ pipe \in Seq(Row) /\ pipe # <<>> /\ pipe' = Tail(pipe)
      /\ batch' = [batch EXCEPT ![m.table] = Append(@, m)]
      /\ UNCHANGED <<server, own, sent, lost>>
  BY DEF TypeOK, ReadMessage, pgVars, callVars
<1>2. m \in Row /\ m.table \in Tables
  <2>1. m \in Row
    BY <1>1
  <2> QED
    BY <2>1 DEF Row
<1> HIDE DEF m
<1>3. /\ Range(batch'[m.table]) = Range(batch[m.table]) \cup {m}
      /\ \A t \in Tables \ {m.table} : batch'[t] = batch[t]
  BY <1>1, <1>2, BatchType, RangeAppend DEF TypeOK, ThreadTypeOK
<1>4. InBatch' = InBatch \cup {m}
  BY <1>2, <1>3 DEF InBatch
<1> QED
  BY <1>1, <1>2, <1>4, RangeTail DEF m

LEMMA InsertMoves ==
  ASSUME TypeOK, Insert
  PROVE  /\ cur \in Tables
         /\ server' = server
         /\ own'.rows = own.rows \cup Range(batch[cur])
         /\ InBatch' = UNION {Range(batch[t]) : t \in Tables \ {cur}}
         /\ UNCHANGED <<pipe, sent, lost>>
<1>1. cur \in Tables
  BY DEF Insert, TypeOK, ThreadTypeOK, Working
<1>2. server' = server /\ own'.rows = own.rows \cup Range(batch[cur])
  BY DEF Insert, RowsAdded, TypeOK, PgTypeOK, Db
<1>3. Range(batch'[cur]) = {} /\ \A t \in Tables \ {cur} : batch'[t] = batch[t]
  BY <1>1 DEF Insert, TypeOK, ThreadTypeOK, Range
<1>4. InBatch' = UNION {Range(batch[t]) : t \in Tables \ {cur}}
  BY <1>1, <1>3 DEF InBatch
<1> QED
  BY <1>1, <1>2, <1>4 DEF Insert, Goto, callVars

LEMMA CommitMoves ==
  ASSUME Committed
  PROVE  server'.rows = server.rows \cup own.rows /\ own'.rows = {}
BY DEF Committed, EmptyDb

LEMMA DeathMoves ==
  ASSUME ProcessGone
  PROVE  /\ InBatch' = {} /\ Range(pipe') = {} /\ sent' = sent
         /\ lost' = lost \cup Ids(Range(pipe) \cup InBatch \cup (own.rows \ server'.rows))
<1>1. \A t \in Tables : Range(batch'[t]) = {}
  BY DEF ProcessGone, NoBatch, Range
<1>2. Range(pipe') = {}
  BY DEF ProcessGone, Range
<1> QED
  BY <1>1, <1>2 DEF ProcessGone, InBatch

LEMMA OrderInit == Init => OrderInv
<1> SUFFICES ASSUME Init PROVE OrderInv
  OBVIOUS
<1>1. server.rows = {} /\ own.rows = {} /\ sent = 0
  BY DEF Init, PgInit, EmptyDb
<1>2. pipe = <<>> /\ \A t \in Tables : batch[t] = <<>>
  BY DEF Init, NoBatch
<1>3. Range(pipe) = {} /\ \A t \in Tables : Range(batch[t]) = {}
  BY <1>2 DEF Range
<1>4. InBatch = {}
  BY <1>3 DEF InBatch
<1>5. Sorted(pipe) /\ \A t \in Tables : Sorted(batch[t])
  BY <1>2 DEF Sorted
<1> QED
  BY <1>1, <1>3, <1>4, <1>5 DEF OrderInv, Before, Stored

LEMMA ReadOrder ==
  ASSUME TypeOK, OrderInv, ReadMessage
  PROVE  OrderInv'
<1> DEFINE m == Head(pipe)
<1>1. /\ m \in Row /\ InBatch' = InBatch \cup {m}
      /\ Range(pipe) = {m} \cup Range(pipe')
      /\ UNCHANGED <<server, own, sent>>
  BY ReadMoves
<1>2. m.table \in Tables /\ pipe \in Seq(Row) /\ pipe # <<>> /\ pipe' = Tail(pipe)
      /\ batch' = [batch EXCEPT ![m.table] = Append(@, m)]
  BY <1>1 DEF Row, ReadMessage, TypeOK
<1>3. Sorted(pipe') /\ \A r \in Range(pipe') : m.id < r.id
  BY <1>2, SortedTail DEF OrderInv
<1> HIDE DEF m
<1>4. \A t \in Tables : Sorted(batch'[t]) /\ \A r \in Range(batch'[t]) : r.table = t
  <2> SUFFICES ASSUME NEW t \in Tables
               PROVE  Sorted(batch'[t]) /\ \A r \in Range(batch'[t]) : r.table = t
    OBVIOUS
  <2>1. Sorted(batch[t]) /\ \A r \in Range(batch[t]) : r.table = t
    BY DEF OrderInv
  <2>2. CASE t # m.table
    BY <1>2, <2>1, <2>2 DEF TypeOK, ThreadTypeOK
  <2>3. CASE t = m.table
    <3>1. batch'[t] = Append(batch[t], m) /\ batch[t] \in Seq(Row)
      BY <1>2, <2>3 DEF TypeOK, ThreadTypeOK
    <3>2. \A r \in Range(batch[t]) : r.id < m.id
      BY <1>1 DEF OrderInv, InBatch
    <3>3. Sorted(batch'[t])
      BY <1>1, <2>1, <3>1, <3>2, SortedAppend
    <3>4. Range(batch'[t]) = Range(batch[t]) \cup {m}
      BY <1>1, <3>1, RangeAppend
    <3> QED
      BY <2>1, <2>3, <3>3, <3>4
  <2> QED
    BY <2>2, <2>3
<1>5. \A r \in InBatch', s \in Range(pipe') : r.id < s.id
  BY <1>1, <1>3 DEF OrderInv
<1>6. \A r \in Stored' \cup InBatch' \cup Range(pipe') : r.id <= sent'
  BY <1>1 DEF OrderInv, Stored
<1>7. /\ Before(server.rows, own.rows \cup InBatch \cup Range(pipe))'
      /\ Before(own.rows, InBatch \cup Range(pipe))'
  BY <1>1 DEF OrderInv, Before
<1> QED
  BY <1>3, <1>4, <1>5, <1>6, <1>7 DEF OrderInv

LEMMA WriteOrder ==
  ASSUME TypeOK, OrderInv, NEW c \in Callers, WriteMessage(c)
  PROVE  /\ OrderInv'
         /\ UNCHANGED <<server, own, batch>>
         /\ sent' = sent + 1 /\ lost' = lost
         /\ \E m \in Row : Range(pipe') = Range(pipe) \cup {m} /\ m.id = sent + 1
<1>1. PICK t \in Tables, s \in Sigs :
        pipe' = Append(pipe, [id |-> sent + 1, table |-> t, values |-> s])
  BY DEF WriteMessage
<1> DEFINE m == [id |-> sent + 1, table |-> t, values |-> s]
<1>2. /\ m \in Row /\ pipe \in Seq(Row) /\ pipe' = Append(pipe, m)
      /\ sent' = sent + 1 /\ sent \in Nat /\ m.id = sent + 1
      /\ UNCHANGED <<server, own, batch, lost>>
  BY <1>1 DEF WriteMessage, pgVars, batchVars, TypeOK, Row
<1> HIDE DEF m
<1>3. Range(pipe') = Range(pipe) \cup {m}
  BY <1>2, RangeAppend
<1>4. \A r \in Stored \cup InBatch \cup Range(pipe) : r.id < m.id /\ r.id <= sent'
  BY <1>2, RowsType DEF OrderInv, Stored, Row
<1>5. InBatch' = InBatch /\ Stored' = Stored
  BY <1>2 DEF InBatch, Stored
<1>6. Sorted(pipe')
  BY <1>2, <1>4, SortedAppend DEF OrderInv
<1>7. \A r \in Stored' \cup InBatch' \cup Range(pipe') : r.id <= sent'
  BY <1>2, <1>3, <1>4, <1>5
<1>8. /\ Before(server.rows, own.rows \cup InBatch \cup Range(pipe))'
      /\ Before(own.rows, InBatch \cup Range(pipe))'
      /\ \A r \in InBatch', s2 \in Range(pipe') : r.id < s2.id
  BY <1>2, <1>3, <1>4, <1>5 DEF OrderInv, Before, Stored
<1>9. OrderInv'
  BY <1>2, <1>6, <1>7, <1>8 DEF OrderInv
<1> QED
  BY <1>2, <1>3, <1>9

LEMMA InsertOrder ==
  ASSUME TypeOK, OrderInv, Insert
  PROVE  OrderInv' /\ Stored' \cup InBatch' = Stored \cup InBatch
<1>1. /\ cur \in Tables /\ server' = server
      /\ own'.rows = own.rows \cup Range(batch[cur])
      /\ InBatch' = UNION {Range(batch[t]) : t \in Tables \ {cur}}
      /\ UNCHANGED <<pipe, sent>>
  BY InsertMoves
<1>2. /\ Range(batch[cur]) \subseteq InBatch /\ InBatch' \subseteq InBatch
      /\ InBatch = InBatch' \cup Range(batch[cur])
  BY <1>1 DEF InBatch
<1>3. \A r \in Range(batch[cur]), s \in InBatch' : r.table # s.table
  BY <1>1 DEF OrderInv
<1>4. \A t \in Tables : batch'[t] = batch[t] \/ batch'[t] = <<>>
  BY DEF Insert, TypeOK, ThreadTypeOK
<1>5. \A t \in Tables : Sorted(batch'[t]) /\ \A r \in Range(batch'[t]) : r.table = t
  BY <1>4 DEF OrderInv, Sorted, Range
<1>6. \A r \in Stored' \cup InBatch' \cup Range(pipe') : r.id <= sent'
  BY <1>1, <1>2 DEF OrderInv, Stored
<1>7. /\ Before(server.rows, own.rows \cup InBatch \cup Range(pipe))'
      /\ Before(own.rows, InBatch \cup Range(pipe))'
      /\ \A r \in InBatch', s \in Range(pipe') : r.id < s.id
  BY <1>1, <1>2, <1>3 DEF OrderInv, Before
<1>8. Stored' \cup InBatch' = Stored \cup InBatch
  BY <1>1, <1>2 DEF Stored
<1> QED
  BY <1>1, <1>5, <1>6, <1>7, <1>8 DEF OrderInv

LEMMA DeathOrder ==
  ASSUME TypeOK, OrderInv, Dies
  PROVE  /\ OrderInv' /\ own'.rows = {} /\ InBatch' = {} /\ Range(pipe') = {}
         /\ server'.rows \in {server.rows, server.rows \cup own.rows}
<1>1. /\ InBatch' = {} /\ Range(pipe') = {} /\ sent' = sent
  BY DeathMoves DEF Dies
<1>2. /\ own'.rows = {}
      /\ server'.rows \in {server.rows, server.rows \cup own.rows}
  BY CommitMoves DEF Dies, RolledBack, EmptyDb
<1>3. /\ Sorted(pipe')
      /\ \A t \in Tables : Sorted(batch'[t]) /\ Range(batch'[t]) = {}
  BY DEF Dies, ProcessGone, NoBatch, Sorted, Range
<1>4. \A r \in Stored' : r \in Stored
  BY <1>2 DEF Stored
<1> QED
  BY <1>1, <1>2, <1>3, <1>4 DEF OrderInv, Before, Stored

LEMMA CommitOrder ==
  ASSUME TypeOK, OrderInv, Commits
  PROVE  /\ OrderInv' /\ server'.rows = server.rows \cup own.rows
         /\ own'.rows = {} /\ UNCHANGED <<batch, pipe, sent, lost>>
<1>1. /\ server'.rows = server.rows \cup own.rows /\ own'.rows = {}
      /\ UNCHANGED <<batch, pipe, sent, lost>>
  BY CommitMoves DEF Commits
<1>2. InBatch' = InBatch /\ Stored' = Stored
  BY <1>1 DEF InBatch, Stored
<1> QED
  BY <1>1, <1>2 DEF OrderInv, Before

LEMMA OrderStep ==
  ASSUME TypeOK, OrderInv, [Next]_vars
  PROVE  OrderInv'
<1>1. CASE Moveless
  BY <1>1 DEF Moveless, OrderInv, Before, Stored, InBatch
<1> QED
  BY <1>1, RowStepKinds, ReadOrder, WriteOrder, InsertOrder, DeathOrder, CommitOrder

LEMMA OrderInvariant == Spec => []OrderInv
BY OrderInit, OrderStep, TypeCorrect, PTL DEF Spec

(* Nothing is in two places, or twice in one. *)
LEMMA SortedInjective ==
  ASSUME NEW q \in Seq(Row), Sorted(q)
  PROVE  IsInjective(q)
<1>1. \A i \in DOMAIN q : q[i].id \in Nat
  <2>1. \A i \in DOMAIN q : q[i] \in Row
    OBVIOUS
  <2>2. \A r \in Row : r.id \in Nat
    BY DEF Row
  <2> QED
    BY <2>1, <2>2
<1>2. DOMAIN q = 1..Len(q) /\ Len(q) \in Nat
  OBVIOUS
<1>3. ASSUME NEW i \in DOMAIN q, NEW j \in DOMAIN q, q[i] = q[j]
      PROVE  i = j
  BY <1>1, <1>2, <1>3 DEF Sorted
<1> QED
  BY <1>3 DEF IsInjective

LEMMA PlacesApart ==
  ASSUME TypeOK, OrderInv
  PROVE  /\ server.rows \cap own.rows = {}
         /\ InBatch \cap Stored = {}
         /\ Range(pipe) \cap (Stored \cup InBatch) = {}
<1>1. \A r \in Present : ~(r.id < r.id)
  <2>1. \A r \in Row : r.id \in Nat
    BY DEF Row
  <2>2. Present \subseteq Row
    BY RowsType DEF Present, Stored
  <2> QED
    BY <2>1, <2>2
<1> QED
  BY <1>1 DEF OrderInv, Before, Present, Stored

(***************************************************************************)
(* Every message written is somewhere, or was lost; the order of the rows  *)
(* tells that the places a dying process leaves and those it does not have *)
(* no row in common.                                                       *)
(***************************************************************************)
PlaceInv ==
  /\ Ids(Present) \cup lost = 1..sent
  /\ Ids(Present) \cap lost = {}
  /\ \A r, s \in Present : r.id = s.id => r = s

LEMMA PlaceInit == Init => PlaceInv
<1> SUFFICES ASSUME Init PROVE PlaceInv
  OBVIOUS
<1>1. server.rows = {} /\ own.rows = {} /\ sent = 0 /\ lost = {}
  BY DEF Init, PgInit, EmptyDb
<1>2. Range(pipe) = {} /\ InBatch = {}
  BY DEF Init, NoBatch, Range, InBatch
<1>3. Present = {}
  BY <1>1, <1>2 DEF Present, Stored
<1> QED
  BY <1>1, <1>3 DEF PlaceInv, Ids

(* A row that is written takes the next number. *)
LEMMA WritePlace ==
  ASSUME TypeOK, OrderInv, PlaceInv, NEW c \in Callers, WriteMessage(c)
  PROVE  PlaceInv'
<1>1. PICK m \in Row : Range(pipe') = Range(pipe) \cup {m} /\ m.id = sent + 1
  BY WriteOrder
<1>2. UNCHANGED <<server, own, batch, lost>> /\ sent' = sent + 1 /\ sent \in Nat
  BY WriteOrder, RowsType
<1>3. Present' = Present \cup {m}
  BY <1>1, <1>2 DEF Present, Stored, InBatch
<1>4. Ids(Present') = Ids(Present) \cup {sent + 1}
  BY <1>1, <1>3 DEF Ids
<1>5. 1..(sent + 1) = (1..sent) \cup {sent + 1}
  BY <1>2
<1>6. sent + 1 \notin 1..sent
  BY <1>2
<1>7. Ids(Present') \cup lost' = 1..sent'
  BY <1>2, <1>4, <1>5 DEF PlaceInv
<1>8. Ids(Present') \cap lost' = {}
  BY <1>2, <1>4, <1>6 DEF PlaceInv
<1>9. \A r \in Present : r.id # m.id
  BY <1>1, <1>6 DEF PlaceInv, Ids
<1>10. \A r, s \in Present' : r.id = s.id => r = s
  BY <1>3, <1>9 DEF PlaceInv
<1> QED
  BY <1>7, <1>8, <1>10 DEF PlaceInv

(* What the server does not keep is lost, and nothing else. *)
LEMMA DeathPlace ==
  ASSUME TypeOK, OrderInv, PlaceInv, Dies
  PROVE  PlaceInv'
<1> DEFINE gone == Range(pipe) \cup InBatch \cup (own.rows \ server'.rows)
<1>1. /\ own'.rows = {} /\ InBatch' = {} /\ Range(pipe') = {}
      /\ server'.rows \in {server.rows, server.rows \cup own.rows}
  BY DeathOrder
<1>2. lost' = lost \cup Ids(gone) /\ sent' = sent
  BY DeathMoves DEF Dies
<1>3. Present' = server'.rows
  BY <1>1 DEF Present, Stored
<1>4. Present = server'.rows \cup gone /\ server'.rows \cap gone = {}
  BY <1>1, PlacesApart DEF Present, Stored
<1> HIDE DEF gone
<1>5. Ids(Present) = Ids(server'.rows) \cup Ids(gone)
  BY <1>4 DEF Ids
<1>6. Ids(server'.rows) \cap Ids(gone) = {}
  <2>1. ASSUME NEW r \in server'.rows, NEW s \in gone PROVE r.id # s.id
    BY <1>4 DEF PlaceInv
  <2> QED
    BY <2>1 DEF Ids
<1>7. Ids(Present') \cup lost' = 1..sent' /\ Ids(Present') \cap lost' = {}
  BY <1>2, <1>3, <1>5, <1>6 DEF PlaceInv
<1>8. \A r, s \in Present' : r.id = s.id => r = s
  BY <1>3, <1>4 DEF PlaceInv
<1> QED
  BY <1>7, <1>8 DEF PlaceInv

LEMMA PlaceStep ==
  ASSUME TypeOK, OrderInv, PlaceInv, [Next]_vars
  PROVE  PlaceInv'
<1>0. ASSUME Present' = Present, UNCHANGED <<sent, lost>> PROVE PlaceInv'
  BY <1>0 DEF PlaceInv
<1>1. CASE Moveless
  BY <1>0, <1>1 DEF Moveless, Present, Stored, InBatch
<1>2. CASE Commits
  BY <1>0, <1>2, CommitOrder DEF Present, Stored, InBatch
<1>3. CASE ReadMessage
  BY <1>0, <1>3, ReadMoves DEF Present, Stored
<1>4. CASE Insert
  BY <1>0, <1>4, InsertOrder, InsertMoves DEF Present
<1> QED
  BY <1>1, <1>2, <1>3, <1>4, WritePlace, DeathPlace, RowStepKinds

LEMMA PlaceInvariant == Spec => []PlaceInv
BY PlaceInit, PlaceStep, TypeCorrect, OrderInvariant, PTL DEF Spec

(* Each message that was written to the pipe is in exactly one place, once: the
   pipe, the batch of its table, the open transaction or the database; or it
   died with its process.  So none is dropped on the way, and no row is
   inserted twice. *)
THEOREM EachOnce == Spec => []EachRowOnce
<1>1. ASSUME TypeOK, OrderInv, PlaceInv PROVE EachRowOnce
  <2>1. pipe \in Seq(Row) /\ Sorted(pipe)
    BY <1>1 DEF TypeOK, OrderInv
  <2>2. ASSUME NEW t \in Tables
        PROVE  IsInjective(batch[t]) /\ \A m \in Range(batch[t]) : m.table = t
    <3>1. batch[t] \in Seq(Row) /\ Sorted(batch[t])
      BY <1>1, BatchType DEF OrderInv
    <3> QED
      BY <1>1, <3>1, SortedInjective DEF OrderInv
  <2> QED
    BY <1>1, <2>1, <2>2, PlacesApart, SortedInjective DEF EachRowOnce, PlaceInv
<1> QED
  BY <1>1, TypeCorrect, OrderInvariant, PlaceInvariant, PTL

----------------------------------------------------------------------------
(***************************************************************************)
(* The writer implements RowLog.                                           *)
(***************************************************************************)
(* The rows the server has, and those it will have after a commit, are the
   first of their tables. *)
LEMMA ServerFirst ==
  ASSUME TypeOK, OrderInv
  PROVE  /\ Log!FirstOf(server.rows, Present)
         /\ Log!FirstOf(server.rows \cup own.rows, Present)
<1>1. \A r, s \in Present : ~(r.id < s.id /\ s.id < r.id)
  BY RowsType DEF Present, Stored, Row
<1> QED
  BY <1>1 DEF Log!FirstOf, OrderInv, Before, Present, Stored

(* The rows of a table become durable in the order of their calls, and only a
   process that dies loses any, the last ones of each table. *)
THEOREM RowLogImplemented == Spec => ImplementsRowLog
<1>1. Init => Log!Init
  <2> SUFFICES ASSUME Init PROVE Log!Init
    OBVIOUS
  <2>1. server.rows = {} /\ own.rows = {}
    BY DEF Init, PgInit, EmptyDb
  <2>2. Range(pipe) = {} /\ InBatch = {}
    BY DEF Init, NoBatch, Range, InBatch
  <2> QED
    BY <2>1, <2>2 DEF Log!Init, Present, Stored
<1>2. ASSUME TypeOK, OrderInv, [Next]_vars
      PROVE  [Log!Next]_<<Present, server.rows>>
  <2>0. /\ Log!FirstOf(server.rows, Present)
        /\ Log!FirstOf(server.rows \cup own.rows, Present)
    BY <1>2, ServerFirst
  <2>1. CASE Moveless
    BY <2>1 DEF Moveless, Present, Stored, InBatch
  <2>2. CASE ReadMessage
    BY <1>2, <2>2, ReadMoves DEF Present, Stored
  <2>3. CASE Insert
    <3>1. Present' = Present /\ server' = server
      BY <1>2, <2>3, InsertOrder, InsertMoves DEF Present
    <3> QED
      BY <3>1
  <2>4. ASSUME NEW c \in Callers, WriteMessage(c) PROVE Log!Next
    <3>1. PICK m \in Row : Range(pipe') = Range(pipe) \cup {m} /\ m.id = sent + 1
      BY <1>2, <2>4, WriteOrder
    <3>2. UNCHANGED <<server, own, batch>>
      BY <1>2, <2>4, WriteOrder
    <3>3. Present' = Present \cup {m}
      BY <3>1, <3>2 DEF Present, Stored, InBatch
    <3>4. \A s \in Present : s.id < m.id
      BY <1>2, <3>1, RowsType DEF OrderInv, Present, Stored, Row
    <3>5. Log!Accept
      BY <3>2, <3>3, <3>4 DEF Log!Accept, Present
    <3> QED
      BY <3>5 DEF Log!Next
  <2>5. CASE Commits
    <3>1. Present' = Present /\ server'.rows = server.rows \cup own.rows
      BY <1>2, <2>5, CommitOrder DEF Present, Stored, InBatch
    <3>2. Log!Commit
      BY <2>0, <3>1 DEF Log!Commit, Log!Progress, Present, Stored
    <3> QED
      BY <3>2 DEF Log!Next
  <2>6. CASE Dies
    <3>1. Present' = server'.rows
          /\ server'.rows \in {server.rows, server.rows \cup own.rows}
      BY <1>2, <2>6, DeathOrder DEF Present, Stored
    <3>2. Log!Die
      BY <2>0, <3>1 DEF Log!Die, Log!Progress, Present, Stored
    <3> QED
      BY <3>2 DEF Log!Next
  <2> QED
    BY <1>2, <2>1, <2>2, <2>3, <2>4, <2>5, <2>6, RowStepKinds
<1> QED
  BY <1>1, <1>2, TypeCorrect, OrderInvariant, PTL
  DEF Spec, ImplementsRowLog, Log!Spec, Present

----------------------------------------------------------------------------
(***************************************************************************)
(* The end.  Nobody calls a writer that is not open, so a pipe that was    *)
(* found empty once it was closed stays empty, and what the last commit    *)
(* leaves stays.                                                           *)
(***************************************************************************)
Ending == phase = "joining" /\ pipe = <<>> /\ NoWork

EndInv ==
  /\ phase # "open" => \A c \in Callers : pc[c] = "idle"
  /\ phase = "off" => pipe = <<>>
  /\ tpc = "lastcommit" => Ending
  /\ tpc = "exited" => Ending /\ own.rows = {}

LEMMA EndStep ==
  ASSUME TypeOK, EndInv, [Next]_vars
  PROVE  EndInv'
<1>1. CASE Open
  BY <1>1 DEF Open, EndInv
<1>2. CASE Crash \/ PollInterrupted \/ Join \/ ServerFails
  BY <1>2 DEF Crash, PollInterrupted, Join, ServerFails, Terminate, ProcessGone, EndInv
<1>3. CASE Destroy
  BY <1>3 DEF Destroy, EndInv, Ending
<1>4. ASSUME NEW c \in Callers, CallAddValue(c) PROVE EndInv'
  BY <1>4 DEF CallAddValue, EndInv, Ending
<1>5. ASSUME NEW c \in Callers, WriteMessage(c) PROVE EndInv'
  <2>1. phase = "open" /\ phase' = phase /\ tpc' = tpc
    BY <1>5 DEF WriteMessage, EndInv
  <2> QED
    BY <2>1 DEF EndInv, Ending
<1>6. CASE Connect \/ ReadMessage \/ StopReading \/ NextTable \/ NoMoreTables
           \/ MissField \/ MissNoField \/ AddColumn \/ Insert \/ Begin
  BY <1>6 DEF Connect, ReadMessage, StopReading, NextTable, NoMoreTables, MissField,
    MissNoField, AddColumn, Insert, Begin, Goto, EndInv, callVars
<1>7. CASE ReadNothing
  <2>1. /\ phase' = phase /\ pc' = pc /\ pipe' = pipe /\ batch' = batch
        /\ tpc' \in {"tables", "lastcommit"}
        /\ tpc' = "lastcommit" => phase = "joining" /\ pipe = <<>> /\ NoWork
    BY <1>7 DEF ReadNothing, Goto, callVars, batchVars
  <2> QED
    BY <2>1 DEF EndInv, Ending, NoWork
<1>8. CASE Commit
  <2>1. /\ phase' = phase /\ pc' = pc /\ pipe' = pipe /\ batch' = batch
        /\ tpc' \in {"begin", "exited"}
        /\ tpc' = "exited" => tpc = "lastcommit"
        /\ own'.rows = {}
    BY <1>8, CommitMoves DEF Commit, Goto, callVars, batchVars
  <2> QED
    BY <2>1 DEF EndInv, Ending, NoWork
<1>9. CASE SecondPasses \/ OtherSession \/ UNCHANGED vars
  <2>1. UNCHANGED <<phase, pc, tpc, pipe, batch, own>>
    BY <1>9 DEF SecondPasses, OtherSession, OtherAdds, vars, callVars, batchVars, pgVars
  <2> QED
    BY <2>1 DEF EndInv, Ending, NoWork
<1> QED
  BY <1>1, <1>2, <1>3, <1>4, <1>5, <1>6, <1>7, <1>8, <1>9 DEF Next, ThreadStep

LEMMA EndInvariant == Spec => []EndInv
<1>1. Init => EndInv
  BY DEF Init, EndInv
<1> QED
  BY <1>1, EndStep, TypeCorrect, PTL DEF Spec

(* A message in the pipe, or a caller that is to write one, has a thread that
   will read it: nothing is left in a pipe without a reader, whatever calls
   were in progress when the writer was destroyed or the process died. *)
THEOREM PipeIsRead == Spec => []PipeHasReader
<1>1. ASSUME TypeOK, EndInv PROVE PipeHasReader
  <2>1. tpc \in {"none", "lastcommit", "exited"} => phase # "open" /\ pipe = <<>>
    BY <1>1 DEF TypeOK, EndInv, Ending
  <2> QED
    BY <1>1, <2>1 DEF PipeHasReader, EndInv
<1> QED
  BY <1>1, EndInvariant, TypeCorrect, PTL

(* When the thread returns, all that was given to it is in the database. *)
THEOREM CleanEnd == Spec => []CleanEndStoresAll
<1>1. ASSUME EndInv PROVE CleanEndStoresAll
  <2> SUFFICES ASSUME tpc = "exited"
               PROVE  Range(pipe) \cup InBatch \cup own.rows = {}
    BY DEF CleanEndStoresAll
  <2>1. pipe = <<>> /\ NoWork /\ own.rows = {}
    BY <1>1 DEF EndInv, Ending
  <2>2. Range(pipe) = {} /\ \A t \in Tables : Range(batch[t]) = {}
    BY <2>1 DEF NoWork, Range
  <2> QED
    BY <2>1, <2>2 DEF InBatch
<1> QED
  BY <1>1, EndInvariant, PTL

----------------------------------------------------------------------------
(***************************************************************************)
(* The fields.  With names in lower case, and if nobody else makes tables  *)
(* or columns, what the thread remembers of a table is there.              *)
(***************************************************************************)
FieldsInv ==
  /\ \A t \in Tables : schemas[t] \subseteq ColumnsOf(t)
  /\ tpc = "create" => ~haveTable(cur)

LowerCase == \A n \in Tables \cup Columns : Lower[n] = n

(* Columns stay, until the process is gone. *)
LEMMA ColumnsStay ==
  ASSUME TypeOK,
         UNCHANGED pgVars \/ Committed \/ \E rows : RowsAdded(rows)
  PROVE  \A t \in Tables : ColumnsOf(t)' = ColumnsOf(t)
<1>1. CASE UNCHANGED pgVars
  BY <1>1 DEF pgVars, ColumnsOf
<1>2. CASE Committed
  BY <1>2 DEF Committed, ColumnsOf, EmptyDb
<1>3. CASE \E rows : RowsAdded(rows)
  BY <1>3 DEF RowsAdded, ColumnsOf, TypeOK, PgTypeOK, Db
<1> QED
  BY <1>1, <1>2, <1>3

LEMMA FieldsStep ==
  ASSUME LowerCase, Outsiders = {}, TypeOK, FieldsInv, [Next]_vars
  PROVE  FieldsInv'
<1>0. ASSUME \A t \in Tables : ColumnsOf(t)' = ColumnsOf(t), schemas' = schemas,
             tpc' = "create" => tpc = "create" /\ cur' = cur
      PROVE  FieldsInv'
  <2>1. tpc = "create" => cur \in Tables
    BY DEF TypeOK, ThreadTypeOK, Working
  <2> QED
    BY <1>0, <2>1 DEF FieldsInv, haveTable, getSchema
<1>1. CASE Open \/ Destroy \/ Connect \/ StopReading \/ ReadMessage \/ ReadNothing
           \/ NoMoreTables \/ MissNoField \/ Begin \/ SecondPasses
  BY <1>0, <1>1, ColumnsStay DEF Open, Destroy, Connect, StopReading, ReadMessage,
    ReadNothing, NoMoreTables, MissNoField, Begin, SecondPasses, Goto, cacheVars, callVars
<1>2. CASE Crash \/ PollInterrupted \/ Join \/ ServerFails
  <2>1. schemas' = NoSchemas /\ tpc' = "none"
    BY <1>2 DEF Crash, PollInterrupted, Join, ServerFails, Terminate, ProcessGone
  <2> QED
    BY <2>1 DEF FieldsInv, NoSchemas
<1>3. ASSUME NEW c \in Callers, CallAddValue(c) \/ WriteMessage(c) PROVE FieldsInv'
  BY <1>0, <1>3, ColumnsStay DEF CallAddValue, WriteMessage, cacheVars
<1>4. CASE NextTable
  <2>1. PICK t \in Tables :
          schemas' = IF t \in known THEN schemas
                     ELSE [schemas EXCEPT ![t] = getSchema(t)]
    BY <1>4 DEF NextTable
  <2>2. tpc' = "fields" /\ \A u \in Tables : ColumnsOf(u)' = ColumnsOf(u)
    BY <1>4, ColumnsStay DEF NextTable, Goto
  <2>3. \A u \in Tables : schemas'[u] \subseteq ColumnsOf(u)
    BY <2>1 DEF FieldsInv, getSchema, TypeOK, ThreadTypeOK
  <2> QED
    BY <2>2, <2>3 DEF FieldsInv
<1>5. CASE MissField
  <2>1. /\ cur' = cur /\ cur \in Tables /\ schemas' = schemas
        /\ tpc' = "create" => ~haveTable(cur)
    BY <1>5 DEF MissField, Goto, cacheVars, TypeOK, ThreadTypeOK, Working
  <2>2. \A u \in Tables : ColumnsOf(u)' = ColumnsOf(u)
    BY <1>5, ColumnsStay DEF MissField
  <2> QED
    BY <2>1, <2>2 DEF FieldsInv, haveTable, getSchema
<1>6. CASE AddColumn
  <2>1. /\ cur \in Tables /\ col \in Columns /\ tpc' = "fields"
        /\ schemas' = [schemas EXCEPT ![cur] = @ \cup {col}]
        /\ Lower[cur] = cur /\ Lower[col] = col
    BY <1>6 DEF AddColumn, Goto, TypeOK, ThreadTypeOK, Working, LowerCase
  <2>2. ColumnAdded(cur, col)
    BY <1>6, <2>1 DEF AddColumn, ExecCreateTable, ExecAlterTable, FieldsInv
  <2>3. /\ \A u \in Tables : ColumnsOf(u) \subseteq ColumnsOf(u)'
        /\ \A u \in Tables : u = cur => col \in ColumnsOf(u)'
    <3>1. own.schema \in [Tables -> SUBSET Columns]
      BY DEF TypeOK, PgTypeOK, Db
    <3>2. /\ server' = server
          /\ own'.schema = [own.schema EXCEPT ![cur] = @ \cup {col}]
      BY <2>2 DEF ColumnAdded, TypeOK, PgTypeOK, Db
    <3> QED
      BY <2>1, <3>1, <3>2 DEF ColumnsOf
  <2>4. \A u \in Tables : schemas'[u] \subseteq ColumnsOf(u)'
    <3>1. /\ schemas \in [Tables -> SUBSET Columns]
          /\ \A u \in Tables : schemas[u] \subseteq ColumnsOf(u)
      BY DEF TypeOK, ThreadTypeOK, FieldsInv
    <3>2. \A u \in Tables : schemas'[u] = IF u = cur THEN schemas[u] \cup {col}
                                          ELSE schemas[u]
      BY <2>1, <3>1
    <3>3. ASSUME NEW u \in Tables PROVE schemas'[u] \subseteq ColumnsOf(u)'
      <4>1. schemas[u] \subseteq ColumnsOf(u)'
        BY <2>3, <3>1
      <4>2. CASE u = cur
        <5>1. col \in ColumnsOf(u)'
          BY <2>3, <4>2
        <5>2. schemas'[u] = schemas[u] \cup {col}
          BY <3>2, <4>2
        <5> QED
          BY <4>1, <5>1, <5>2
      <4>3. CASE u # cur
        BY <3>2, <4>1, <4>3
      <4> QED
        BY <4>2, <4>3
    <3> QED
      BY <3>3
  <2> QED
    BY <2>1, <2>4 DEF FieldsInv
<1>7. CASE Insert
  <2>1. \E rows : RowsAdded(rows)
    BY <1>7 DEF Insert
  <2> QED
    BY <1>0, <1>7, <2>1, ColumnsStay DEF Insert, Goto, cacheVars
<1>8. CASE Commit
  BY <1>0, <1>8, ColumnsStay DEF Commit, Goto, cacheVars
<1>9. CASE OtherSession
  BY <1>9 DEF OtherSession
<1>10. CASE UNCHANGED vars
  BY <1>0, <1>10, ColumnsStay DEF vars, cacheVars
<1> QED
  BY <1>1, <1>2, <1>3, <1>4, <1>5, <1>6, <1>7, <1>8, <1>9, <1>10 DEF Next, ThreadStep

(* What the thread takes for a column of a table is one, so an INSERT finds
   its columns: if names are in lower case, which is what the folding of names
   without quotes needs, and no other session makes tables or columns. *)
THEOREM FieldsAreThere ==
  ASSUME LowerCase, Outsiders = {}
  PROVE  Spec => []FieldsMatch
<1>1. Init => FieldsInv
  BY DEF Init, FieldsInv, NoSchemas
<1>2. ASSUME TypeOK, FieldsInv PROVE FieldsMatch
  <2>1. \A t \in Tables : schemas[t] \subseteq Columns
    BY <1>2 DEF TypeOK, ThreadTypeOK
  <2> QED
    BY <1>2, <2>1 DEF FieldsMatch, FieldsInv, LowerCase, getSchema
<1>3. LowerCase /\ Outsiders = {}
  OBVIOUS
<1>4. Spec => []FieldsInv
  BY <1>1, <1>3, FieldsStep, TypeCorrect, PTL DEF Spec
<1> QED
  BY <1>2, <1>4, TypeCorrect, PTL

----------------------------------------------------------------------------
(***************************************************************************)
(* The limits.  A table's messages that all have the fields s have no more *)
(* fields than the batch, and the last of them was read below the limit.   *)
(***************************************************************************)
Uniform(t, s) == \A m \in Range(batch[t]) : m.values = s

ParmsInv ==
  \A t \in Tables, s \in Sigs :
    LET parms == Len(batch[t]) * Cardinality(s) IN
    Uniform(t, s) => parms <= sumparms /\ parms < MaxParms + Cardinality(s)

LEMMA SigSize ==
  ASSUME NEW s \in Sigs
  PROVE  Cardinality(s) \in Nat
<1>1. s \subseteq Columns
  OBVIOUS
<1> QED
  BY <1>1, FS_Subset, FS_CardinalityType

LEMMA NoParms ==
  ASSUME NEW s \in Sigs, NEW q, q = <<>>
  PROVE  Len(q) * Cardinality(s) = 0
<1>1. Len(q) = 0
  OBVIOUS
<1>2. \A k \in Nat : 0 * k = 0
  OBVIOUS
<1> QED
  BY <1>1, <1>2, SigSize

LEMMA OneMore ==
  ASSUME NEW n \in Nat, NEW k \in Nat
  PROVE  n * k \in Nat /\ (n + 1) * k = n * k + k
OBVIOUS

(* One more message: of its own table it adds what the batch gets, and those of
   other tables stay. *)
LEMMA ReadParms ==
  ASSUME TypeOK, ParmsInv, ReadMessage
  PROVE  ParmsInv'
<1> DEFINE m == Head(pipe)
           k == Cardinality(m.values)
<1>1. m \in Row /\ k \in Nat /\ sumparms \in Nat /\ sumparms < MaxParms
  <2>1. m \in Row
    BY DEF TypeOK, ReadMessage
  <2> QED
    BY <2>1, FieldsFinite DEF TypeOK, ThreadTypeOK, ReadMessage, Full
<1>2. /\ batch' = [batch EXCEPT ![m.table] = Append(@, m)]
      /\ sumparms' = sumparms + k
  BY DEF ReadMessage
<1>3. batch \in [Tables -> Seq(Row)] /\ m.table \in Tables
  BY <1>1 DEF TypeOK, ThreadTypeOK, Row
<1> HIDE DEF k, m
<1> SUFFICES ASSUME NEW t \in Tables, NEW s \in Sigs, Uniform(t, s)'
             PROVE  /\ Len(batch'[t]) * Cardinality(s) <= sumparms'
                    /\ Len(batch'[t]) * Cardinality(s) < MaxParms + Cardinality(s)
  BY DEF ParmsInv
<1> DEFINE parms == Len(batch[t]) * Cardinality(s)
<1>4. Cardinality(s) \in Nat /\ Len(batch[t]) \in Nat /\ batch[t] \in Seq(Row)
  BY <1>3, SigSize
<1>5. parms \in Nat
  BY <1>4, OneMore
<1>6. CASE t = m.table
  <2>1. batch'[t] = Append(batch[t], m)
    BY <1>2, <1>3, <1>6
  <2>2. Range(batch'[t]) = Range(batch[t]) \cup {m}
    BY <1>1, <1>4, <2>1, RangeAppend
  <2>3. Uniform(t, s) /\ m.values = s
    BY <2>2 DEF Uniform
  <2>4. k = Cardinality(s)
    BY <2>3 DEF k
  <2>5. parms <= sumparms
    BY <2>3 DEF ParmsInv
  <2>6. Len(batch'[t]) = Len(batch[t]) + 1
    BY <1>4, <2>1
  <2>7. Len(batch'[t]) * Cardinality(s) = parms + Cardinality(s)
    BY <1>4, <2>6, OneMore
  <2> HIDE DEF parms
  <2> QED
    BY <1>1, <1>2, <1>4, <1>5, <2>4, <2>5, <2>7
<1>7. CASE t # m.table
  <2>1. batch'[t] = batch[t]
    BY <1>2, <1>3, <1>7
  <2>2. parms <= sumparms /\ parms < MaxParms + Cardinality(s)
    BY <2>1 DEF ParmsInv, Uniform
  <2> HIDE DEF parms
  <2>3. Len(batch'[t]) * Cardinality(s) = parms
    BY <2>1 DEF parms
  <2> QED
    BY <1>1, <1>2, <1>4, <1>5, <2>2, <2>3
<1> QED
  BY <1>6, <1>7

LEMMA ParmsStep ==
  ASSUME TypeOK, ParmsInv, [Next]_vars
  PROVE  ParmsInv'
<1>1. ASSUME batch' = NoBatch, sumparms' \in Nat PROVE ParmsInv'
  <2> SUFFICES ASSUME NEW t \in Tables, NEW s \in Sigs
               PROVE  /\ Len(batch'[t]) * Cardinality(s) <= sumparms'
                      /\ Len(batch'[t]) * Cardinality(s) < MaxParms + Cardinality(s)
    BY DEF ParmsInv
  <2>1. Len(batch'[t]) * Cardinality(s) = 0
    BY <1>1, NoParms DEF NoBatch
  <2> QED
    BY <1>1, <2>1, SigSize
<1>2. ASSUME UNCHANGED <<batch, sumparms>> PROVE ParmsInv'
  BY <1>2 DEF ParmsInv, Uniform
<1>3. CASE Crash \/ Join \/ PollInterrupted \/ ServerFails
  <2>1. batch' = NoBatch /\ sumparms' = 0
    BY <1>3 DEF Crash, Join, PollInterrupted, ServerFails, Terminate, ProcessGone
  <2> QED
    BY <1>1, <2>1
<1>4. CASE NoMoreTables
  <2>1. batch' = batch /\ sumparms' = 0 /\ \A t \in Tables : batch[t] = <<>>
    BY <1>4 DEF NoMoreTables, NoWork
  <2>2. batch' = NoBatch
    BY <2>1 DEF NoBatch, TypeOK, ThreadTypeOK
  <2> QED
    BY <1>1, <2>1, <2>2
<1>5. CASE Insert
  <2>1. /\ batch' = [batch EXCEPT ![cur] = <<>>] /\ sumparms' = sumparms
        /\ cur \in Tables
    BY <1>5 DEF Insert, TypeOK, ThreadTypeOK, Working
  <2> SUFFICES ASSUME NEW t \in Tables, NEW s \in Sigs, Uniform(t, s)'
               PROVE  /\ Len(batch'[t]) * Cardinality(s) <= sumparms'
                      /\ Len(batch'[t]) * Cardinality(s) < MaxParms + Cardinality(s)
    BY DEF ParmsInv
  <2>2. sumparms \in Nat /\ batch \in [Tables -> Seq(Row)]
    BY DEF TypeOK, ThreadTypeOK
  <2>3. CASE t = cur
    <3>1. Len(batch'[t]) * Cardinality(s) = 0
      BY <2>1, <2>2, <2>3, NoParms
    <3> QED
      BY <2>1, <2>2, <3>1, SigSize
  <2>4. CASE t # cur
    <3>1. batch'[t] = batch[t]
      BY <2>1, <2>2, <2>4
    <3> QED
      BY <2>1, <3>1 DEF ParmsInv, Uniform
  <2> QED
    BY <2>3, <2>4
<1>6. ASSUME NEW c \in Callers, CallAddValue(c) \/ WriteMessage(c) PROVE ParmsInv'
  BY <1>2, <1>6 DEF CallAddValue, WriteMessage, batchVars
<1>7. CASE Open \/ Destroy \/ Connect \/ ReadNothing \/ StopReading \/ NextTable
           \/ MissField \/ MissNoField \/ AddColumn \/ Commit \/ Begin
           \/ SecondPasses \/ OtherSession \/ UNCHANGED vars
  BY <1>2, <1>7 DEF Open, Destroy, Connect, ReadNothing, StopReading, NextTable, MissField,
    MissNoField, AddColumn, Commit, Begin, SecondPasses, OtherSession, vars, batchVars
<1> QED
  BY <1>3, <1>4, <1>5, <1>6, <1>7, ReadParms DEF Next, ThreadStep

(* If the server takes as many parameters as a batch below its limit and one
   more message can have, an INSERT of rows with the same fields has not too
   many (psqlwriter.cc:109, 173-240). *)
THEOREM UniformBatchesFit ==
  ASSUME \A s \in Sigs : MaxParms + Cardinality(s) <= ServerParams + 1
  PROVE  Spec => []UniformBatchFits
<1>1. Init => ParmsInv
  <2> SUFFICES ASSUME Init, NEW t \in Tables, NEW s \in Sigs
               PROVE  /\ Len(batch[t]) * Cardinality(s) <= sumparms
                      /\ Len(batch[t]) * Cardinality(s) < MaxParms + Cardinality(s)
    BY DEF ParmsInv
  <2>1. Len(batch[t]) * Cardinality(s) = 0
    BY NoParms DEF Init, NoBatch
  <2> QED
    BY <2>1, SigSize DEF Init
<1>2. ASSUME TypeOK, ParmsInv PROVE UniformBatchFits
  <2> SUFFICES ASSUME tpc = "insert", NEW s \in Sigs, Uniform(cur, s)
               PROVE  Len(batch[cur]) * Cardinality(s) <= ServerParams
    BY DEF UniformBatchFits, Uniform
  <2> DEFINE parms == Len(batch[cur]) * Cardinality(s)
  <2>1. cur \in Tables /\ batch[cur] \in Seq(Row)
    BY <1>2 DEF TypeOK, ThreadTypeOK, Working
  <2>2. parms < MaxParms + Cardinality(s)
    BY <1>2, <2>1 DEF ParmsInv
  <2>3. parms \in Nat /\ Cardinality(s) \in Nat
    <3>1. Len(batch[cur]) \in Nat
      BY <2>1
    <3> QED
      BY <3>1, SigSize, OneMore
  <2> HIDE DEF parms
  <2>4. MaxParms + Cardinality(s) <= ServerParams + 1
    OBVIOUS
  <2>5. parms <= ServerParams
    BY <2>2, <2>3, <2>4
  <2> QED
    BY <2>5 DEF parms
<1> QED
  BY <1>1, <1>2, ParmsStep, TypeCorrect, PTL DEF Spec
----------------------------------------------------------------------------
(***************************************************************************)
(* The statements.  The thread knows the columns of a table exactly, once  *)
(* it has looked it up, and works on tables that have messages.            *)
(***************************************************************************)
StatementInv ==
  /\ \A t \in known : ColumnsOf(t) \subseteq schemas[t]
  /\ tpc \in Working => cur \in known /\ batch[cur] # <<>>
  /\ tpc \in {"create", "alter"} => col \notin schemas[cur]
  /\ tpc = "insert" => Fields(cur) \subseteq schemas[cur]

(* Every message has fields that callers pass. *)
ContentInv == \A m \in Range(pipe) \cup InBatch : m.values \in Sigs

LEMMA ContentStep ==
  ASSUME TypeOK, ContentInv, [Next]_vars
  PROVE  ContentInv'
<1>1. CASE Moveless \/ Commits
  BY <1>1 DEF Moveless, Commits, InBatch, ContentInv
<1>2. CASE Dies
  BY <1>2, DeathMoves DEF Dies, ContentInv
<1>3. CASE ReadMessage
  BY <1>3, ReadMoves DEF ContentInv
<1>4. CASE Insert
  <2>1. InBatch' \subseteq InBatch /\ pipe' = pipe
    BY <1>4, InsertMoves DEF InBatch
  <2> QED
    BY <2>1 DEF ContentInv
<1>5. ASSUME NEW c \in Callers, WriteMessage(c) PROVE ContentInv'
  <2>1. PICK t \in Tables, s \in Sigs :
          pipe' = Append(pipe, [id |-> sent + 1, table |-> t, values |-> s])
    BY <1>5 DEF WriteMessage
  <2> DEFINE m == [id |-> sent + 1, table |-> t, values |-> s]
  <2>2. m \in Row /\ m.values \in Sigs
    BY DEF Row, TypeOK
  <2>3. InBatch' = InBatch
    BY <1>5 DEF WriteMessage, batchVars, InBatch
  <2> HIDE DEF m
  <2>4. Range(pipe') = Range(pipe) \cup {m}
    BY <2>1, <2>2, RangeAppend DEF TypeOK, m
  <2> QED
    BY <2>2, <2>3, <2>4 DEF ContentInv
<1> QED
  BY <1>1, <1>2, <1>3, <1>4, <1>5, RowStepKinds

LEMMA ContentInvariant == Spec => []ContentInv
<1>1. Init => ContentInv
  <2> SUFFICES ASSUME Init PROVE ContentInv
    OBVIOUS
  <2>1. pipe = <<>> /\ \A t \in Tables : batch[t] = <<>>
    BY DEF Init, NoBatch
  <2>2. Range(pipe) = {} /\ \A t \in Tables : Range(batch[t]) = {}
    BY <2>1 DEF Range
  <2> QED
    BY <2>2 DEF ContentInv, InBatch
<1> QED
  BY <1>1, ContentStep, TypeCorrect, PTL DEF Spec

LEMMA StatementStep ==
  ASSUME LowerCase, Outsiders = {}, TypeOK, FieldsInv, StatementInv, [Next]_vars
  PROVE  StatementInv'
<1>0. ASSUME \A t \in Tables : ColumnsOf(t)' = ColumnsOf(t),
             schemas' = schemas, known' = known, tpc' \notin Working
      PROVE  StatementInv'
  <2>1. known \subseteq Tables /\ tpc' \notin {"create", "alter", "insert"}
    BY <1>0 DEF TypeOK, ThreadTypeOK, Working
  <2> QED
    BY <1>0, <2>1 DEF StatementInv
<1>1. ASSUME \A t \in Tables : ColumnsOf(t)' = ColumnsOf(t),
             UNCHANGED <<schemas, known, tpc, cur, col, batch>>
      PROVE  StatementInv'
  <2>1. known \subseteq Tables
    BY DEF TypeOK, ThreadTypeOK
  <2> QED
    BY <1>1, <2>1 DEF StatementInv, Fields
<1>2. CASE Open \/ Connect \/ ReadMessage \/ StopReading \/ ReadNothing \/ NoMoreTables
           \/ Begin
  BY <1>0, <1>2, ColumnsStay DEF Open, Connect, ReadMessage, StopReading, ReadNothing,
    NoMoreTables, Begin, Goto, cacheVars, Working
<1>3. CASE Insert \/ Commit
  <2>1. \A t \in Tables : ColumnsOf(t)' = ColumnsOf(t)
    BY <1>3, ColumnsStay DEF Insert, Commit
  <2>2. /\ schemas' = schemas /\ known' = known
        /\ tpc' \in {"commit", "tables", "begin", "exited"}
    BY <1>3 DEF Insert, Commit, Goto, cacheVars
  <2> QED
    BY <1>0, <2>1, <2>2 DEF Working
<1>4. CASE Crash \/ PollInterrupted \/ Join \/ ServerFails
  <2>1. known' = {} /\ tpc' = "none"
    BY <1>4 DEF Crash, PollInterrupted, Join, ServerFails, Terminate, ProcessGone
  <2> QED
    BY <2>1 DEF StatementInv, Working
<1>5. CASE Destroy \/ SecondPasses \/ UNCHANGED vars
  BY <1>1, <1>5, ColumnsStay DEF Destroy, SecondPasses, vars, batchVars, cacheVars,
    callVars
<1>6. ASSUME NEW c \in Callers, CallAddValue(c) \/ WriteMessage(c)
      PROVE  StatementInv'
  BY <1>1, <1>6, ColumnsStay DEF CallAddValue, WriteMessage, batchVars, cacheVars
<1>7. CASE NextTable
  <2>1. PICK t \in Tables :
          /\ batch[t] # <<>> /\ cur' = t
          /\ schemas' = IF t \in known THEN schemas
                        ELSE [schemas EXCEPT ![t] = getSchema(t)]
          /\ known' = known \cup {t}
    BY <1>7 DEF NextTable
  <2>2. /\ tpc' = "fields" /\ batch' = batch
        /\ \A u \in Tables : ColumnsOf(u)' = ColumnsOf(u)
    BY <1>7, ColumnsStay DEF NextTable, Goto, batchVars
  <2>3. \A u \in known' : ColumnsOf(u) \subseteq schemas'[u]
    BY <2>1 DEF StatementInv, getSchema, TypeOK, ThreadTypeOK
  <2>4. known' \subseteq Tables
    BY <2>1 DEF TypeOK, ThreadTypeOK
  <2> QED
    BY <2>1, <2>2, <2>3, <2>4 DEF StatementInv
<1>8. CASE MissField
  <2>1. PICK i \in 1..Len(batch[cur]), x \in Columns : Missing(i, x) /\ col' = x
    BY <1>8 DEF MissField
  <2>2. /\ tpc' \in {"alter", "create"} /\ tpc \in Working
        /\ UNCHANGED <<schemas, known, cur, batch>>
        /\ \A u \in Tables : ColumnsOf(u)' = ColumnsOf(u)
    BY <1>8, ColumnsStay DEF MissField, Goto, batchVars, cacheVars, Working
  <2>3. col' \notin schemas[cur] /\ known \subseteq Tables
    BY <2>1 DEF Missing, TypeOK, ThreadTypeOK
  <2> QED
    BY <2>2, <2>3 DEF StatementInv
<1>9. CASE MissNoField
  <2>1. /\ tpc' = "insert" /\ tpc \in Working /\ Fields(cur) \subseteq schemas[cur]
        /\ UNCHANGED <<schemas, known, cur, batch>>
        /\ \A u \in Tables : ColumnsOf(u)' = ColumnsOf(u)
    BY <1>9, ColumnsStay DEF MissNoField, Goto, batchVars, cacheVars, Working
  <2>2. known \subseteq Tables
    BY DEF TypeOK, ThreadTypeOK
  <2> QED
    BY <2>1, <2>2 DEF StatementInv, Fields
<1>10. CASE AddColumn
  <2>1. /\ cur \in Tables /\ col \in Columns /\ tpc \in Working /\ tpc' = "fields"
        /\ schemas' = [schemas EXCEPT ![cur] = @ \cup {col}]
        /\ UNCHANGED <<known, cur, batch>>
        /\ Lower[cur] = cur /\ Lower[col] = col
    BY <1>10 DEF AddColumn, Goto, TypeOK, ThreadTypeOK, Working, LowerCase, batchVars
  <2>2. ColumnAdded(cur, col)
    BY <1>10, <2>1 DEF AddColumn, ExecCreateTable, ExecAlterTable, FieldsInv
  <2>3. ASSUME NEW u \in known PROVE ColumnsOf(u)' \subseteq schemas'[u]
    <3>1. /\ own.schema \in [Tables -> SUBSET Columns]
          /\ schemas \in [Tables -> SUBSET Columns] /\ u \in Tables
      BY DEF TypeOK, PgTypeOK, Db, ThreadTypeOK
    <3>2. /\ server' = server
          /\ own'.schema = [own.schema EXCEPT ![cur] = @ \cup {col}]
      BY <2>2 DEF ColumnAdded, TypeOK, PgTypeOK, Db
    <3>3. ColumnsOf(u) \subseteq schemas[u]
      BY DEF StatementInv
    <3>4. CASE u = cur
      <4>1. ColumnsOf(u)' = ColumnsOf(u) \cup {col}
        BY <2>1, <3>1, <3>2, <3>4 DEF ColumnsOf
      <4>2. schemas'[u] = schemas[u] \cup {col}
        BY <2>1, <3>1, <3>4
      <4> QED
        BY <3>3, <4>1, <4>2
    <3>5. CASE u # cur
      <4>1. ColumnsOf(u)' = ColumnsOf(u)
        BY <2>1, <3>1, <3>2, <3>5 DEF ColumnsOf
      <4>2. schemas'[u] = schemas[u]
        BY <2>1, <3>1, <3>5
      <4> QED
        BY <3>3, <4>1, <4>2
    <3> QED
      BY <3>4, <3>5
  <2>4. cur \in known /\ batch[cur] # <<>>
    BY <2>1 DEF StatementInv
  <2> QED
    BY <2>1, <2>3, <2>4 DEF StatementInv
<1>11. CASE OtherSession
  BY <1>11 DEF OtherSession
<1> QED
  BY <1>2, <1>3, <1>4, <1>5, <1>6, <1>7, <1>8, <1>9, <1>10, <1>11 DEF Next, ThreadStep

(* The server takes the statements of the thread: CREATE TABLE makes a table
   that is missing, ALTER TABLE adds a column that is missing, and an INSERT
   names fields that are there, once each, with no more parameters than it may
   have if its rows have the same fields.  So apart from INSERTs of rows with
   different fields exec throws only when the connection or the server fails.
   It takes names in lower case, tables that nobody else changes, no message
   without fields, and a server that takes as many parameters as a batch below
   its limit and one more message have: with the limits of the code up to 5536
   fields in a message (psqlwriter.cc:109, 141-240; minipsql.cc:149-160). *)
THEOREM StatementsAreTaken ==
  ASSUME LowerCase, Outsiders = {}, {} \notin Sigs,
         \A s \in Sigs : MaxParms + Cardinality(s) <= ServerParams + 1
  PROVE  Spec => []StatementsTaken
<1>1. Init => StatementInv
  BY DEF Init, StatementInv, Working
<1>2. LowerCase /\ Outsiders = {}
  OBVIOUS
<1>3. Spec => [](FieldsInv /\ StatementInv)
  <2>1. Init => FieldsInv
    BY DEF Init, FieldsInv, NoSchemas
  <2> QED
    BY <1>1, <1>2, <2>1, FieldsStep, StatementStep, TypeCorrect, PTL DEF Spec
<1>4. ASSUME TypeOK, ContentInv, FieldsInv, StatementInv, UniformBatchFits
      PROVE  StatementsTaken
  <2>1. tpc = "create" => ~haveTable(Lower[cur])
    BY <1>2, <1>4 DEF FieldsInv, TypeOK, ThreadTypeOK, Working, LowerCase
  <2>2. tpc = "alter" => col \notin getSchema(cur)
    BY <1>4 DEF StatementInv, Working, getSchema
  <2>3. ASSUME tpc = "insert"
        PROVE  /\ NamesTaken(cur, Fields(cur))
               /\ (\A m \in Range(batch[cur]) : m.values = Fields(cur))
                    => CanInsert(cur, Fields(cur), Len(batch[cur]))
    <3>1. /\ cur \in Tables /\ batch[cur] \in Seq(Row) /\ batch[cur] # <<>>
          /\ Fields(cur) \subseteq schemas[cur]
      BY <1>4, <2>3 DEF StatementInv, TypeOK, ThreadTypeOK, Working
    <3>2. \A m \in Range(batch[cur]) : m.values \in Sigs
      BY <1>4, <3>1 DEF ContentInv, InBatch
    <3>3. Fields(cur) \subseteq Columns
      BY <3>2 DEF Fields
    <3>4. PICK m \in Range(batch[cur]) : m = batch[cur][1]
      BY <3>1 DEF Range
    <3>5. Fields(cur) # {}
      <4>1. m.values \in Sigs
        BY <3>2
      <4>2. PICK x : x \in m.values
        <5>1. m.values # {}
          BY <4>1
        <5> QED
          BY <5>1
      <4>3. x \in Fields(cur)
        BY <4>2 DEF Fields
      <4> QED
        BY <4>3
    <3>6. \A x \in Fields(cur) : Lower[x] = x /\ x \in getSchema(Lower[cur])
      BY <1>2, <1>4, <3>1, <3>3 DEF FieldsInv, LowerCase, getSchema
    <3>7. NamesTaken(cur, Fields(cur))
      BY <3>5, <3>6 DEF NamesTaken
    <3>8. ASSUME \A n \in Range(batch[cur]) : n.values = Fields(cur)
          PROVE  CanInsert(cur, Fields(cur), Len(batch[cur]))
      <4>1. Fields(cur) \in Sigs
        BY <3>2, <3>8
      <4>2. Len(batch[cur]) * Cardinality(Fields(cur)) <= ServerParams
        BY <1>4, <2>3, <3>8, <4>1 DEF UniformBatchFits
      <4> QED
        BY <3>7, <4>2 DEF CanInsert
    <3> QED
      BY <3>7, <3>8
  <2> QED
    BY <2>1, <2>2, <2>3 DEF StatementsTaken
<1>5. Spec => []UniformBatchFits
  BY UniformBatchesFit
<1> QED
  BY <1>3, <1>4, <1>5, ContentInvariant, TypeCorrect, PTL
=============================================================================
