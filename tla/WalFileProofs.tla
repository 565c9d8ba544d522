--------------------------- MODULE WalFileProofs ---------------------------
(***************************************************************************)
(* Lemmas about the WAL file: each of its operations keeps the file and    *)
(* the connections' transactions of the right type, keeps an invariant of  *)
(* snapshots and locks, and loses no committed row.                        *)
(***************************************************************************)
EXTENDS WalFile, TLAPS

(* What a connection reads is a database. *)
LEMMA SeesType ==
  ASSUME WalTypeOK, NEW c \in Conns
  PROVE  Sees(c) \in Db
BY DEF WalTypeOK, Sees

LEMMA EmptyDbType == EmptyDb \in Db
BY DEF EmptyDb, Db

(* CREATE TABLE and ALTER TABLE ADD COLUMN make a database of a database. *)
LEMMA ColumnAddedType ==
  ASSUME NEW db \in Db, NEW t \in Tables, NEW x \in Columns
  PROVE  ColumnAdded(db, t, x) \in Db
BY DEF ColumnAdded, Db

(* So does INSERT. *)
LEMMA InsertedType ==
  ASSUME NEW db \in Db, NEW r \in Row
  PROVE  Inserted(db, r) \in Db
BY DEF Inserted, Conflicts, Db

LEMMA PublishType ==
  ASSUME WalTypeOK, NEW c \in Conns, NEW db \in Db, Publish(c, db)
  PROVE  disk' \in Db /\ hold' \in [Conns -> Holds]
BY DEF WalTypeOK, Publish, Holds

LEMMA ReadType ==
  ASSUME WalTypeOK, NEW c \in Conns, Read(c)
  PROVE  WalTypeOK'
BY DEF WalTypeOK, Read, Holds

LEMMA WriteType ==
  ASSUME WalTypeOK, NEW c \in Conns, NEW db \in Db, Write(c, db)
  PROVE  WalTypeOK'
BY PublishType DEF WalTypeOK, Write, Holds

LEMMA ExecBeginType ==
  ASSUME WalTypeOK, NEW c \in Conns, ExecBegin(c)
  PROVE  WalTypeOK'
BY DEF WalTypeOK, ExecBegin

LEMMA ExecCommitType ==
  ASSUME WalTypeOK, NEW c \in Conns, ExecCommit(c)
  PROVE  WalTypeOK'
<1>1. (IF hold[c] = "write" THEN view[c] ELSE disk) \in Db
  BY DEF WalTypeOK
<1>2. disk' \in Db /\ hold' \in [Conns -> Holds]
  BY <1>1, PublishType DEF ExecCommit
<1> QED
  BY <1>2, EmptyDbType DEF WalTypeOK, ExecCommit

LEMMA AbandonType ==
  ASSUME WalTypeOK, NEW c \in Conns, Abandon(c)
  PROVE  WalTypeOK'
BY EmptyDbType DEF WalTypeOK, Abandon, Holds

----------------------------------------------------------------------------
(* Every row that one database keeps is kept by another. *)
Kept(old, new) == old.rows \cup old.replaced \subseteq new.rows \cup new.replaced

(***************************************************************************)
(* Only a transaction holds anything, one at a time holds the write lock,  *)
(* a snapshot that is not stale is the file, and what the owner of the     *)
(* lock is about to commit keeps every committed row.                      *)
(***************************************************************************)
WalInv ==
  /\ \A c \in Conns : ~intx[c] => hold[c] = "none"
  /\ \A c, d \in Conns : hold[c] = "write" /\ hold[d] = "write" => c = d
  /\ \A c \in Conns : hold[c] = "read" => view[c] = disk
  /\ \A c \in Conns : hold[c] = "write" => Kept(disk, view[c])

(* Keeping is reflexive and transitive. *)
LEMMA KeptSame ==
  ASSUME NEW db
  PROVE  Kept(db, db)
BY DEF Kept, Keeps

LEMMA KeptThrough ==
  ASSUME NEW db, NEW new, NEW r, Keeps(db, r), Kept(db, new)
  PROVE  Keeps(new, r)
BY DEF Kept, Keeps

LEMMA KeptTransitive ==
  ASSUME NEW a, NEW b, NEW c, Kept(a, b), Kept(b, c)
  PROVE  Kept(a, c)
BY DEF Kept

(* A new column, and a row that conflicts with none or asks to replace those
   it conflicts with, keep what was there; and the new row is there. *)
LEMMA ColumnAddedKeeps ==
  ASSUME NEW db \in Db, NEW t \in Tables, NEW x \in Columns
  PROVE  Kept(db, ColumnAdded(db, t, x))
BY DEF ColumnAdded, Db, Kept

LEMMA InsertedKeeps ==
  ASSUME NEW db \in Db, NEW r \in Row, r.replace \/ Conflicts(db, r) = {}
  PROVE  Kept(db, Inserted(db, r)) /\ Keeps(Inserted(db, r), r)
<1>1. /\ Inserted(db, r).rows = (db.rows \ Conflicts(db, r)) \cup {r}
      /\ Inserted(db, r).replaced =
           IF r.replace THEN db.replaced \cup Conflicts(db, r) ELSE db.replaced
  BY DEF Inserted, Db
<1> QED
  BY <1>1 DEF Kept, Keeps

----------------------------------------------------------------------------
(* The row is where a connection wrote it: in what its transaction sees, and
   in the file when the transaction has nothing to commit. *)
Safe(c, r) == Keeps(Sees(c), r) /\ (hold[c] # "write" => Keeps(disk, r))

(* What a step on the file does: no committed row is lost, no row that was
   safe for a connection is lost to it, and the invariant is kept. *)
Harmless ==
  /\ WalInv'
  /\ Kept(disk, disk')
  /\ \A c \in Conns, r \in Row : Safe(c, r) => Safe(c, r)'

LEMMA WalInvInit == WalInit => WalInv
BY DEF WalInit, WalInv

LEMMA UnchangedHarmless ==
  ASSUME WalInv, UNCHANGED walVars
  PROVE  Harmless
BY KeptSame DEF WalInv, walVars, Harmless, Safe, Sees

LEMMA ReadHarmless ==
  ASSUME WalTypeOK, WalInv, NEW c \in Conns, Read(c)
  PROVE  Harmless
<1>1. WalInv'
  BY DEF WalTypeOK, WalInv, Read
<1>2. Kept(disk, disk')
  BY KeptSame DEF Read
<1>3. \A d \in Conns, r \in Row : Safe(d, r) => Safe(d, r)'
  BY DEF WalTypeOK, Read, Safe, Sees
<1> QED
  BY <1>1, <1>2, <1>3 DEF Harmless

LEMMA ExecBeginHarmless ==
  ASSUME WalTypeOK, WalInv, NEW c \in Conns, ExecBegin(c)
  PROVE  Harmless
<1>1. WalInv'
  BY DEF WalTypeOK, WalInv, ExecBegin
<1> QED
  BY <1>1, KeptSame DEF ExecBegin, Harmless, Safe, Sees

(* A new version of the file that keeps the rows of the last, published while
   nobody else has the lock. *)
LEMMA PublishHarmless ==
  ASSUME WalTypeOK, WalInv, NEW c \in Conns, NEW db \in Db,
         Publish(c, db), Kept(disk, db), db = disk \/ LockFree(c),
         \A d \in Conns \ {c} : view'[d] = view[d] /\ intx'[d] = intx[d]
  PROVE  /\ WalInv'
         /\ Kept(disk, disk')
         /\ \A d \in Conns \ {c}, r \in Row : Safe(d, r) => Safe(d, r)'
         /\ \A r \in Row : Keeps(disk, r) => Keeps(disk', r)
<1>1. disk' = db /\ disk \in Db /\ hold' \in [Conns -> Holds] /\ hold'[c] = "none"
  BY DEF WalTypeOK, Publish, Holds
<1>2. \A d \in Conns \ {c} :
        \/ hold'[d] = hold[d] /\ (hold[d] = "read" => db = disk)
        \/ hold[d] = "read" /\ hold'[d] = "stale"
  BY DEF Publish
<1>3. \A d \in Conns \ {c} : hold[d] = "write" => db = disk
  BY DEF LockFree
<1>4. WalInv'
  BY <1>1, <1>2, <1>3 DEF WalInv
<1>5. \A r \in Row : Keeps(disk, r) => Keeps(disk', r)
  BY <1>1, KeptThrough
<1>6. \A d \in Conns \ {c}, r \in Row : Safe(d, r) => Safe(d, r)'
  <2> SUFFICES ASSUME NEW d \in Conns \ {c}, NEW r \in Row, Safe(d, r)
               PROVE  Safe(d, r)'
    OBVIOUS
  <2>1. CASE hold[d] = "none"
    BY <1>2, <1>5, <2>1 DEF Safe, Sees
  <2>2. CASE hold[d] # "none"
    BY <1>2, <1>5, <2>2 DEF Safe, Sees
  <2> QED
    BY <2>1, <2>2
<1> QED
  BY <1>1, <1>4, <1>5, <1>6

LEMMA WriteHarmless ==
  ASSUME WalTypeOK, WalInv, NEW c \in Conns, NEW db \in Db,
         Write(c, db), Kept(Sees(c), db)
  PROVE  Harmless /\ \A r \in Row : Keeps(db, r) => Safe(c, r)'
<1>0. disk \in Db /\ Sees(c) \in Db
  BY SeesType DEF WalTypeOK
<1>1. Kept(disk, Sees(c))
  BY KeptSame DEF WalInv, Write, MayWrite, Sees
<1>2. Kept(disk, db)
  BY <1>0, <1>1, KeptTransitive
<1>3. \A r \in Row : Keeps(Sees(c), r) => Keeps(db, r)
  BY <1>0, KeptThrough
<1>4. CASE intx[c]
  <2>1. /\ view' = [view EXCEPT ![c] = db]
        /\ hold' = [hold EXCEPT ![c] = "write"]
        /\ UNCHANGED <<disk, intx>>
        /\ LockFree(c)
    <3>1. hold[c] = "write" => LockFree(c)
      BY DEF WalInv, LockFree
    <3> QED
      BY <1>4, <3>1 DEF Write, MayWrite
  <2>2. WalInv'
    BY <1>2, <1>4, <2>1 DEF WalTypeOK, WalInv, LockFree
  <2>3. Kept(disk, disk')
    BY <2>1, KeptSame
  <2>4. \A r \in Row : Keeps(db, r) => Safe(c, r)'
    BY <2>1 DEF WalTypeOK, Safe, Sees
  <2>5. \A d \in Conns, r \in Row : Safe(d, r) => Safe(d, r)'
    BY <1>3, <2>1, <2>4 DEF WalTypeOK, Safe, Sees
  <2> QED
    BY <2>2, <2>3, <2>4, <2>5 DEF Harmless
<1>5. CASE ~intx[c]
  <2>1. Publish(c, db) /\ UNCHANGED <<view, intx>> /\ LockFree(c)
    BY <1>5 DEF Write, MayWrite, WalInv
  <2>2. /\ WalInv' /\ Kept(disk, disk')
        /\ \A d \in Conns \ {c}, r \in Row : Safe(d, r) => Safe(d, r)'
    BY <1>2, <2>1, PublishHarmless
  <2>3. hold'[c] = "none" /\ disk' = db
    BY <2>1 DEF Publish
  <2>4. \A r \in Row : Keeps(db, r) => Safe(c, r)'
    BY <2>3 DEF Safe, Sees
  <2>5. \A r \in Row : Safe(c, r) => Safe(c, r)'
    BY <1>3, <2>4 DEF Safe
  <2> QED
    BY <2>2, <2>4, <2>5 DEF Harmless
<1> QED
  BY <1>4, <1>5 DEF WalTypeOK

LEMMA ExecCommitHarmless ==
  ASSUME WalTypeOK, WalInv, NEW c \in Conns, ExecCommit(c)
  PROVE  Harmless
<1> DEFINE db == IF hold[c] = "write" THEN view[c] ELSE disk
<1>1. db \in Db /\ Kept(disk, db) /\ disk \in Db
  BY KeptSame DEF WalTypeOK, WalInv
<1>2. db = disk \/ LockFree(c)
  BY DEF WalInv, LockFree
<1>3. Publish(c, db) /\ disk' = db /\ hold'[c] = "none"
  BY DEF ExecCommit, Publish
<1>4. \A d \in Conns \ {c} : view'[d] = view[d] /\ intx'[d] = intx[d]
  BY DEF ExecCommit, WalTypeOK
<1>5. /\ WalInv' /\ Kept(disk, disk')
      /\ \A d \in Conns \ {c}, r \in Row : Safe(d, r) => Safe(d, r)'
      /\ \A r \in Row : Keeps(disk, r) => Keeps(disk', r)
  <2> HIDE DEF db
  <2> QED
    BY <1>1, <1>2, <1>3, <1>4, PublishHarmless
<1>6. \A r \in Row : Safe(c, r) => Safe(c, r)'
  BY <1>3, <1>5 DEF Safe, Sees
<1> QED
  BY <1>5, <1>6 DEF Harmless

(* An abandoned transaction may lose its own rows, and nobody else's. *)
LEMMA AbandonHarmless ==
  ASSUME WalTypeOK, WalInv, NEW c \in Conns, Abandon(c)
  PROVE  /\ WalInv' /\ Kept(disk, disk')
         /\ \A d \in Conns, r \in Row :
              (d # c \/ hold[c] # "write") /\ Safe(d, r) => Safe(d, r)'
<1>1. WalInv'
  BY DEF WalTypeOK, WalInv, Abandon
<1>2. Kept(disk, disk')
  BY KeptSame DEF Abandon
<1>3. \A d \in Conns, r \in Row :
        (d # c \/ hold[c] # "write") /\ Safe(d, r) => Safe(d, r)'
  BY DEF WalTypeOK, Abandon, Safe, Sees
<1> QED
  BY <1>1, <1>2, <1>3
=============================================================================
