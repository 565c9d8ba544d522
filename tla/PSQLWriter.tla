----------------------------- MODULE PSQLWriter -----------------------------
(***************************************************************************)
(* class PSQLWriter: callers put messages into a pipe, and a thread takes  *)
(* them out, makes the tables and fields they need, inserts them table by  *)
(* table, and commits when a second has passed.  The destructor closes the *)
(* pipe and waits for the thread.                                          *)
(*                                                                         *)
(* The thread takes one step per message it reads and per statement it     *)
(* sends, so callers, the clock, other sessions and a crash come between.  *)
(***************************************************************************)
EXTENDS MiniPSQL, Functions

CONSTANTS
  Callers,     \* caller threads
  Sigs,        \* the field names callers pass
  MaxMsgs,     \* a batch is full at so many messages: 10000
  MaxParms,    \* or when its messages have so many fields: 60000
  PipeSize,    \* messages the pipe holds
  None,        \* no table, no field
  MaxCalls,    \* bound: no call is made after so many
  MaxOpens     \* bound: how many times a writer is constructed

ASSUME WriterAssumption ==
  /\ Sigs \subseteq SUBSET Columns
  /\ MaxMsgs \in Nat \ {0}
  /\ MaxParms \in Nat \ {0}
  /\ PipeSize \in Nat \ {0}
  /\ None \notin Tables \cup Columns
  /\ MaxCalls \in Nat
  /\ MaxOpens \in Nat

VARIABLES
  phase,      \* of the writer object: off, open, joining
  opens,      \* how often it has been constructed
  pc,         \* where each caller is
  pipe,       \* d_pipe: the messages in it
  sent,       \* how many messages have been written to it
  lost,       \* those of them that died with their process (history)
  tpc,        \* where commitThread is
  batch,      \* tabwork: the messages of this round, by table
  lim,        \* how many messages this round has read ...
  sumparms,   \* ... and how many fields they have
  needWait,   \* the pipe was empty at the last look
  schemas,    \* what the thread believes the columns of tables are ...
  known,      \* ... and the tables it has looked up
  cur, col,   \* the table and the field it is working on
  due         \* a second has passed since the last commit

batchVars == <<batch, lim, sumparms>>
cacheVars == <<schemas, known>>
callVars  == <<phase, opens, pc, sent, lost>>
vars == <<pgVars, batchVars, cacheVars, callVars, pipe, tpc, needWait, cur,
          col, due>>

ThreadPcs == {"none", "connect", "read", "tables", "fields", "create", "alter",
              "insert", "commit", "begin", "lastcommit", "exited"}

(* Where it works on a table. *)
Working == {"fields", "create", "alter", "insert"}

ThreadTypeOK ==
  /\ tpc \in ThreadPcs
  /\ batch \in [Tables -> Seq(Row)]
  /\ lim \in 0..MaxMsgs
  /\ sumparms \in Nat
  /\ needWait \in BOOLEAN
  /\ schemas \in [Tables -> SUBSET Columns]
  /\ known \subseteq Tables
  /\ cur \in IF tpc \in Working THEN Tables ELSE {None}
  /\ col \in IF tpc \in {"create", "alter"} THEN Columns ELSE {None}
  /\ due \in BOOLEAN

(* Every variable has its type, and there is a thread as long as there is a
   writer. *)
TypeOK ==
  /\ PgTypeOK
  /\ ThreadTypeOK
  /\ phase \in {"off", "open", "joining"}
  /\ (tpc = "none") = (phase = "off")
  /\ opens \in 0..MaxOpens
  /\ pc \in [Callers -> {"idle", "write"}]
  /\ pipe \in Seq(Row)
  /\ sent \in Nat
  /\ lost \subseteq Nat

NoBatch == [t \in Tables |-> <<>>]
NoSchemas == [t \in Tables |-> {}]

(* The messages and rows there are: in the pipe, in the batch, in the open
   transaction and in the database. *)
InBatch == UNION {Range(batch[t]) : t \in Tables}
Stored == server.rows \cup own.rows
Present == Range(pipe) \cup InBatch \cup Stored
Ids(rows) == {r.id : r \in rows}

Init ==
  /\ PgInit
  /\ phase = "off"
  /\ opens = 0
  /\ pc = [c \in Callers |-> "idle"]
  /\ pipe = <<>>
  /\ sent = 0
  /\ lost = {}
  /\ tpc = "none"
  /\ batch = NoBatch
  /\ lim = 0
  /\ sumparms = 0
  /\ needWait = FALSE
  /\ schemas = NoSchemas
  /\ known = {}
  /\ cur = None
  /\ col = None
  /\ due = FALSE

----------------------------------------------------------------------------
(***************************************************************************)
(* The life of a writer.                                                   *)
(***************************************************************************)
Open ==
  /\ phase = "off"
  /\ opens < MaxOpens
  /\ phase' = "open"
  /\ opens' = opens + 1
  /\ tpc' = "connect"
  /\ UNCHANGED <<pgVars, batchVars, cacheVars, pc, sent, lost, pipe, needWait,
                 cur, col, due>>

(* All that the process held in memory is gone, and the rows the server does
   not keep. *)
ProcessGone ==
  /\ phase' = "off"
  /\ pc' = [c \in Callers |-> "idle"]
  /\ pipe' = <<>>
  /\ tpc' = "none"
  /\ batch' = NoBatch
  /\ lim' = 0
  /\ sumparms' = 0
  /\ needWait' = FALSE
  /\ schemas' = NoSchemas
  /\ known' = {}
  /\ cur' = None
  /\ col' = None
  /\ due' = FALSE
  /\ lost' = lost \cup Ids(Range(pipe) \cup InBatch \cup (own.rows \ server'.rows))
  /\ UNCHANGED <<opens, sent>>

(* The process dies, killed or by an exception that leaves the thread. *)
Terminate == RolledBack /\ ProcessGone

Crash == phase # "off" /\ Terminate

(* Destruction, which C++ allows when no call is in progress. *)
Destroy ==
  /\ phase = "open"
  /\ \A c \in Callers : pc[c] = "idle"
  /\ phase' = "joining"
  /\ UNCHANGED <<pgVars, batchVars, cacheVars, opens, pc, sent, lost, pipe, tpc,
                 needWait, cur, col, due>>

(* Mistake: the thread is not joined, and outlives its writer. *)
JoinNot ==
  /\ phase = "joining"
  /\ phase' = "off"
  /\ UNCHANGED <<pgVars, batchVars, cacheVars, opens, pc, sent, lost, pipe, tpc,
                 needWait, cur, col, due>>

(* The thread has returned; its connection went with it. *)
Join == phase = "joining" /\ tpc = "exited" /\ Terminate

----------------------------------------------------------------------------
(***************************************************************************)
(* addValue: a message is made of the fields and written to the pipe,      *)
(* which blocks while the pipe is full.  A message is known by the order   *)
(* in which it was written.                                                *)
(***************************************************************************)
CallAddValue(c) ==
  /\ phase = "open"
  /\ pc[c] = "idle"
  /\ sent < MaxCalls
  /\ pc' = [pc EXCEPT ![c] = "write"]
  /\ UNCHANGED <<pgVars, batchVars, cacheVars, phase, opens, sent, lost, pipe,
                 tpc, needWait, cur, col, due>>

WriteMessage(c) ==
  /\ pc[c] = "write"
  /\ Len(pipe) < PipeSize
  /\ \E t \in Tables, s \in Sigs :
       pipe' = Append(pipe, [id |-> sent + 1, table |-> t, values |-> s])
  /\ sent' = sent + 1
  /\ pc' = [pc EXCEPT ![c] = "idle"]
  /\ UNCHANGED <<pgVars, batchVars, cacheVars, phase, opens, lost, tpc, needWait,
                 cur, col, due>>

----------------------------------------------------------------------------
(***************************************************************************)
(* The thread: connect and begin, then read a batch.                       *)
(***************************************************************************)
Goto(where) ==
  /\ tpc' = where
  /\ UNCHANGED callVars

Connect ==
  /\ tpc = "connect"
  /\ Goto("read")
  /\ UNCHANGED <<pgVars, batchVars, cacheVars, pipe, needWait, cur, col, due>>

(* Mistake: a batch is bounded by its messages only. *)
FullByMessages == lim = MaxMsgs

(* The batch takes no more messages. *)
Full == lim = MaxMsgs \/ sumparms >= MaxParms

(* Mistake: a message with too many fields for this batch is read and dropped. *)
ReadMessageFitting ==
  /\ tpc = "read" /\ ~Full
  /\ pipe # <<>>
  /\ LET m == Head(pipe)
         parms == sumparms + Cardinality(m.values) IN
       IF parms > MaxParms THEN UNCHANGED <<batch, sumparms>>
       ELSE /\ batch' = [batch EXCEPT ![m.table] = Append(@, m)]
            /\ sumparms' = parms
  /\ lim' = lim + 1
  /\ pipe' = Tail(pipe)
  /\ needWait' = FALSE
  /\ UNCHANGED <<pgVars, cacheVars, callVars, tpc, cur, col, due>>

ReadMessage ==
  /\ tpc = "read" /\ ~Full
  /\ pipe # <<>>
  /\ LET m == Head(pipe) IN
       /\ batch' = [batch EXCEPT ![m.table] = Append(@, m)]
       /\ sumparms' = sumparms + Cardinality(m.values)
  /\ lim' = lim + 1
  /\ pipe' = Tail(pipe)
  /\ needWait' = FALSE
  /\ UNCHANGED <<pgVars, cacheVars, callVars, tpc, cur, col, due>>

NoWork == \A t \in Tables : batch[t] = <<>>

(* Mistake: the end of the pipe ends the thread at once. *)
ReadNothingHasty ==
  /\ tpc = "read" /\ ~Full
  /\ pipe = <<>>
  /\ \/ /\ phase = "open"
        /\ needWait' = TRUE
        /\ Goto("tables")
     \/ /\ phase = "joining"
        /\ Goto("lastcommit")
        /\ UNCHANGED needWait
  /\ UNCHANGED <<pgVars, batchVars, cacheVars, pipe, cur, col, due>>

(* Mistake: an empty pipe is taken for one that was closed. *)
ReadNothingAgain ==
  /\ tpc = "read" /\ ~Full
  /\ pipe = <<>>
  /\ Goto(IF NoWork THEN "lastcommit" ELSE "tables")
  /\ needWait' = (phase = "open")
  /\ UNCHANGED <<pgVars, batchVars, cacheVars, pipe, cur, col, due>>

(***************************************************************************)
(* The pipe is empty, perhaps after a second's wait: the batch is worked   *)
(* on as it is.  Or it is closed as well: once there is no work either the *)
(* thread commits and returns.                                             *)
(***************************************************************************)
ReadNothing ==
  /\ tpc = "read" /\ ~Full
  /\ pipe = <<>>
  /\ \/ /\ phase = "open"
        /\ needWait' = TRUE
        /\ Goto("tables")
     \/ /\ phase = "joining"
        /\ Goto(IF NoWork THEN "lastcommit" ELSE "tables")
        /\ UNCHANGED needWait
  /\ UNCHANGED <<pgVars, batchVars, cacheVars, pipe, cur, col, due>>

StopReading ==
  /\ tpc = "read" /\ Full
  /\ Goto("tables")
  /\ UNCHANGED <<pgVars, batchVars, cacheVars, pipe, needWait, cur, col, due>>

(* poll is interrupted by a signal, which waitForRWData takes for an error. *)
PollInterrupted ==
  /\ tpc = "read" /\ ~Full
  /\ needWait
  /\ Terminate

----------------------------------------------------------------------------
(***************************************************************************)
(* Then work through its tables.  The code takes them in the order of      *)
(* their names, here they come in any order.                               *)
(***************************************************************************)
NextTable ==
  /\ tpc = "tables"
  /\ \E t \in Tables :
       /\ batch[t] # <<>>
       /\ cur' = t
       /\ schemas' = IF t \in known THEN schemas
                     ELSE [schemas EXCEPT ![t] = getSchema(t)]
       /\ known' = known \cup {t}
  /\ Goto("fields")
  /\ UNCHANGED <<pgVars, batchVars, pipe, needWait, col, due>>

(* Mistake: the counters of a batch are not reset for the next. *)
NoMoreTablesUnreset ==
  /\ tpc = "tables" /\ NoWork
  /\ Goto("read")
  /\ UNCHANGED <<pgVars, batchVars, cacheVars, pipe, needWait, cur, col, due>>

NoMoreTables ==
  /\ tpc = "tables" /\ NoWork
  /\ Goto("read")
  /\ lim' = 0
  /\ sumparms' = 0
  /\ UNCHANGED <<pgVars, batch, cacheVars, pipe, needWait, cur, col, due>>

(* The fields of the messages of a table. *)
Fields(t) == UNION {m.values : m \in Range(batch[t])}

(* x is a field of the i-th message that is not there, and the messages
   before it lack nothing. *)
Missing(i, x) ==
  /\ x \in batch[cur][i].values \ schemas[cur]
  /\ \A j \in 1..(i - 1) : batch[cur][j].values \subseteq schemas[cur]

(* addColumn: haveTable tells which statement it takes. *)
MissField ==
  /\ tpc = "fields"
  /\ \E i \in 1..Len(batch[cur]), x \in Columns : Missing(i, x) /\ col' = x
  /\ Goto(IF haveTable(cur) THEN "alter" ELSE "create")
  /\ UNCHANGED <<pgVars, batchVars, cacheVars, pipe, needWait, cur, due>>

MissNoField ==
  /\ tpc = "fields"
  /\ Fields(cur) \subseteq schemas[cur]
  /\ Goto("insert")
  /\ UNCHANGED <<pgVars, batchVars, cacheVars, pipe, needWait, cur, col, due>>

AddColumn ==
  /\ \/ tpc = "create" /\ ExecCreateTable(cur, col)
     \/ tpc = "alter" /\ ExecAlterTable(cur, col)
  /\ schemas' = [schemas EXCEPT ![cur] = @ \cup {col}]
  /\ col' = None
  /\ Goto("fields")
  /\ UNCHANGED <<batchVars, known, pipe, needWait, cur, due>>

(* Mistake: a batch that was inserted is kept. *)
InsertKept ==
  /\ tpc = "insert"
  /\ CanInsert(cur, Fields(cur), Len(batch[cur]))
  /\ RowsAdded(Range(batch[cur]))
  /\ cur' = None
  /\ Goto(IF due THEN "commit" ELSE "tables")
  /\ UNCHANGED <<batchVars, cacheVars, pipe, needWait, col, due>>

(* Mistake: rows that lack one of the fields are left out. *)
InsertUniform ==
  /\ tpc = "insert"
  /\ CanInsert(cur, Fields(cur), Len(batch[cur]))
  /\ RowsAdded({m \in Range(batch[cur]) : m.values = Fields(cur)})
  /\ cur' = None
  /\ batch' = [batch EXCEPT ![cur] = <<>>]
  /\ Goto(IF due THEN "commit" ELSE "tables")
  /\ UNCHANGED <<lim, sumparms, cacheVars, pipe, needWait, col, due>>

(* Mistake: no commit follows an INSERT, but for the last one. *)
InsertUncommitted ==
  /\ tpc = "insert"
  /\ CanInsert(cur, Fields(cur), Len(batch[cur]))
  /\ RowsAdded(Range(batch[cur]))
  /\ cur' = None
  /\ batch' = [batch EXCEPT ![cur] = <<>>]
  /\ Goto("tables")
  /\ UNCHANGED <<lim, sumparms, cacheVars, pipe, needWait, col, due>>

(* All rows of the table in one statement, then a look at the clock. *)
Insert ==
  /\ tpc = "insert"
  /\ CanInsert(cur, Fields(cur), Len(batch[cur]))
  /\ RowsAdded(Range(batch[cur]))
  /\ cur' = None
  /\ batch' = [batch EXCEPT ![cur] = <<>>]
  /\ Goto(IF due THEN "commit" ELSE "tables")
  /\ UNCHANGED <<lim, sumparms, cacheVars, pipe, needWait, col, due>>

Commit ==
  /\ tpc \in {"commit", "lastcommit"}
  /\ Committed
  /\ Goto(IF tpc = "commit" THEN "begin" ELSE "exited")
  /\ UNCHANGED <<batchVars, cacheVars, pipe, needWait, cur, col, due>>

Begin ==
  /\ tpc = "begin"
  /\ Goto("tables")
  /\ due' = FALSE
  /\ UNCHANGED <<pgVars, batchVars, cacheVars, pipe, needWait, cur, col>>

(***************************************************************************)
(* The server refuses a statement, or the connection to it fails: exec     *)
(* throws, and nothing catches it.  When a commit fails in this way it may *)
(* have taken effect.                                                      *)
(***************************************************************************)
ServerFails ==
  /\ \/ tpc \in {"connect", "create", "alter", "insert", "commit", "begin",
                 "lastcommit"}
     \/ tpc = "tables" /\ \E t \in Tables \ known : batch[t] # <<>>
     \/ tpc = "fields" /\ ~(Fields(cur) \subseteq schemas[cur])
  /\ \/ RolledBack
     \/ tpc \in {"commit", "lastcommit"} /\ Committed
  /\ ProcessGone

ThreadStep ==
  \/ Connect \/ ReadMessage \/ ReadNothing \/ StopReading \/ PollInterrupted
  \/ NextTable \/ NoMoreTables \/ MissField \/ MissNoField \/ AddColumn
  \/ Insert \/ Commit \/ Begin \/ ServerFails

(* The clock. *)
SecondPasses ==
  /\ tpc # "none"
  /\ due' = TRUE
  /\ UNCHANGED <<pgVars, batchVars, cacheVars, callVars, pipe, tpc, needWait,
                 cur, col>>

OtherSession ==
  /\ \E t \in Tables, x \in Outsiders : OtherAdds(t, x)
  /\ UNCHANGED <<batchVars, cacheVars, callVars, pipe, tpc, needWait, cur, col,
                 due>>

----------------------------------------------------------------------------
Next ==
  \/ Open \/ Crash \/ Destroy \/ Join
  \/ \E c \in Callers : CallAddValue(c) \/ WriteMessage(c)
  \/ ThreadStep \/ SecondPasses \/ OtherSession

Spec == Init /\ [][Next]_vars

(***************************************************************************)
(* The thread keeps running, the destructor waits for it, and a caller     *)
(* that waits for room in the pipe is let in before long.                  *)
(***************************************************************************)
Fairness ==
  /\ WF_vars(ThreadStep)
  /\ WF_vars(Join)
  /\ \A c \in Callers : SF_vars(WriteMessage(c))

FairSpec == Spec /\ Fairness

----------------------------------------------------------------------------
(***************************************************************************)
(* Properties.                                                             *)
(***************************************************************************)
(* Each message that was written to the pipe is in one place and there once: in
   the pipe, in the batch of its table, in the open transaction or in the
   database; or else it died with its process.  None is dropped on its way, and
   none inserted twice (psqlwriter.cc:104-132, 240-243). *)
EachRowOnce ==
  /\ Ids(Present) \cup lost = 1..sent
  /\ Ids(Present) \cap lost = {}
  /\ \A r, s \in Present : r.id = s.id => r = s
  /\ server.rows \cap own.rows = {}
  /\ InBatch \cap Stored = {}
  /\ Range(pipe) \cap (Stored \cup InBatch) = {}
  /\ IsInjective(pipe)
  /\ \A t \in Tables : /\ IsInjective(batch[t])
                       /\ \A m \in Range(batch[t]) : m.table = t

(* When the thread returns all it was given is in the database
   (psqlwriter.cc:117-125). *)
CleanEndStoresAll ==
  tpc = "exited" => Range(pipe) \cup InBatch \cup own.rows = {}

(* A message that waits, in the pipe or to be written to it, has a thread that
   will read it: the thread does not return before the pipe is closed and
   empty, and the pipe is not closed under a caller (psqlwriter.cc:117-132). *)
PipeHasReader ==
  (pipe # <<>> \/ \E c \in Callers : pc[c] = "write")
    => tpc \notin {"none", "lastcommit", "exited"}

(* The thread's "insert" names every field of its rows, and the bound on the
   fields of a batch does bound the statement's parameters when a table's
   callers all pass the same fields (psqlwriter.cc:109). *)
UniformBatchFits ==
  tpc = "insert" =>
    \A s \in Sigs :
      (\A m \in Range(batch[cur]) : m.values = s)
        => Len(batch[cur]) * Cardinality(s) <= ServerParams

(* Each statement that the thread sends finds the tables and columns it was
   made for.  An INSERT of rows with the same fields is taken; one of rows with
   different fields can only have too many parameters, for it has one for each
   field of any of them in every row (minipsql.cc:149-160,
   psqlwriter.cc:141-240). *)
StatementsTaken ==
  /\ tpc = "create" => ~haveTable(Lower[cur])
  /\ tpc = "alter" => col \notin getSchema(cur)
  /\ tpc = "insert" =>
       /\ NamesTaken(cur, Fields(cur))
       /\ (\A m \in Range(batch[cur]) : m.values = Fields(cur))
            => CanInsert(cur, Fields(cur), Len(batch[cur]))

(* What the thread believes of a table it has looked up, or made, is so: an
   INSERT that names those fields finds them (psqlwriter.cc:97-99). *)
FieldsMatch ==
  \A t \in Tables : \A x \in schemas[t] : Lower[x] \in getSchema(Lower[t])

(* The writer implements RowLog: the rows of a table become durable in the
   order of their calls, and only a process that dies loses any, the last ones
   of each table. *)
Log == INSTANCE RowLog WITH
         accepted <- Present,
         durable  <- server.rows

ImplementsRowLog == Log!Spec

(* A caller that waits for the pipe gets its message in, or dies with the
   process; and a destructor comes back. *)
CallsReturn == \A c \in Callers : pc[c] # "idle" ~> pc[c] = "idle"
DestructionEnds == phase = "joining" ~> phase = "off"

(* Once a second has passed, the next message makes the thread commit what it
   has inserted so far.  The last message of all has no next one. *)
CommitFollowsTraffic ==
  \A i \in 1..(MaxCalls - 1) :
    (due /\ pipe # <<>> /\ \E r \in own.rows : r.id = i)
      ~> \A r \in own.rows : r.id # i
=============================================================================
