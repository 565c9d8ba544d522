# sqlitewrite in TLA+

A verification project for sqlitewrite: `SQLiteWriter` (csv-like storage to
SQLite) and `PSQLWriter` (the same API for PostgreSQL). It holds TLA+ modules
translated from the source, TLC configurations that check them on small
instances, and theorems checked by TLAPS for every value of the constants.
Line numbers below are those of `src/`.

## 1. The system

| component | state | operations | interacts through |
|---|---|---|---|
| `SQLiteWriter` (`sqlwriter.hh:65-129`, `sqlwriter.cc:276-442`) | `d_mutex`, `d_pleasequit`, `d_thread`, `d_flag`, caches `d_columns`, `d_lastsig`, `d_lastreplace`, `d_meta` | constructor, `addValue`, `addOrReplaceValue`, `query`, `queryT`, `commitThread`, destructor | caller threads and the commit thread share `d_db` under `d_mutex` |
| `MiniSQLite` (`sqlwriter.hh:21-63`, `sqlwriter.cc:18-272, 445-456`) | `d_sqlite`, `d_stmts` by table name, `d_intransaction` | `prepare`, `bindPrep`, `execPrep`, `getSchema`, `addColumn`, `begin`, `commit`, `cycle`, destructor | one SQLite connection; errors are exceptions |
| SQLite (external) | the file, its snapshots and write lock, per-connection transactions | statements | several connections, in several processes, share the file |
| `DeadlineCatcher` (`sqlwriter.cc:132-170`) | a deadline, SQLite's progress handler | constructor, handler, destructor | interrupts a statement of a read-only writer |
| `PSQLWriter` (`psqlwriter.*`) | a pipe, the thread's `schemas`, `tabwork`, `needWait`, `prevcommit` | constructor, `addValue`, `commitThread`, destructor | callers send messages down the pipe; the thread batches them |
| `MiniPSQL`, `QueryResult` (`minipsql.*`) | a connection, `d_stmts`, `d_params` | `exec`, `prepare`, `execPrep`, `addColumn`, `getSchema` | used by `PSQLWriter` |
| JSON helpers (`jsonhelper.*`) | none | `packResultsJson`, `packResultsJsonStr` | results of `queryT` |
| demos, tests, build files, `ext/doctest.h` | | | users of the library, or vendored |

What is hard here, and what makes each component correct:

* **SQLiteWriter.** The commit thread ends the very transaction that callers
  write in, and the destructor commits without taking the lock. The caches
  (columns, the statement's columns, its replace flag, the statement itself)
  have to agree with each other and with the file after every failure. Correct
  means: one user of the connection at a time; a row is stored by a statement
  made for its values; a row whose call returned normally is not lost while the
  process lives; calls return and rows reach the file.
* **MiniSQLite.** `d_intransaction` has to agree with SQLite's own idea of a
  transaction, for the destructor relies on it and nothing catches what the
  commit throws.
* **The file.** Other processes commit between any two statements: snapshots
  go stale, the lock is taken, tables and columns appear. Committed rows must
  stay, and a busy file must not make a call lie about its row.
* **DeadlineCatcher.** A deadline is put together from two remainders, compared
  part by part, and looked at through a pointer to a stack frame. Correct means:
  no query is cut short, none with a timeout runs on, no handler outlives its
  call.
* **PSQLWriter.** Callers, the thread, the clock, the server and other sessions
  go on side by side. Rows of one table must keep their order, each message is
  stored once whatever batch it was read in, a clean destruction stores all, and
  the death of the process may only cost the last rows. Batches have limits, and
  what the thread believes about a table must be so.
* **MiniPSQL.** The statements that create, alter and fill a table must mean the
  same names.

`PROJECT.json` lists every hazard at its line with the property that covers it.

## 2. Modules

| module | what it is |
|---|---|
| `WalFile` | the SQLite file in WAL mode, external: committed database `disk`, per connection its transaction (`intx`), snapshot (`view`) and what it holds (`hold`: none, read, stale, write) |
| `MiniSQLite` | EXTENDS `WalFile` with `d_stmts`, `d_intransaction`, and the effects of MiniSQLite's operations |
| `SQLiteWriter` | EXTENDS `MiniSQLite` with the writer objects, their callers, threads and caches; the specification and its properties |
| `RowStore` | abstract: what SQLiteWriters promise about rows, in four short actions |
| `QueryDeadline` | `DeadlineCatcher`: the arithmetic of the deadline, the handler, the ways out of `execPrep` |
| `PgServer` | one PostgreSQL database and one session, external: what is committed (`server`), what the session's transaction adds (`own`), table locks, other sessions, case folding |
| `MiniPSQL` | EXTENDS `PgServer` with the statements MiniPSQL sends and when the server takes them |
| `PSQLWriter` | EXTENDS `MiniPSQL` with the writer, its pipe, its thread and its callers; the specification and its properties |
| `RowLog` | abstract: what a PSQLWriter promises about rows |
| `MCSQLiteWriter`, `MCPSQLWriter` | values of the constants for TLC |
| `WalFileProofs` | lemmas about the file: types, the invariant of snapshots and locks, no lost rows |
| `SQLiteWriterTypes` | type correctness |
| `SQLiteWriterProofs` | the safety theorems |
| `SQLiteWriterRefinement` | SQLiteWriter implements RowStore |
| `SQLiteWriterColumns` | the theorems about columns and their cache |
| `QueryDeadlineProofs` | deadlines, for any width of seconds and ints |
| `PSQLWriterProofs` | types, order, the refinement of RowLog, the pipe and its end, fields, limits, statements |

### How the model corresponds to the code

A writer object is a member of `Conns`; each is taken to live in a process of
its own, so a crash or `std::terminate` of one leaves the others alone. A
caller thread is a member of `Callers`, and `pc[c]` is where it is in a call:

| `pc` | code | action |
|---|---|---|
| `lock` | before `lock_guard`, 333 | `LockAddValue`: the test at 334-339 decides between `exec` and `columns` |
| `columns` | the loop at 344-374 | `HaveColumn` (`haveColumn`, 290-304), or at its end `PrepareInsert` (375-380) |
| `haveTable` | 263 | `HaveTable` |
| `create`, `alter` | 265, 270, and the cache update after it, 348-363 | `CreateTable`, `AlterTable` |
| `exec` | 383-390 | `ExecPrep`: `BindRefused`, `ExecInsert`, `ExecBusy`, `ExecMissing`, `ExecRefused`, `ExecConflict`, or `ExecForeign` when the statement is a query's |
| `querylock`, `query` | 429-441 | `LockQuery`, `ExecQuery` |

One SQL statement is one step, because between two of them another process may
commit, the clock may tick and the process may die. What the code does without
a statement (a cache update after a CREATE TABLE, say) is part of the step, for
the mutex hides it. An exception is `Return(c, how)` with `how` not `ok`:
`lock_guard` releases the mutex. `how` is `schema` when the call fails because
of a column (ALTER TABLE refused, an INSERT that does not compile or does not
find its columns) and `error` otherwise. `ExecThrows` is `exec` throwing for
reasons of its own (88-90) while a call fills its cache or adds a column,
`BindRefused` a value that `bindPrep` cannot bind (94-99). A query may fail to
compile, to bind, or while it runs.

The commit thread's `tpc` follows 276-288: `check` (279), `sleep` (280),
`lock` (282), `commit` and `begin` (the two statements of `cycle`, 249). `n`
counts modulo the period. The destructor is `Destroy` (`sqlwriter.hh:101`),
`Join` (102-103) and `CloseDb` (`sqlwriter.cc:445-456`). An exception in the
thread or in the destructor is `Terminate`.

A row is the call that made it (`id`), its table, the value of a column that is
UNIQUE or PRIMARY KEY (`key`, or `NoKey`), and whether it came from
`addOrReplaceValue`. Other values do not matter to any property. A table with no
columns does not exist. `owed[w]` is a history variable: the rows `w` has
acknowledged, in this life or an earlier one, and that did not die with its
process before a commit. It counts a row from the moment the INSERT takes effect,
in the step that also returns: a process that dies between the two leaves the
file as if it had died after the return. The database keeps a history of its own, `replaced`:
the rows that `insert or replace` has overwritten, so that a row that is no
longer in a table can be told from one that was never stored.

SQLite (module `WalFile`) is modelled from what the code depends on. `begin` is
deferred: the first read pins a snapshot, the first write takes the only write
lock. A snapshot that was written past cannot be upgraded: SQLite reports BUSY
at once, without the busy handler. A lock held by another connection makes a
write wait for the 60 seconds of `sqlite3_busy_timeout`; the model lets the
write go ahead once the lock is free, or fail while it is taken. A constraint
undoes its statement, or the whole transaction when the column's metadata says
ON CONFLICT ROLLBACK (`OnConflict`). A row may also be refused for its values
(`ExecRefused`: a value that a STRICT column does not take), and a commit may be
refused (full disk, deferred constraint), in the thread or in the destructor,
where the exception ends the process.

**PSQLWriter.** A message is known by its number (`id`, the order in which it
was written to the pipe), its table and its set of fields; values are left out.
`tpc` follows `commitThread` (`psqlwriter.cc:89-254`):

| `tpc` | code | action |
|---|---|---|
| `connect` | 91-102 | `Connect` |
| `read` | 109-133 | `ReadMessage`, `ReadNothing` (the pipe is empty, or closed and empty), `StopReading` (the limits at 109), `PollInterrupted` (51-53) |
| `tables` | 137-139 | `NextTable` (looks the table up once per life), `NoMoreTables` |
| `fields` | 141-153 | `MissField`, `MissNoField` |
| `create`, `alter` | `minipsql.cc:154, 157`, then 156-166 | `AddColumn` |
| `insert` | 173-246 | `Insert`, with the look at the clock (246) |
| `commit`, `begin`, `lastcommit` | 248, 249-250, 122 | `Commit`, `Begin` |

`due` says that `time(0)` has left `prevcommit`. `ServerFails` is any statement
that throws: nothing in the thread catches it, so the process ends, and a commit
that fails may have taken effect. Other sessions (`OtherSession`) create tables
and add columns wherever the thread's transaction has not locked the table,
between `haveTable` and `CREATE TABLE IF NOT EXISTS` for instance. `Lower` folds
the names of statements that do not quote them. The code takes the tables of a
batch in the order of their names, the model in any.

**QueryDeadline** counts nanoseconds from the clock's zero. `NsPerMs`,
`MsPerSec` and `IntMax` stand for 1000000, 1000 and 2^31 - 1; `AsInt`, `Quot`
and `Rem` are the conversion from `unsigned` and `div`'s rounding towards zero.
`seen` is when the handler last let the statement go on.

## 3. Properties

* `TypeOK`, the type invariant of the whole state. Its part that a bug could
  break is `ThreadOfBatcher`: there is a commit thread just when there is a
  writer with the default flag.
* `ExclusiveUse`: nobody else is on the connection while a caller, the commit
  thread or the destructor is. The destructor holds because of the join, not of
  a lock.
* `MutexReleased`: a mutex that is locked belongs to a call or a thread that is
  inside; no exception, return or crash leaves it locked.
* `StatementFitsCall`: whatever came before (failed prepares, queries, another
  replace flag), the statement bound and stepped is the INSERT for just these
  columns in this order.
* `AcknowledgedRowsKept`: a row whose `addValue` returned normally, and that did
  not die with its process before a commit, is in what the writer sees: in its
  transaction, in the file after a commit or a clean destruction, in later lives.
* `StoredRowsAcknowledged`, the converse: every row a writer sees was
  acknowledged, so a call that threw has stored nothing.
* `CommitHasTransaction`: `commit` meets a transaction and `begin` none, in the
  thread and in the destructor; otherwise the process would end.
* `ColumnCacheSound`: every column in `d_columns` is a column of the table.
  `BatchersCacheSound` says so of writers with transactions only, next to others
  that have none.
* `ColumnsGenerated`: no call fails because of a column. `BatchersGenerateColumns`
  says so of writers with transactions only, and run `twocols` refutes it.
* `DurableAtOnce`: a NoTransactions writer has its row in the file on return.
* `CommittedRowsKept`, an action property: no step loses a committed row, though
  `addOrReplaceValue` may replace it by another.
* `WritesBatched`: a default writer has a transaction open, but for the moment
  between the halves of a cycle.
* `RowsReachFile`, `CallsReturn`, `DestructionEnds`: liveness.
* `ImplementsRowStore`: the writers implement `RowStore`. Seen from outside, a
  row is accepted (and in a writer without transactions durable at once), a
  commit makes all accepted rows of its writer durable or none, a dying process
  loses exactly those that were not, and no step of one writer changes what
  becomes of another's rows. `accepted` is `owed`, `durable` its rows the file
  has.

Of `PSQLWriter`:

* `EachRowOnce`: each message that was written is in exactly one place, the pipe,
  the batch of its table, the transaction or the database, and there once; or it
  died with its process. Which did is the history variable `lost`: the end of a
  process adds to it what was in memory and in a transaction that did not become
  durable, and nothing else does, so a message dropped on the way is missing.
* `CleanEndStoresAll`: when the thread has returned, all it was sent is committed.
* `PipeHasReader`: a message in the pipe, or a caller about to write one, has a
  thread that will read it.
* `UniformBatchFits`: the bound on the fields of a batch bounds the parameters of
  an INSERT if the rows of a table have the same fields.
* `ImplementsRowLog`: the rows of a table become durable in the order of their
  calls; a process that dies, even in a commit of unknown outcome, loses only
  the last rows of each table.
* `CallsReturn`, `DestructionEnds`, `CommitFollowsTraffic`: liveness. The last
  one: once a second has passed, the next message leads to a commit.
* `FieldsMatch`: a field the thread counts on is one an INSERT finds.
* `StatementsTaken`: every statement of the thread finds what it was made for,
  and the server accepts it, unless it is an INSERT of rows with different fields
  and has too many parameters. It is proved under conditions (section 5) that no
  run has: `pg` has another session, so that statements do fail.

Of `QueryDeadline`: `NeverEarly` (for timeouts an int can hold), `NotLate`,
`HandlerOfThisCall`, and `RunawayEnds`: a query that does not end by itself is
ended.

## 4. Runs

| run | instance | result |
|---|---|---|
| `one` | one default writer, two callers, three calls, two columns, one key, two constructions, period 2 | all its safety properties hold, and it implements `RowStore` |
| `two` | two default writers on one file, one caller each, three calls, a cycle on every tick | busy files and stale snapshots lose no row, a call that fails stores none, and no cache lies |
| `direct` | a NoTransactions writer next to a default one, lists of one column and of two, three calls, no keys, a cycle on every tick | each of the first's rows is durable on return; the default writer's cache stays sound whatever table it finds made or extended and whichever column is refused; both implement `RowStore` |
| `misuse` | the empty table name, empty column lists, ON CONFLICT ROLLBACK | mutual exclusion and committed rows survive; the rest does not, see below |
| `live` | a default writer with two callers next to a read-only one, two calls, fairness | rows reach the file, calls return, destruction ends |
| `pg` | one PSQLWriter, one caller, two tables, two fields, three messages, two constructions, a pipe of one, batches of three messages or three fields, four parameters, another session that adds a column | safety, `RowLog` and liveness hold |
| `deadline` | 2 ns to a ms, 3 ms to a second, ints up to 7, every timeout and every phase of the second | the deadline is kept |
| `pgcase` | a field spelt with a capital | `FieldsMatch` violated |
| `twocols` | the instance of `direct` | `BatchersGenerateColumns` violated |
| `unique` | a column ALTER TABLE refuses | `ColumnsGenerated` violated |
| `noname` | the empty table name | `StatementFitsCall` violated |
| `batched` | ON CONFLICT ROLLBACK | `WritesBatched` violated |

The violations are places where the code departs from what its README or a
comment says:

* `twocols`: `d_columns` is filled when it is empty and never again (292). In the
  trace the default writer's first call fills its cache, the other writer then
  adds the second column, and the default writer's next call, its cache not
  empty, adds that column again and fails. The failure leaves the cache as it
  was, so every later call with the column fails too. README 27
  promises columns on first use. The same happens in one writer that uses two
  spellings of one table (`data`, `main.data`), for the caches go by spelling
  while the file goes by table; `TableOf` lets a configuration say so.
* `unique`: README 161 shows `UNIQUE` as metadata, but 270 passes it to ALTER
  TABLE, which refuses it unless the column is the table's first.
* `noname`: 430 says the empty name cannot collide. It does with an `addValue`
  to table `""`, which runs the query and returns normally.
* `batched`: a conflict may end the transaction without the writer noticing.
  It then writes row by row until the thread's `commit` throws, which ends the
  process.
* `pgcase`: `ALTER TABLE` quotes names (`minipsql.cc:157`), `CREATE TABLE` (154)
  and the INSERT (`psqlwriter.cc:173-180`) do not. A field `B` that is not the
  first of its table is made as `B` and inserted as `b`; the server refuses and
  the process ends. The comment at `psqlwriter.cc:97-99` promises fields to
  match. A table with a capital is looked up as it was given and made in lower
  case, with the same effect.

Two things the code does that no line of the repository forbids plainly enough
to call them violated. Rows that reach the PostgreSQL thread in the last second
before a pause stay uncommitted until the next message or the end, because the
clock is looked at after an INSERT only (`psqlwriter.cc:246`);
`CommitFollowsTraffic` is what holds instead. And `psqlwriter.hh:10-13` asks for
isolation from failures of the database server and for reconnecting, while a
statement that fails ends the process; `ImplementsRowLog` says what is left of
the rows then.

README 43 also says that adding data does not block the caller. `LockAddValue`
shows otherwise: it waits while the commit thread has the mutex during a commit.

**Bounds.** `MaxCalls` bounds the calls, `MaxOpens` the constructions of each
writer, `CyclePeriod` stands for 20. Three calls are enough for: make a table,
add a column, reuse a statement; two rows and a conflict; a query between two
additions. Two constructions give a destruction or a crash and a new start on
the same file. Two columns in the orders `<<a>>`, `<<b, a>>` give a reused
signature, a changed one, and a second new column that fails after the first.
Period 2 has both kinds of ticks; period 1 in `two` and `direct` removes ticks
that only multiply the states. One key makes conflicts, and `NoKey` rows have
none; `direct` has no key, for its lists of two columns matter more there (`two`
has keys and one column). Two
writers suffice for what concerns one writer and "the others" in the file.
`one` and `two` are checked up to the exchange of their two callers (`MCSwap`:
in `two` the writers change places with them), which no definition tells apart.
`live` uses no keys: conflicts add nothing to liveness. Deadlock is not checked,
because with all calls made and all writers destroyed nothing is left to do.

In `pg`, three messages in two tables and a batch of up to three give batches
that are full by count, full by fields, cut short by an empty pipe, and work on
two tables; one is enough for a row in each of database, transaction and batch.
A pipe of one makes callers wait. The limits are tight: `MaxParms` 3 lets one
message of two fields follow another, which are the four parameters the server
takes; two rows of `{a}` and one of `{a, b}` exceed it and are refused. A single
caller loses nothing: between the calls of several only the order of their
writes matters, and every order of tables and fields is tried. The other
session's column `b` is one the thread may look for, find too late, or count on
in vain. `MaxOpens` 2 has a second life find what the first has left.

In `deadline`, the scaled numbers keep what matters: a timeout of less than a
second, of exactly one and of more, each remainder, each phase of the clock's
second, sums below, at and above one second of nanoseconds, and the unsigned
values 8 to 15 that turn negative. `MaxNow` is late enough for every deadline
that an int can hold to pass.

**Fairness.** The commit thread, a destructor and a caller that has the mutex
are threads that run: weak fairness. Taking the mutex is strongly fair for a
caller: `std::mutex` promises no fairness, but the only thread that comes back
for ever is the commit thread, and it sleeps 50 ms between two uses (280), which
is when a waiting caller gets the mutex; callers are bounded. Whether callers that
never stop could keep an unfair mutex from the commit thread is therefore not
answered. Nothing makes
anybody call, construct, destroy or crash. The busy handler's 60 seconds mean
that a caller facing a taken lock goes on or fails: both are steps of
`CallerStep`.

`PSQLWriter`: the thread runs and the destructor waits for it, weak fairness. A
caller blocked in `write` on a full pipe gets in once there is room again and
again, strong fairness for each caller, as the kernel wakes writers in turn. The
server is not fair to anybody: it may fail at any statement, and then the call,
the row and the destructor end with the process. `QueryDeadline`: time passes,
and SQLite calls the handler again and again while it executes (weak fairness of
`Tick` and `Progress`); that a statement ends by itself is not assumed.

**Mutants.** Each property of a passing run has a mutated definition, marked
"Mistake", that breaks it: a forgotten lock, a missing join, a cache filled too
early, a swallowed BUSY, a BUSY reported for a row that was stored, a cycle that does
not begin again, a pipe that is closed too early, a flag not compared.

## 5. Proofs

All are for any sets of writers, callers, tables, names, columns, keys and any
bounds, from `NoKeyAssumption`, `NamesAssumption` and `WriterAssumption` alone
unless said otherwise.

| theorem | states | needs also |
|---|---|---|
| `TypeCorrect` | `Spec => []TypeOK` | |
| `MutualExclusion` | `ExclusiveUse` | |
| `MutexIsReleased` | `MutexReleased` | |
| `StatementsFit` | `StatementFitsCall` | `NoName \notin Names` |
| `CommittedRows` | `CommittedRowsKept` | |
| `CommitsHaveTransactions` | `CommitHasTransaction` | `OnConflict = "ABORT"` |
| `AcknowledgedRows` | `AcknowledgedRowsKept` | `NoName \notin Names`, `OnConflict = "ABORT"` |
| `AllWritesBatched` | `WritesBatched` | `OnConflict = "ABORT"` |
| `DurableWithoutTransactions` | `DurableAtOnce` | `NoName \notin Names` |
| `StoredAreAcknowledged` | `StoredRowsAcknowledged` | |
| `RowStoreImplemented` | `ImplementsRowStore` | `NoName \notin Names`, `OnConflict = "ABORT"` |
| `BatchersCacheIsSound` | `BatchersCacheSound` | `OnConflict = "ABORT"` |
| `CacheIsSound` | `ColumnCacheSound` | `OnConflict = "ABORT"`, no writer with NoTransactions |
| `GeneratesColumns` | `ColumnsGenerated` | `SoleWriter`: one writer on the file, one spelling of each table, no empty names or lists, `Unaddable = {}`, `OnConflict = "ABORT"` |
| `PSQLWriterProofs!TypeCorrect` | `TypeOK` | |
| `EachOnce` | `EachRowOnce` | |
| `RowLogImplemented` | `ImplementsRowLog` | |
| `CleanEnd` | `CleanEndStoresAll` | |
| `PipeIsRead` | `PipeHasReader` | |
| `FieldsAreThere` | `FieldsMatch` | names in lower case, `Outsiders = {}` |
| `UniformBatchesFit` | `UniformBatchFits` | `MaxParms + Cardinality(s) <= ServerParams + 1` for each field list `s` |
| `StatementsAreTaken` | `StatementsTaken` | names in lower case, `Outsiders = {}`, no empty field list, `MaxParms + Cardinality(s) <= ServerParams + 1` for each field list `s` |
| `QueryDeadlineProofs!TypeCorrect` | `TypeOK` | |
| `Patient` | `NeverEarly` | |
| `Punctual` | `NotLate` | |
| `HandlerGoes` | `HandlerOfThisCall` | |

The theorems above `PSQLWriterProofs!TypeCorrect` are about `SQLiteWriter`, the next about `PSQLWriter`,
for any number of callers, tables, fields, messages, limits and lives, from
`ServerAssumption` and `WriterAssumption` of their modules. The last four are
about `QueryDeadline`, from `DeadlineAssumption`, which the numbers of the machine
satisfy.

The extra assumptions are not conveniences: runs `noname`, `batched`, `unique`,
`twocols` and `pgcase` show what happens without them. In `pg` the server
refuses rows of mixed field lists, for which `StatementsTaken` promises the
columns and not the number of parameters. What has no extra assumption holds of every use: the empty name, ON CONFLICT ROLLBACK and writers
without transactions on the same file included.

The inductive invariant of the first theorems is the conjunction of

* `TypeOK`;
* `MutexInv`: who works on a connection owns its mutex, a call in progress keeps
  the writer open, and a writer that is gone or being destroyed has no thread.
  `ExclusiveUse` speaks of pcs only; it is the mutex that ties two pcs together.
  `MutexReleased` is the other direction, and inductive next to it: `CallerMoves`
  says once what all steps of a call do to the lock, go on inside or return and
  free it.
* `StmtInv`: a prepared statement is the INSERT for `d_lastsig` and
  `d_lastreplace` of its name, or it is a query under the empty name. Only this
  makes the test at 334-339 a guarantee.
* `WalInv`: only a transaction holds anything, one connection has the lock, a
  snapshot that is not stale is the file, and what the owner of the lock is
  about to commit keeps every committed row.
* `TxInv`: only default writers have transactions and threads, and
  `d_intransaction` says so for as long as they live.
* `OpenInv`: such a writer has a transaction except between the halves of a
  cycle (needs `OnConflict = "ABORT"`).
* `AckInv`: an acknowledged row is in what its writer sees, and in the file too
  unless the writer has the lock. The second half is what a commit of a
  transaction that only read needs.

`RowsStep` sorts the steps of the program by what they do to rows: nothing new,
a row stored, a process died, a transaction rolled back by a conflict, a query's
statement stepped by mistake. `WalFileProofs` shows each of them `Harmless` or
confines the harm to the connection that abandons its transaction; the theorems
about rows follow from that. `DirectInv`, for writers without transactions, is
`AckInv` without the assumption on conflicts: such a writer has nothing to
abandon, and what others abandon is not its own.

**`RowStoreImplemented`.** Every step has to be one of `RowStore`'s or a stutter.
`Publishes` says where a new version of the file comes from: the connection that
has the lock, and it has all its transaction wrote; hence a commit of `w` makes
all of `w`'s rows durable, and with `WalInv` and `AckInv` nobody else's. That an
`Accept` adds one row, and that row is not durable yet, needs `FreshInv`: every
call under way has a number of its own which no row anywhere has. The history
`replaced` is what lets both speak of rows that a later one has overwritten.

**`StoredAreAcknowledged`** goes the other way round. `SourceInv`: what the file
has, or has had before it was replaced, somebody acknowledged, and what a writer
sees beyond that it acknowledged itself. `Draws` says of each kind of step that
its rows come from the file, from what the writer saw, or are the one row of a
call that returns normally in that very step. `RowStepKinds`, which sorts the
steps for both theorems, needs no assumption: a query's statement that is run for
an `addValue` by mistake is a kind of its own (`Confused`) and stores nothing.

**Columns.** `SchemaInv`: a stale snapshot has no column the file lacks, and the
owner of the lock sees all the file's. So tables only grow for everybody
(`Spares`, `Grows`), and `CacheInv` adds the one thing that could still make a
cache lie: a call on its way to CREATE TABLE sees no table in a snapshot that
stays until the statement runs, so IF NOT EXISTS cannot take another's table for
its own. `CacheInv` speaks of the writers that batch or only read (`Steady`), and
needs nothing of the others: those without transactions have no snapshot between
statements, so their own caches may lie, but they cannot spoil another's. `GenInv` is stronger and for a writer alone: no
snapshot is ever stale, an entry of the cache is empty or all of the table's
columns (`NameInv`), a prepared statement has its columns, and a call on its way
to a statement meets what the statement needs (`CallInv`).

**PSQLWriter.** `OrderInv`: within a table the rows of the database come before
those of the transaction, these before the batch, these before the pipe; each
sequence is sorted, and no number is larger than `sent`. That the places have
nothing in common and `RowLog`'s `FirstOf` are consequences: whatever part of
these four places is committed or lost at once is a beginning or an end.
`PlaceInv` is the rest of `EachRowOnce`: the numbers present and the numbers lost
are those from 1 to `sent`, each once. A death moves some from the first to the
second, and `OrderInv` is what keeps the rows it leaves apart from those it takes. `EndInv`: nobody calls
a writer that is not open, so a pipe found empty once it was closed stays empty
and the thread leaves nobody waiting. `FieldsInv`: what is remembered is among the
columns, and a `create` meets no table. `StatementInv` adds the converse for the
tables that were looked up, that a table worked on has messages, and where a
missing field was found; `ContentInv` that messages have fields that callers pass.
With them an `alter` meets no such column and an INSERT names columns that are
there, at least one, each once; that rows with the same fields are not too many
for it is `UniformBatchFits`. `ParmsInv`
follows the product of a table's rows and fields: it is at most the sum of the
batch, and the last row was read below the limit. With 60000 and 65535 that
allows rows of up to 5536 fields.

**QueryDeadline.** The run has a second of six nanoseconds and an int up to 7; the
theorems are for any, so for a billion and 2^31 - 1. `DeadlineIs`: with or without
the carry, the two parts of a deadline add up to the start and the timeout.
`PastIs` and `NotPastIs` say what the handler's comparison, part by part, means
for the sum, a nanosecond part of exactly one second included. `DeadlineInv` ties
both to the running statement.

**Only model-checked:** liveness and fairness, which are out of the prover's
reach, and the violations. Every safety property of a passing run has its theorem.

## 6. Not modelled

* Values and types of columns, and which values the type of the first one
  excludes (that a value may be refused is `ExecRefused`, or `ServerFails`); the
  text of quoting and metadata.
* `query` with anything but a SELECT (an INSERT or "begin" passed as a query).
* Why a commit is refused: deferred foreign keys, I/O errors and full disks are
  one outcome, taken or not. A full disk, an I/O error or want of memory may also
  end a transaction in the middle of a statement, as ON CONFLICT ROLLBACK does;
  only the latter is modelled.
* What foreign keys do to other tables: they are enforced (31), and with ON DELETE
  CASCADE in a column's metadata (`testrunner.cc:292`) an INSERT OR REPLACE deletes
  rows that refer to the one it replaces. Tables are independent here, so the
  theorems about kept rows are for metadata without that clause.
* A constructor that throws; it leaks the handle and leaves nothing else.
* The race on the plain `bool d_pleasequit`: `usleep` keeps the compiler from
  caching it, so the reads can only be late, which the model has. By the letter
  of the standard it is undefined, and no property is about that.
* `n` as a 32-bit int (279-285): it overflows after some three years.
* Spellings of a column that differ in case only, which SQLite takes for one
  column and the cache for two.
* `MiniPSQL`'s prepared statements (`prepare`, `bindPrep`, `execPrep`,
  `isPrepared`) and `begin`, `commit`, `cycle`: nothing in the repository calls
  them, so there is no use to model them by. Reading `minipsql.cc:180-191` shows
  that `d_stmts` is set before the server has prepared the statement.
* Members of `PSQLWriter` nothing uses: `d_pleasequit`, `d_columns`, `d_lastsig`.
* Failures of `pipe2` and of `write` on the pipe, whose results the code does not
  look at: eight bytes are written whole, and the reading end stays open until
  the destructor has joined the thread.
* Result conversion (`queryT`, `QueryResult::getRow`) and the JSON helpers:
  stateless formatting without steps, best left to the tests the repository has.
* Demos, tests, build files, and `ext/doctest.h`, a vendored test framework whose
  7019 lines are four fifths of the repository's. Of the library's own code
  what remains outside the modules is formatting, logging and the unused
  operations above.

## 7. Plan

Done: `WalFile`, `MiniSQLite`, `SQLiteWriter` with its safety theorems, the
refinement of `RowStore` and the theorems about columns; `QueryDeadline`;
`PgServer`, `MiniPSQL`, `PSQLWriter` with the refinement of `RowLog` and its
theorems, one for every safety property of a passing run. What could follow:

1. `ColumnTypes`: which type a column gets from the first value and which later
   values STRICT or PostgreSQL then refuse, in place of `ExecRefused`'s choice.
2. `MiniPSQL`'s prepared statements under a caller of their own, for what
   `minipsql.cc:188` does after a failed prepare.
3. The keys of a UNIQUE column: that no two rows of a table in the file have the
   same, through transactions, replacements and rollbacks.
