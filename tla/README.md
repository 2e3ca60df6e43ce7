# A verification development for memFrame

memFrame gives a pandas-like interface to tables that live in DuckDB,
PostgreSQL or ClickHouse. A file is uploaded into a table, a method of the interface
becomes a few SQL statements on it, and what it did is recorded in a registry inside
the same database, from where a call that was recorded *deeply* is answered the next
time. A chat agent drives the same methods. This directory models that machinery in
TLA+, checks it with TLC and proves the part that matters most with TLAPS.

Paths are relative to `src/src/memframe/` unless they say otherwise.

## 1. The system

| Part | State it keeps | Operations | Works with | Modelled |
| --- | --- | --- | --- | --- |
| **Call cache** `cache/cache_manager.py` | the cache registry, the payload table, cached tables, the epoch of each dataset | the wrapper `record_call`: look up, validate, evict, replay, execute, store | takes the dataset's lock, calls the method, opens a transaction, calls the recorder in `db_manager/ops.py` | `RecordCall` |
| **Registry operations** `db_manager/ops.py` | the same tables | clear the cache, delete a dataset, record a call, list and load | called by the user and by the wrapper; clear and delete take no lock | `RecordCall` |
| **Operation lock** `db_manager/setup/base.py` | one `asyncio.Lock` and one owner per dataset | `_locked_op`, re-entrant by task | wrapper, recorder, index rebuild | `RecordCall` |
| **Pools** `db_manager/connection/pool.py` | connections, the lock of the DuckDB pool, the open transaction | `execute`, `fetch`, `transaction` | everything | `DuckPool`, `PgPool` |
| **Operations** `core/analytix/` and their orchestrators | the source table, work and result tables, marker rows | update in place, publish by swap, derive a table, compute a scalar, rebuild a table | called by the wrapper | `Rebuild` and the programs |
| **Rebuilds, merges** `core/analytix/index`, `merging`, `reshape`, `sorting`, `selection`, `inspection` | result tables, shadow tables | build from one or two tables, copy, verify, exchange | lock | `Rebuild`, `TablePrograms` |
| **Ingestion** `core/ingestion/` | a table being loaded, its registry row | load with inferred types, widen, resume, retry as text, cast, register, clean up | pools, registry | `Upload` |
| **AI sessions** `../memframe_ai/` | session table, dataset and pin, what a chat has recorded | chat, steps in parallel and in order, tools, `use_table` | operations | `Chat` |
| **Contexts** `db_manager/context.py` | dataset id, override table | resolve the active table | wrapper, operations, sessions | as far as `Chat` and `RecordCall` need it |
| **Connector, lifecycle** `db_manager/connection/connector.py`, `main.py`, `utils/async_sync.py` | pool, backend, uploader; the background loop | connect, close, the sync API | everything | no |
| **Plots, dashboard, parsers, wrappers** | none | rendering, delegation | | no |

What makes it hard is not in any one row. Everything is a coroutine, and every
statement is an await. The lock covers the wrapper and not the clear or the delete. The
transaction block covers the epoch and the moved table and not the registry row or the
payload. The operations open no transaction at all: each of their statements is
committed by itself, on tables that users read. Failures of a statement are sometimes
raised, sometimes logged, sometimes turned into a value. An entry is valid by a test (row
count, column set, epoch) that only works if every write announces itself. ClickHouse has
no transactions, and what replaces them is written by hand in each place. A chat
session is one mutable object that all chats and all their parallel steps share.

What each part has to guarantee:

* *call cache*: an answer is that of the present contents, whether computed or
  replayed; an entry and what it points to exist together; no table leaks; no
  entry is stamped ahead of its time; every call ends;
* *clear, delete*: the user's table survives a clear; nothing of a deleted dataset stays;
* *lock*: one wrapper per dataset, released on every path, first come first served;
* *pools*: a block commits or rolls back as a whole, whoever runs next to it;
* *operations, rebuilds*: the rows are there under one name or another at any moment; a call
  that ends leaves the source whole; what it answers with exists; it can be repeated;
* *ingestion*: each row of the file arrives once; registered means loaded; nothing is left
  of an upload that failed;
* *sessions*: every step of a chat works on the table the chat started with and sees what
  earlier steps made; an answer contains that chat's results; the pin is released.

`PROJECT.json` lists the hazards of the code, each at its line, with the
properties that look for it.

## 2. Modules

| Module | What it is |
| --- | --- |
| `ReplayCache` | abstract: calls are asked and answered from the present contents; no cache in sight |
| `RecordCall` | the wrapper, its registry, payloads and tables, the operations by class, clear and delete, failures |
| `MCRecordCall` | the instance for TLC; five configurations |
| `RecordCallProofs` | type correctness and the invariants that hold whatever fails |
| `RecordCallSound` | the inductive invariants for answers and for what entries lead to, and the refinement of `ReplayCache` |
| `AtomicStore` | abstract: what a block writes arrives as a whole or not at all |
| `DuckPool`, `PgPool` | the two pools with transactions: who holds which connection, where a statement goes, how a block ends |
| `DuckPoolProofs` | types, what is held together, and the refinement of `AtomicStore` |
| `PgPoolProofs` | types, whose each connection is, and atomicity of a block that meets no other |
| `AtomicUpload` | abstract: an id gets a whole dataset in one step, or the call answers an error |
| `Upload` | an upload, statement by statement, on the three backends, with several running at once over the pool they share |
| `MCUpload` | the instance for TLC: which files and formats on which backend |
| `UploadProofs` | types, the invariants of the open blocks and of ClickHouse, and the refinement of `AtomicUpload` |
| `Statements` | what an operation is made of: the statements, and how they are put in order |
| `WindowPrograms`, `ColumnPrograms`, `CleaningPrograms`, `TablePrograms` | every operation that writes, as the set of the statement lists it may send, per backend |
| `Rebuild` | the database that runs them one by one, failing and stopping anywhere |
| `RebuildOutline` | proof outlines of the programs: when the notes beside a list of statements are sound |
| `MCRebuild` | the instance for TLC: the programs under the names of their calls, and their outlines; two configurations |
| `RebuildProofs` | types, for any programs; the four promises, for programs with sound outlines |
| `Chat`, `MCChat` | a session and the chats on it; the instance for TLC |
| `ChatProofs` | types, the pin, and one dataset per tool call |
| `ChatAloneProofs` | the table, the columns and the answer a chat can rely on |

`RecordCall` composes with the others by what they promise: its transaction block is one
step because of `DuckPool` and `PgPool`; its five classes of operations are what the programs of
`Rebuild` do when nothing fails; `Upload` gives it a registered dataset with a table. `Upload` has the one
slot of `PgPool` in it, reduced to which call is in it, because its calls overlap.

### How `RecordCall` corresponds to the code

One dataset and one event loop. A step runs from one await to the next.
The state:

| Variable | In the code |
| --- | --- |
| `lock` | `_op_locks[data_id]` with its owner (`setup/base.py:34-35`) |
| `call[t]` | the locals of a running `async_wrapper`: `pc`, the key, `is_deep`, the row found, `is_error` negated as `ok`, what the result says as `of`, `generated_table_name` as `table`, `cache_kind` as `kind`, `epoch`, `store_fp` as `fp`, `opidx` |
| `sweep[s]` | the locals of a running `_aclear_cache` or `adelete_table` |
| `source` | the dataset's table: is it there, a version of its contents, its fingerprint, and per call the version its generated columns hold |
| `registered`, `epoch` | its row of `memframe_csv_registry` |
| `rows`, `payloads` | its rows of `memframe_cache_registry` and `memframe_cache_payloads` |
| `tables` | tables made by derived calls, by name and schema |
| `answer` | what each task was last given |
| `begun` | bound on calls, sweeps and edits; not in the code |

A result is `[key, data]`: which call was computed, from which version of the
source. Two answers to one call are equal exactly when they were computed from
the same version, so staleness and mix-ups show. The calls fall into classes by what
the method does and what its result declares:

| Class | Methods | Effect | Declares |
| --- | --- | --- | --- |
| `Stat` | `describe`, `corr`, scalars | reads | nothing that names a table; stored as a payload |
| `Assign` | arithmetic, cleaning | adds a column and updates it in place | `cache_kind = ref`, `mutates` |
| `Publish` | window, grouped window | swaps a wide table into the source and leaves a marker row | the same, set by `publish_row_aligned` |
| `Overwrite` | cumulative | updates in place | nothing: the wrapper infers a source ref |
| `Derive` | `sort_values` | creates `<table>__op_<n>` | nothing: the wrapper moves it to the cache schema |

The actions, in the order of the wrapper:

| Actions | Lines of `cache/cache_manager.py` |
| --- | --- |
| `Begin`, `Acquire` | 576-638, with `_locked_op` |
| `Lookup`, `CheckFingerprint`, `CheckEpoch` | 643-705 |
| `EvictRow`, `EvictPayload`, `EvictTable` | 706-745, three statements |
| `Reuse` | 746-820: replay, or a miss when the row leads nowhere |
| `ExecuteStat`, `ExecuteUpdate`, `ExecutePublish`, `Mark`, `ExecuteDerive`, `CreateTable`, `ExecuteError`, `ExecuteRaise` | 823, and the operations behind it |
| `StoreDeep`, `StoreShallow`, `StoreError` | 838-984: the transaction block, with the bump (245-266): the `UPDATE` and the read after it fail each by itself, and a failing read answers 0 |
| `StoreMoved` | 924-949: `_active_context` swallowed an exception (361), a cumulative call is taken for one that made a table, and **the source is moved to the cache schema** |
| `Stamp`, `PickOpidx`, `InsertRow`, `StorePayload` | 986-1034, with `ops.py:242-288` |
| `Deliver`, `Fail` | the return; an exception, a cancellation or the end of the process |
| `SweepRead`, `SweepCommit` | `ops.py:131-223` |
| `Edit` | another program writes the table |

Abstractions, each on purpose:

* the transaction block of the wrapper, and that of a sweep, is one step. That
  is what the DuckDB pool gives every block (`BlocksSafety`) and the PostgreSQL pool a block
  that overlaps no other (`AloneSafety`). ClickHouse has no transactions and is not covered;
* a statement is a step, so other coroutines run between any two of them. That is
  PostgreSQL. On DuckDB a statement is executed without giving up the event loop
  unless the pool's lock is contended, so its behaviours are a subset of these;
* a stored table has rows. An empty one reloads as a miss (`_load_generated_table` returns
  `None`), which is in the model only where statements may fail;
* the swap of `publish_row_aligned` is one step together with the column test
  before it. On PostgreSQL it is two statements;
* an in-place update is `ADD COLUMN` and `UPDATE` together. When it fails,
  the table may or may not have been written (`ExecuteError`), with any fingerprint;
* a write may leave any fingerprint: whether the column existed is data;
* `_known_generated_columns` matches markers by the columns they list; here
  each call has columns of its own;
* one dataset without override table. Merge outputs add a scope to the key, nothing else;
* a process that ends is `Fail` for each of its tasks: nothing of the wrapper's
  memory outlives it but the registry.

### How the pools correspond to the code

`connection/pool.py`, one connection or one pool, one event loop. A statement is a
number; what it does to the data is left out. `AtomicStore` is what the docstrings
promise. Both pools keep, next to their own state, what a block has executed
(`wrote`, a history variable), which is what `AtomicStore` is told.

| `DuckPool` | In the code |
| --- | --- |
| `holder` | `_lock` and `_lock_owner`, which change together |
| `owner` | `_txn_owner`; set before `BEGIN` and outside the `try`, it outlives a `BEGIN` that fails |
| `failed` | history: the tasks on which a `BEGIN` has failed |
| `depth`, `real` | the `transaction()` blocks a task is in, and which of them executed `BEGIN` |
| `txn`, `pending`, `store` | the connection: is a transaction open, what is in it, what is committed |
| `pc`, `arg` | what a task waits for the lock to do |

`Join` and `AskBlock` are the two ways into `transaction()` (63-70); `OpenBlock` and
`BeginFails` what follows the lock (71-73); `Execute` a statement under `_guarded` (119-135),
which goes into the open transaction whoever opened it; `LeaveJoined`, `Commit`, `Rollback` the
ways out (74-82; a `ROLLBACK` that raises leaves nothing to roll back, and the same `finally` runs); `Abandon` a cancelled wait or a statement that raises.

| `PgPool` | In the code |
| --- | --- |
| `user`, `level` | the connections that `acquire()` gave out, to whom and for which block |
| `slot` | `_txn_conn` and `_txn_owner` |
| `owned` | the local of that name in `execute` and `fetch`, read before the await |
| `pending`, `store` | PostgreSQL: the open transaction of each connection, what is committed |
| `pc`, `arg`, `depth` | what a task awaits, its statement, the blocks it is in |
| `met`, `undone` | history: blocks that overlapped another task's, what was rolled back |

`BeginBlock` writes the slot when `BEGIN` is answered (184-186), `LeaveBlock` empties it before
`COMMIT` or `ROLLBACK` is sent (190), `EndBlock` is the answer. `AskStatement` looks into
the slot (192-195, 270); `ExecuteOwned` and `ExecuteAuto` are the two branches after it. The
server's own locks are left out: a statement outside its block's transaction may in
fact wait for it, or not see what the block created, and then fails (`Abandon`).

### How `Upload` corresponds to the code

`core/ingestion/upload/`: `base.py`, the three backends, and the strategies for CSV, data frames
and Parquet. One column stands for all of them, with three types in a chain (narrow, wide,
text) and three kinds of value (one the reader takes as it is, one only the database can cast,
one that is text). Which file it is and which backend is chosen in `Init`.

On DuckDB a block excludes every other one. PostgreSQL's pool does not: it has one slot
(`pool.py:173-174`), which a block that begins takes (186) and a block that ends empties (190), whoever is in
it. A call asks for each statement whether it is in the slot (192-195). If so the statement runs in
its transaction (`own`, `row`); if not, on another connection, where it sees only what is
committed and commits by itself (`tables`, `registry`). `Inside` is that question, `Seen` and `Put` a statement's two
sides. What the call left in its own transaction stays there and is committed or rolled back at its end, so a
call that lost its slot may leave its data on either side. Blocks of other operations do the same to an upload
(`Intrude`). A call that was displaced, or that was not told of its `COMMIT`, is remembered in `lost`: what
is promised is promised for the others, `Kept`.

| Variable | In the code |
| --- | --- |
| `tables`, `scratch`, `registry` | the upload schema, the `<id>_tmp` tables of casts outside a transaction, `memframe_csv_registry` |
| `pc`, `id`, `format`, `mode` | an upload: where it is, its `data_id`, its strategy, how it reads |
| `own`, `row` | the table and the registry row inside the open transaction of a call, which nobody else sees |
| `slot` | PostgreSQL: the call that `_txn_owner` names |
| `col`, `flushed`, `counted` | the column's type, how many rows the stream has flushed, what `COUNT(*)` answered |
| `lost` | history: calls whose block lost the slot, or the answer to its `COMMIT` |

| Actions | In the code |
| --- | --- |
| `Allocate`, `Begin`, `Create`, `Taken` | `strategies/base.py:32` and the heads of the strategies: the id is drawn, the block opened, the table created, or the name is taken |
| `FlushChunk`, `WidenColumn` | `strategies/csv.py`: a chunk is converted and inserted, or its column is widened and the stream starts again and **skips the rows already flushed** |
| `RefuseDtype`, `StoreRefuses` | a user's dtype that does not fit; the database refuses a value, and the file is loaded again as text |
| `LoadWhole`, `BulkFails` | one `COPY` or insert; ClickHouse's fall-back from the bulk to the chunked reader |
| `CastInBlock`, `SkipCast`, `CastApart`, `CastAborts` | the cast of text columns, four statements under `transaction()` (`postgres_impl.py:85-89`): in the block of the call; or, after that lost the slot, in one of its own, which may lose it as well |
| `CastCopy`, `CastDrop`, `CastRename`, `CastFails` | the same outside of any transaction: copy, drop and rename, on ClickHouse and for a PostgreSQL call without its slot |
| `Count`, `Register`, `RowTaken` | `SELECT COUNT(*)`; the registry row, whose key may be taken (`setup/postgres.py:67`), and the way out of the block |
| `Commit`, `CommitUnheard` | `COMMIT`: what the transaction contains is seen by all; its answer does not arrive |
| `Fault`, `Cleanup`, `CleanupFails`, `TableGone`, `Crash` | a statement fails, executed or not where it commits by itself; the table is dropped by hand, or not; the process stops |
| `Intrude` | a block of a delete, a clear or a store takes the slot (`ops.py:157`, `:214`) |

A cast keeps the number of rows (a value that does not cast becomes NULL), so what a
row contains after it is left out. A cast that loses the slot between two of its
four statements fails (`CastAborts`): the next one looks for the copy, or waits for a lock, of the transaction the call
is no longer in. So the four are one step, or none.

### How `Rebuild` and the programs correspond to the code

An operation of `core/analytix/` is a list of statements with branches. The four program
modules write each as the set of lists it may send, in the order of the code, one
definition per method, with the shared private methods (`PublishRowAligned`,
`ResolveOrdering`, `PrepareOperationTable`, ...) as definitions of their own. Methods
whose statements are the same are defined by the same list. `Statements` has the
vocabulary: read a table, add, drop or fill columns, make a table from another, drop,
rename, exchange or insert into one; a check of arguments that may refuse; a branch on
what columns are there; the answer. A statement may be marked `soft` (its failure is
logged and the operation goes on) or carry an `undo` (the `except` that drops a table). A read whose failure
the code takes for an empty answer has both ways on: `AssertOwnedColumns` and `CheckMapCollision` then find no clash.

`Rebuild` executes them. A table is abstracted to which rows it has (all of the
source's, others, none) and which columns, relative to the source as the call found
it: `own` (the user's), `new` (what the call publishes), and the helpers. Values are
left out, except that overwriting the user's columns is seen.

| Actions | In the code |
| --- | --- |
| `Begin`, `Repeat`, `Leave` | the wrapper calls the method; calls it again with the same arguments; goes on to other calls |
| `ReadTable`, `AddColumns`, `DropColumnsOf`, `FillColumns`, `DropTable`, `RenameTable`, `RenameTableIn`, `ExchangeTables`, `InsertRows`, `MakeTable` | the database runs one statement; it can only if the tables and columns it names are as it needs |
| `Break`, `FailSent`, `Crash` | it cannot run; it fails for another reason; the process stops (temporary tables go) |
| `PassCheck`, `RefuseCall`, `TakeBranch`, `ReadFails` | the code between statements |
| `RunProgram`, `StartFunction`, `PassOn`, `CollectChain` | the orchestrators of windows (`core/orchestrator/analytix/window.py:202-255`): several functions in a chain, each on the table of the last, one that fails is left out |
| `AssertOwned`, `RecordMarker`, `ClearMarkers` | `_generated.py`: the registry is asked whether a column that is already on the source is this call's own; a cleared cache forgets that it is |
| `Answer` | the result: a value, a table, or the source with `mutates` |

What the model takes from a call's arguments is only which way through the code they
choose. The constants `Edits` (operations that mean to change the user's rows or columns),
`Spoils` and `Once` (operations known not to keep the properties, section 4) are named in `MCRebuild`.

`RebuildOutline` says when an *outline* of a list is sound. At each place of the list an outline notes what
may be known there: for every table what it may hold, the columns the source had, whether something has
failed, the table the answer names so far. Sound means: each note follows from the one before it by the statement in between
(`After`), or by its failure (`Hurt`, `Undone`, `Crashed`); a statement that may be refused belongs to a call
of `Once`; and no note of a place where the call may end, or the process stop, contradicts the promises or lacks
a note to start from when the call is repeated (`Ended`). These are conditions on one
statement and its neighbours, so they can be used without an induction over the list. That each call of `Calls` has a sound
outline is the assumption `ProgramsOutlined`. `MCRebuild` computes the outlines of this repository's operations (what
flows from place to place, until nothing is added), and TLC evaluates the assumption with them. The recursion
is in `MCRebuild` only, which no proof uses.

### How `Chat` corresponds to the code

`../memframe_ai/sessions.py` and `agents/analytics.py`. The models are external: which plan
they return, which tools a step calls and when it stops is nondeterministic. A tool is one of
five kinds by what it does to the session: reads, adds a column, derives a cached table, plots, or
is `use_table`.

| Variable | In the code |
| --- | --- |
| `table`, `data`, `pinned` | `Session._table`, `data_id`, `_pinned` |
| `records`, `frames`, `plots` | `_subquery_results`, `_results`, `plots` |
| `ops`, `active` | the dataset a context was created for; `MemFrame._active_id` |
| `cols` | the columns tools have put into each dataset's table |
| `plan`, `base`, `step`, `context` | a chat: the linked list, its first description, its steps and what each was told |
| `done`, `overlapped`, `strayed` | history: which calls were answered, which chats met another, whether the session was retargeted |

`Enter` resets the records (195-200); `Look` and `Found` are the two sides of the await
in `_resolve_active`; `Plan` pins (237-243) and starts the independent steps; `Refresh` and
`DescribeStep` give the next dependent step a fresh description (293-296); `CallTool`,
`EnsureTable`, `Work`, `Move` are one tool call, with an await between the look at the pin and
the move of the table (`sessions.py:151-166`); `EndStep` ends a step; `Finish`, `Refuse`, `PlanNothing`
are the three answers; `Cancel` and `FailLookup` leave through the `finally`.

## 3. Runs

| Run | Instance | Properties |
| --- | --- | --- |
| `record_call` | 2 tasks, 4 calls, all declared classes, deep and shallow, 2 fingerprints, nothing fails | `AnswersCurrent`, `StoredTogether`, `TablesKept`, `PromiseKept` |
| `record_call_faulty` | 2 tasks, a sweeper, 2 operations of all five classes, failures, edits, fairness | `TypeOK`, `LockHeld`, `OpidxFree`, `EpochNotAhead`, `CallsReturn` |
| `duck_pool` | 3 tasks, 4 blocks nested twice, 3 statements, failures, fairness | `TypeOK`, `TransactionHeld`, `PendingOwned`, `BlocksAtomic`, `EveryoneServed` |
| `pg_pool` | 3 tasks, 2 connections, 3 blocks nested twice, 2 statements, failures, fairness | `TypeOK`, `ConnectionsHeld`, `SlotLive`, `OwnStatements`, `AloneAtomic`, `EveryoneServed` |
| `upload` | 2 uploads, 2 ids, files of 2 rows, chunks of 1, a sample of 1, 1 fault, fairness; DuckDB: any file in all 4 formats, ClickHouse: 2 files in 4 formats, PostgreSQL: CSV that widens, CSV and frames that become text | `TypeOK`, `RegisteredLoaded`, `NoOrphan`, `LoadedAlone`, `RegisteredStays`, `UploadsEnd`, `UploadAtomic` |
| `rebuild` | every operation on every backend, each repeated once, 2 faults | `TypeOK`, `CopyKept`, `SourceWhole`, `AnswerHolds`, `Repeatable` |
| `chat` | 2 chats, the first with two parallel or a step and a dependent one, 2 datasets, 1 tool call per step, 1 change of dataset, 1 fault, fairness | `TypeOK`, `SameTable`, `SeesEarlier`, `OnOneDataset`, `OwnAnswer`, `Released`, `ChatsEnd` |

* `record_call` is the contract of the cache: computed or replayed, an answer is that of
  the present contents. `record_call_faulty` says what remains when anything may fail and
  sweeps run unlocked, and that nobody keeps the lock.
* The pools: on DuckDB a block is atomic whoever runs next to it, and only a `BEGIN` that failed leaves an owner
  behind (`TransactionHeld`). On PostgreSQL that
  is so for a block that meets no block of another task; when blocks do meet, they still
  never write into each other's transactions, nothing leaks and nobody is stuck. The last
  is not obvious: a task that lost the slot asks for a second connection while it holds
  one. It holds because whoever took the slot last can go on with the connection it has,
  and whoever emptied it gives one back.
* `upload`: whatever is widened, resumed, loaded again as text or rolled back, the
  dataset registered for a call of DuckDB, or for one of PostgreSQL that kept its block, holds every row once and is
  never touched again by another upload, even of the same id and even by one that runs outside of its block; such uploads
  implement one step each (`AtomicUpload`). A table without a row is never seen on DuckDB, and on PostgreSQL is one of
  a call that lost its block (`NoOrphan`). On ClickHouse the promise is smaller (`LoadedAlone`): an upload that answered with an id no other
  call drew has every row in its table, and only the fall-back to the chunked reader
  can have left some twice.
* `rebuild`: no statement of an operation destroys the last copy of the rows
  (`CopyKept`, the swaps of `_generated.py` included: between their `DROP` and their
  `RENAME` the rows are in the other table); a call that met no fault, accepted or
  refused, leaves the source with all rows, its columns and no helper columns; what an
  answer names exists; and repeating a call fails on nothing its first run left.
* `chat`: unless another chat overlaps it, a chat's steps all work on one table
  though tools beside them derive new ones, and the
  answer has all results of this chat and of no earlier one. With or without overlaps, a dependent step that
  is told about the dataset's own table sees every column made before it. With overlaps, the pin is
  still released, tools stay on their dataset and every chat ends.

**Bounds.** Each defect of section 4 and each mutant of `PROJECT.json` for the cache needs
at most one call to store something, one to change the source or the registry, and one or two
to be answered wrongly: three or four operations. Two tasks suffice because the lock is
all they share and whoever else waits for it waits at `acquire`. Two fingerprints are
enough to tell "same" from "different". With failures the state grows quickly, so the
faulty run stops at two operations: one that holds the lock and one, or a sweep, beside it; what it
checks for safety is proved for every bound in section 5. `MaxCalls` bounds `Begin`, `SweepRead` and
`Edit`; epochs, numbers and versions are bounded by it. Deadlock is checked there: `Quiesce` lets the
finished system stop, so any other stop would be reported. The pools need one task in
a block, one that interferes and one that waits, and two nested blocks (an upload and its
cast); two connections make three tasks compete, as four do for more.

An upload of two rows in chunks of one has a row before and a row after each widening, a sample
that misses the second row, and (three types) two widenings; two uploads may
draw the same id or not. On PostgreSQL two calls are enough for one to lose its slot to the other at any statement, before or
after a widening, a text retry or a cast, and the one fault is a failing statement, a lost `COMMIT` or somebody
else's block; the files are those that take a CSV call through a widening and through the retry, and a frame
through its cast. What `upload` checks for safety is proved for every number of rows, calls and faults, every file and chunk size. In `rebuild` the programs are finite and complete; two faults are a failing statement and a
failing clean-up, one repetition is what a user does after a failure, and `Leave` lets every other call follow; chains have one or two functions, rolling and expanding ones mixed. What
it finds is proved for any number of faults, repetitions and calls in between (section 5). In
`chat` two chats overlap in every way, a plan has a parallel pair and a dependent
pair, and one fault fails a lookup or a tool or cancels a chat. More steps add more of the same pairs.
Where a run does not check deadlock the system does stop: all uploads, chats or branches are over.

**Fairness.** `WF(Work(t))` for the steps of a wrapper that holds the lock, and for a
sweep's commit: the event loop resumes every coroutine whose statement was answered,
and a statement is answered or fails. `SF(Acquire(t))`: `asyncio.Lock` keeps its waiters in
order of arrival. The pools: `WF(Leave(t))`, as the body of a block ends; `WF(Answered(t))`, as the
server answers; `SF` for being served, as `asyncio.Lock` and asyncpg keep waiters in order.
`upload`: `WF(Step(u))`, the loop goes on with an upload whose statement was answered. `chat`:
`WF` of each chat's own steps: the models and tools answer or fail, and a specialist's
requests are limited (`_SPECIALIST_MAX_REQUESTS`, `MaxCalls` in the model). Failures are never assumed to
happen or to stop; issuing calls is not fair.

## 4. Where the code and its documentation disagree

Each of these is a run that is expected to be violated, with one property; details and quotes
are under `findings` in `PROJECT.json`.

| Run | What happens |
| --- | --- |
| `silent_write` | a cumulative call rewrites an existing column; it declares nothing, so the epoch does not move and an older scalar is replayed |
| `cleared_source` | the marker row of a window call looks like a cache copy named like the source; clearing the cache drops the source |
| `foreign_payload` | a clear between row and payload leaves a payload under a number that is given out again |
| `pg_all_or_nothing` | a second block takes the slot of the PostgreSQL pool; a statement of the first commits by itself and survives its rollback |
| `date_shift` | filling a date column forwards or backwards on PostgreSQL replaces the source by a table of that column and its copy: the other columns are gone |

That is why `Overwrite` and `Sweepers` are empty in `record_call`: the rest of the
contract holds, and is proved, exactly under these two exclusions. That the source survives is not part
of it: what could remove the source is excluded there, so `SourceKept` is stated by `cleared_source` only.

Two more breaks of the cache are known and have no run of their own. Registry row and payload are
inserted after the transaction that is said to hold them (`cache_manager.py:1010-1020`), so
`StoredTogether` holds only where nothing fails. With `deep_cache` off, the clean-up of undeclared
tables drops the source after a cumulative call (`cache_manager.py:979`); with it on, an exception swallowed at 361 moves
the source to the cache schema. `RecordCall` has both steps (`StoreShallow`, `StoreMoved`); no run claims that they cannot happen.

What the other models met and set aside, by name, so that it cannot be taken for checked:

* `Once` (operations that fail without a fault, most of them when repeated). A window chain with an *unordered* quantile or
  standard error fails on DuckDB and PostgreSQL. A second `transpose` on DuckDB finds the
  temporary tables of the first (`reshape/base.py:786`, `:811`). `insert` after a failed fill finds its
  column. On ClickHouse the cleaning operations that work on a clone add their column without
  `IF NOT EXISTS` (`cleaning/clickhouse.py:313`, `:427`, `:502`), and so do grouped windows over dates and
  grouped `ewm` (`groupby_window/clickhouse.py:669-803`, `:1349-1671`).
* `Spoils`. Besides `date_shift`: grouped forward filling of dates on ClickHouse leaves `__idx` and `_island_id` in the
  source (`groupby_cleaning/clickhouse.py:547`).
* A crash between swap and marker leaves published columns without an owner; the same call is refused
  from then on. A cleared cache does the same, which `src/docs/api/window.md:191-194` accepts.
* Uploads that overlap on PostgreSQL are what `pg_all_or_nothing` is about, seen from above. The call that lost its
  slot creates and loads a table that everybody sees at once; if it fails then, the table stays, since
  `_drop_upload_on_failure` is for ClickHouse (`base.py:180-190`). Or its table is rolled back, or never committed, and the row is
  there. `df.py:80-81` says "a failed upload never leaves an orphan table with no data_id" and `csv.py:42-44` that a failed attempt
  "rolls back fully". The model reaches both states; `NoOrphan`, `RegisteredLoaded`, `RegisteredStays` and `UploadAtomic` except the
  calls it happened to (`lost`), and say that nobody else suffers.
* A commit whose answer is lost is taken for a failure: the text retry finds its id taken, and the call answers an error
  with its dataset there (`CommitUnheard`).
* DuckDB: after a failing `BEGIN` the task that met it is still named as the owner, its next block joins a transaction that is not there, and
  the statements of it commit one by one. `TransactionHeld` says this happens to no other task; `BlocksAtomic` speaks of blocks that began.
* A swap that is interrupted between `DROP` and `RENAME` (`_generated.py:54`, `inspection/clickhouse.py:139`) leaves the rows in the renamed
  table (`CopyKept`) and the dataset without a table of its own name. `SourceWhole` speaks of histories without a fault.
* ClickHouse uploads: `clickhouse_impl.py:119-120` says "the original stays" when a cast fails; after the
  `DROP` it does not, and the clean-up of a failed `RENAME` drops the copy as well. The upload
  fails then, so nothing is registered.
* Sessions. Nobody takes the lock of `sessions.py:30`. The second of two overlapping chats resets the records of
  the first, and the first to end unpins the other; `SameTable` and `OwnAnswer` are stated for
  chats that meet no other. An overlap also outlives its chats: the one unpins, a tool of the
  other moves the session to the table it has just cached, and there it stays. Columns that a later chat adds go to the
  source, so its dependent steps are not told of them, alone as it is, though `agents/analytics.py:235-238` says that
  the table they are described "now carries any new columns produced by earlier steps". `SeesEarlier` is therefore
  stated for steps that are told about the dataset's own table. `use_table` retargets the session while the tools stay bound
  to the context's dataset; `SameTable`, `SeesEarlier` and `OnOneDataset` set such sessions aside (`strayed`).
  `answer["table"]` is documented as the table after the agent's work
  (`src/docs/memframe-ai/agent.md:100`) and is, being pinned, the one before it. Plots are kept from chat
  to chat.
* Others, seen while reading and outside the models' data: correlated subqueries of grouped windows
  compare order and not group (`groupby_window/base.py:683-700`, `:776-793`, `:1458-1466`); `dataframe_insert` and
  `astype` are not recorded and move no epoch (`core/orchestrator/analytix/inspection.py:124`); the left join
  of `dataframe_update` on ClickHouse multiplies rows when the key repeats, where the comment
  (`inspection/clickhouse.py:184-186`) says "Matches Postgres/DuckDB overwrite semantics exactly".

## 5. What is proved

The constants' assumptions are named in the modules: null values are none of the proper ones,
classes of calls are disjoint, bounds and sizes are numbers, programs are sequences of statements that name
tables of their call. No set is assumed finite, and no proof uses a value of a bound.

`RecordCallProofs`, for every behaviour, failures, sweeps, edits and `Overwrite` included:

* `TypeCorrect`: `Spec => []TypeOK`;
* `LockSafety`: `Spec => []LockHeld`. Inductive with the type invariant: a step enters the
  critical section only through `Acquire`, which finds the lock free;
* `OpidxSafety`: `Spec => []OpidxFree`. Rests on `LockHeld`: only the holder adds rows, and a
  sweep only removes them, so a number above all entries stays above them;
* `EpochSafety`: `Spec => []EpochNotAhead`, strengthened with the same bound for the
  epoch a wrapper has read and not yet stored.

`RecordCallSound`, under `Reliable` (nothing fails, nobody sweeps or edits, `Overwrite` is empty):

* `AnswersSafety`: `Spec => []AnswersCurrent`;
* `StoredSafety`, `TablesSafety`: `Spec => []StoredTogether` and `Spec => []TablesKept`;
* `PromiseRefined`: `Spec => PromiseKept`, the wrapper implements `ReplayCache` with
  `data <- source.data` and `asked[t] <- call[t].key`. `Deliver` is `Serve` or `Abandon`, `Begin`
  is `Ask`, the two writing executions are `Write`, every other step stutters.

`AnswersCurrent` is not inductive: it says nothing of what lies in the registry. The
invariant `Sound` adds what the wrapper relies on: the dataset is there
(`DatasetThere`); a number and a key belong together (`RowsKeyed`); a payload and a
table belong to the entry that names them (`PayloadsOwned`, `TablesOwned`); **an
entry stamped with the present epoch was computed from the present contents, unless a
wrapper is between its write and its bump** (`EntriesCurrent`); and what each
wrapper holds in its locals at each of its steps (`Wrappers`). The exception in
`EntriesCurrent` is safe because that wrapper holds the lock: nobody looks
anything up before the bump. `StoredTogether` and `TablesKept` speak of the moments between calls only. `Kept`
(`KeptInvariant`) says what holds within one: an entry has its payload, or its wrapper is about to store one
(`PayloadsStored`); an entry that names a table has it in the cache schema, computed for the entry's own call
(`TablesStored`); **a name is used once, in both schemas together** (`NamesApart`); what a wrapper evicts has lost its row and
with it the only claim to its number (`RowGone`); the table a wrapper is about to enter exists (`HasTable`). With
`TablesOwned` of `Sound` for the other direction both properties follow when every wrapper rests. It needs `Sound` at each step:
that a new name is free, and that a payload's number is, comes from there. `Sound` and `Kept` were checked with TLC before they were proved. Each action has a
lemma of its own, by the parts of the invariant it can disturb.

`DuckPoolProofs`, for any tasks, nesting, bounds and failures:

* `PoolTypes`, `TransactionSafety`, `PendingSafety`: `Spec => []` of the three invariants. Together they
  are inductive (`Held`, with `Outermost`: a task that waits to open a block is in none): a task enters a block of its own only
  through a free lock, and while it is inside nobody else executes. `TransactionSafety` ties the transaction to the lock and the block without
  exception, and the owner to them for every task on which no `BEGIN` has failed;
* `BlocksSafety`: `Spec => BlocksAtomic`. `OpenBlock` is `Enter`, `Commit` and `Rollback` are `Leave`,
  `Execute` is a write inside or outside, the rest stutters.

`PgPoolProofs`, for any tasks, connections, nesting, bounds and failures:

* `PoolTypes`, `ConnectionSafety`, `SlotSafety`, `StatementSafety`. Inductive with two
  additions: a free connection is in no block, and the connection a task found in the slot is still
  its own when the statement runs;
* `AloneSafety`: `Spec => []AloneAtomic`. The invariant `IInv` adds that statements are numbered once
  (`Numbered`), that a task in a block holds the connection of the outermost one (`Blocks`), that **a
  block which met no other has the slot until it ends and what it wrote is what is pending there**
  (`Lone`), and that what was rolled back with it is nowhere (`Undone`).

`UploadProofs`, for any files, rows, chunks, samples, uploads, ids and faults:

* `UploadTypes`: `Spec => []TypeOK`;
* `RegisteredSafety`, `RegisteredStaysSafety`: the dataset registered for a call that kept its block is loaded once and is not touched, whatever
  the calls do that lost theirs. Neither is inductive: what is published at the commit was built in many steps before, by a call that others
  displace at any of them. `UploadInv` (`UploadInvariant`) says of every call (`CallInv`): **what it has in its transaction is exactly the first
  `flushed` rows of the file, each once**, and nobody sees a table of that name (`AttemptInv`, `PlaceInv`); a call that has not lost
  its block is in the slot until it sends its `COMMIT`, and then holds table and row (`SlotInv`); a call that has lost it
  finds only tables it made itself. Of every id: a table that is seen belongs to a call of that id, and if that call kept its block it is registered
  (`TableInv`); the row of such a call has its whole table (`RowInv`). The argument is which id a call may write:
  `Alters` is proved once per action, and what it leaves to the other calls (`OthersKeep`) and to the other ids follows once for all;
* `UploadRefined`: `Spec => UploadAtomic`. `Commit` of a call that kept its block is the publication, its abort the
  error answer, everything else stutters, the steps of displaced calls included;
* `NoOrphanSafety`, `LoadedAloneSafety`: `Spec => []NoOrphan` and `Spec => []LoadedAlone`. DuckDB and PostgreSQL follow from `UploadInv`; on
  ClickHouse every statement is seen at once. `OpenUploadInv` (`OpenInvariant`) says that a table nobody registered still
  has a call that will register or drop it, unless a clean-up failed or the process stopped (`HeldInv`), and that
  **the table of a call that is alone under its id, or its copy while the other is dropped, holds the first `flushed`
  rows of the file, and no row twice before the fall-back** (`SoleInv`). That other calls leave it alone is a fact about ids, proved
  once (`OwnPlaces`) for every action.

`RebuildProofs`. `RebuildTypes` holds for any programs that are sequences of statements (`ProgramsTyped`). The others hold for any
programs with sound outlines (`ProgramsOutlined`), and any number of repetitions and faults:

* `RebuildKeepsCopy`: `Spec => []CopyKept`; `RebuildKeepsSource`: `Spec => []SourceWhole`;
* `RebuildAnswers`: `Spec => []AnswerHolds`; `RebuildRepeats`: `Spec => []Repeatable`.

The invariant is `OInv` (`RebuildInvariant`): between calls the dataset is as `NewCall` describes it, and during a call **what is left to do
has a sound outline, with a note at its first place that the state fits** (`Placed`). The promises alone are not inductive: that some table
has the rows does not say that the next `DROP` takes another. One lemma per action: `EffectNoted`
is that `After` describes what each statement does; `SuffixComplete` and `SpliceComplete` that cutting a list and putting a
program in front of one keep an outline; `StopsPlaced`, that a failing function of a chain goes on at a place that expects it;
`AgainFits` and `ClearedEnded`, what a repetition and a cleared cache find.

The outlines do not mention the bounds of the run. TLC evaluates the assumption for the programs of this repository, so the
theorems are about them, with any number of faults, crashes, repetitions and other calls in between; what stays
bounded are the loops inside the programs (once or twice round). The assumption is not idle: with a
failed rename that drops its table, a join that loses rows, a helper column left behind, or a publication that is not marked,
TLC finds that the programs have no sound outline.

`ChatProofs`, for any chats, plans, tools, datasets and faults:

* `ChatInvariant`: `IInv`, the conjunction of the types, of where the session is located, of what is pinned and of
  what a chat at rest has left;
* `ReleasedSafety`: `Spec => []Released`. However chats overlap, the one that unpins may be another than the one that
  pinned, and the last one always does;
* `OneDatasetSafety`: `Spec => []OnOneDataset`, from the table of the session being one of its dataset unless it strayed.

`ChatAloneProofs`, for any chats, plans, tools, datasets and faults:

* `SameTableSafety`: `Spec => []SameTable`;
* `SeesEarlierSafety`: `Spec => []SeesEarlier`;
* `OwnAnswerSafety`: `Spec => []OwnAnswer`.

All three are about a whole chat, and rest on `AloneInv` (`AloneInvariant`): two chats that are under way have met
(`Met`); the steps of a plan come in order, and a description is made only while every step rests (`Ordered`); **a chat that
met nobody keeps the pin and its table from the plan to the end**, and no tool call that began before the pin is still about to
move it (`Steady`); what the session has recorded is what this chat has called (`Answering`); columns are put into one
dataset (`OneSource`), and what a dependent step was told has the columns of the steps before it (`Told`). That the
step which is described is the first that waits needs a least number in a set, the one use of `WellFoundedInduction`.

**Only model-checked.** Liveness (`CallsReturn`, `EveryoneServed`, `UploadsEnd`, `ChatsEnd`): fairness is
beyond the prover. That the programs have sound outlines (`ProgramsOutlined`): what flows along a list is computed by
following it, so TLC does it, for the lists at hand.

## 6. What is left

In the order of what it would add:

1. Deletes and clears next to stores: tables that leak, in the single statements of ClickHouse.
2. `RecordCall` composed with `PgPool` in one state space: which of its one-step blocks really are one step
   when a delete runs beside it.
3. The lock with its re-entrancy by task and its queue as a module of its own.
4. Several sessions on one MemFrame, and the cached contexts of a session once a caller uses them.

## 7. Not modelled

Computation (what the SQL of an operation yields, statistics, parsing, the formats of the type detector),
rendering, the codecs of payloads and the canonical form of arguments: two calls are equal when their keys are.
A wrong codec or a key that confuses two calls is outside these models. ClickHouse's mutations are taken
as done when their statement returns. `_arecord_operation` has no caller. `owns_table` is never set by a
method of the repository, so owned refs do not occur. Threads: the sync API runs on
one background loop, so there is one.

Of the operations: those that only read (statistics, filters, inspection), `dataframe_rename`, `astype` and the
creation and removal of an index, which are one statement each; `_apply_map` of the grouped windows, which nothing
reaches. Of ingestion: encodings, column names, and tables registered from an existing schema. Of the
sessions: the planner's text, dashboards, sessions named by the user.

`connect()` and `close()` take no lock: called next to running work they replace or close the
connection under it. The pool that is re-created on another event loop (`_ensure`) and the client of
ClickHouse are not modelled either; `adapters/postgresql.py` fetches on connections of its own, outside any block,
and nothing calls it from inside one. The migrations and dialects of the backends (`db_manager/setup/`) are
taken as the tables they create.

## 8. Running

```sh
tlc -config MCRecordCall.cfg MCRecordCall.tla     # and MCRecordCallFaulty, MCSilentWrite, MCClearedSource, MCForeignPayload
tlc -config DuckPool.cfg DuckPool.tla
tlc -config PgPool.cfg PgPool.tla                 # and PgAllOrNothing.cfg
tlc -config MCUpload.cfg MCUpload.tla
tlc -config MCRebuild.cfg MCRebuild.tla           # and MCDateShift.cfg
tlc -config MCChat.cfg MCChat.tla
for m in RecordCallProofs RecordCallSound DuckPoolProofs PgPoolProofs \
         UploadProofs RebuildProofs ChatProofs ChatAloneProofs; do tlapm $m.tla; done
```
