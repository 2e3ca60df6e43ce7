------------------------------- MODULE Upload -------------------------------
(***************************************************************************)
(* An upload turns a file or a data frame into a table and a registry row  *)
(* (core/ingestion/upload).  On DuckDB and PostgreSQL an attempt is a      *)
(* transaction() block of the pool; a CSV attempt that fails is repeated   *)
(* once, as text, in a new block.  ClickHouse has no transactions: every   *)
(* statement is seen at once and a failed call drops its table by hand.    *)
(*                                                                         *)
(* DuckDB's pool runs one block at a time.  PostgreSQL's (see PgPool) has  *)
(* one slot: a block that begins takes it from the block that holds it, a  *)
(* block that ends empties it.  The statements of a call that is not in    *)
(* the slot run on other connections, outside of its transaction: they do  *)
(* not see what it contains and commit one by one.                         *)
(*                                                                         *)
(* All calls load the same file, a sequence of rows.  A row is reduced to  *)
(* the value that decides which types hold it, a table to how often it     *)
(* holds each row and the type it was created with: a cast keeps every row *)
(* and turns the values it cannot hold into NULL, which no property tells. *)
(***************************************************************************)
EXTENDS Naturals

CONSTANTS
  Uploads,     \* upload calls
  Ids,         \* the data ids they draw from
  Rows,        \* rows of the file
  Chunk,       \* rows per insert of the readers that insert in chunks
  Sample,      \* rows the types are inferred from
  Cases,       \* what is uploaded where: databases, files and formats
  MaxFaults,   \* bound on failing statements, cancellations, crashes and the
               \* blocks of others
  NoId, NoTable, NoEntry, NoUpload

Backends == {"duckdb", "postgres", "clickhouse"}
Formats == {"csv", "csv with dtypes", "df", "parquet"}
Values == {"plain", "spelled", "foreign"}
File == 1 .. Rows

ASSUME SizesAssumption ==
  /\ Rows \in Nat \ {0}
  /\ Chunk \in Nat \ {0}
  /\ Sample \in 1 .. Rows
  /\ MaxFaults \in Nat
ASSUME CasesAssumption == Cases \subseteq Backends \X [File -> Values] \X Formats

VARIABLES
  backend,   \* the connected database
  file,      \* the value of each row
  tables,    \* the upload schema: what everybody sees under each id
  scratch,   \* the `<id>_tmp` tables of casts outside of a transaction
  registry,  \* the csv registry
  pc,        \* where each call is
  format,    \* what it uploads; dtypes fix the type of the column
  mode,      \* "typed", "text" (whole), "chunked" (text), "whole" (df, parquet)
  id,        \* data_id
  own,       \* the table inside the open transaction of the call
  row,       \* the registry row inside it
  slot,      \* PostgreSQL: the call in the pool's slot (_txn_owner)
  col,       \* the type the CSV reader converts to (col_types)
  flushed,   \* rows inserted so far (total_flushed)
  counted,   \* row_count
  lost,      \* calls whose block lost the slot, or the answer to COMMIT
             \* (history)
  faults     \* faults left

place == <<tables, scratch, registry>>
call == <<format, id>>
local == <<mode, col, flushed, counted>>
block == <<own, row, slot, lost>>
vars == <<backend, file, place, pc, call, local, block, faults>>

(***************************************************************************)
(* Types form a chain; text holds everything.  A "spelled" value is one    *)
(* Arrow refuses for the narrow type and the database still casts ('No'    *)
(* for a BOOLEAN, a timestamp for a DATE); only text holds a "foreign"     *)
(* one.                                                                    *)
(***************************************************************************)
Narrow == 0
Wide == 1
Text == 2
Types == {Narrow, Wide, Text}

ReaderTakes(v, t) ==
  t = Text \/ v = "plain" \/ (v = "spelled" /\ t = Wide)

StoreTakes(v, t) == t = Text \/ v # "foreign"

\* Mutant of Upgrade: the column is not widened.
UpgradeNothing(t) == t

\* The reader's next wider type.
Upgrade(t) == IF t = Narrow THEN Wide ELSE Text

\* What the detector may answer: it needs a share of the sampled values.
Inferred ==
  {t \in Types : t = Text \/ \E r \in 1 .. Sample : ReaderTakes(file[r], t)}

\* What Arrow answers for a frame or a Parquet file: a type of all values,
\* or text for a frame it cannot convert.
Native == {t \in Types : \A r \in File : ReaderTakes(file[r], t)}

Contents == [by : Uploads, typ : Types, loaded : [File -> Nat]]
Entries == [by : Uploads, counted : [File -> Nat]]

ASSUME NullsAssumption ==
  /\ NoTable \notin Contents
  /\ NoEntry \notin Entries
  /\ NoUpload \notin Uploads
  /\ NoId \notin Uploads \union {NoUpload}

Zero == [r \in File |-> 0]

NewTable(u, t) == [by |-> u, typ |-> t, loaded |-> Zero]

\* `part` is appended, every row of it once.
Insert(tab, part) ==
  [tab EXCEPT !.loaded =
     [r \in File |-> IF r \in part THEN tab.loaded[r] + 1 ELSE tab.loaded[r]]]

Transactional == backend # "clickhouse"

InBlock ==
  {"create", "load", "cast", "castdrop", "castrename", "count", "register", "commit"}
Open(u) == Transactional /\ pc[u] \in InBlock
Settled == {"done", "failed", "dirty", "dead"}
Running == {"ready", "cleanup"} \union InBlock

\* Does a statement of call u run in the transaction of its block?
Inside(u) == backend = "duckdb" \/ (backend = "postgres" /\ slot = u)

\* The table a statement finds, and what it makes of it.
Seen(u) == IF Inside(u) THEN own[u] ELSE tables[id[u]]

Put(u, tab) ==
  IF Inside(u)
    THEN own' = [own EXCEPT ![u] = tab] /\ UNCHANGED tables
    ELSE tables' = [tables EXCEPT ![id[u]] = tab] /\ UNCHANGED own

\* A block of call u begins or ends: the slot changes hands, whoever is in it.
TakeSlot(u, next) ==
  /\ slot' = next
  /\ lost' = [v \in Uploads |-> lost[v] \/ (v = slot /\ v # u)]

Goto(u, to) == pc' = [pc EXCEPT ![u] = to]

Spend == faults > 0 /\ faults' = faults - 1

Init ==
  /\ \E c \in Cases : backend = c[1] /\ file = c[2]
  /\ tables = [i \in Ids |-> NoTable]
  /\ scratch = [i \in Ids |-> NoTable]
  /\ registry = [i \in Ids |-> NoEntry]
  /\ pc = [u \in Uploads |-> "idle"]
  /\ format = [u \in Uploads |-> "none"]
  /\ mode = [u \in Uploads |-> "none"]
  /\ id = [u \in Uploads |-> NoId]
  /\ own = [u \in Uploads |-> NoTable]
  /\ row = [u \in Uploads |-> NoEntry]
  /\ slot = NoUpload
  /\ col = [u \in Uploads |-> Text]
  /\ flushed = [u \in Uploads |-> 0]
  /\ counted = [u \in Uploads |-> Zero]
  /\ lost = [u \in Uploads |-> FALSE]
  /\ faults = MaxFaults

-----------------------------------------------------------------------------
(***************************************************************************)
(* An exception leaves the block: the transaction rolls back, with what it *)
(* contains.  A typed CSV attempt is repeated as text; ClickHouse goes to  *)
(* its cleanup.                                                            *)
(***************************************************************************)
Repeats(u) == Transactional /\ mode[u] = "typed"

\* What the call held in its block is gone.
Reset(u) ==
  /\ own' = [own EXCEPT ![u] = NoTable]
  /\ row' = [row EXCEPT ![u] = NoEntry]
  /\ col' = [col EXCEPT ![u] = Text]
  /\ flushed' = [flushed EXCEPT ![u] = 0]
  /\ counted' = [counted EXCEPT ![u] = Zero]

\* The slot is emptied before COMMIT or ROLLBACK, not again after it.
Leave(u) ==
  IF pc[u] = "commit" THEN UNCHANGED <<slot, lost>> ELSE TakeSlot(u, NoUpload)

\* Mutant of Recover: every backend goes through the cleanup by name.
RecoverByName(u) ==
  /\ mode' = IF Repeats(u) THEN [mode EXCEPT ![u] = "text"] ELSE mode
  /\ Goto(u, IF Repeats(u) THEN "ready" ELSE "cleanup")

Recover(u) ==
  /\ mode' = IF Repeats(u) THEN [mode EXCEPT ![u] = "text"] ELSE mode
  /\ Goto(u, IF Repeats(u) THEN "ready"
             ELSE IF Transactional THEN "failed" ELSE "cleanup")

Abort(u) ==
  /\ Reset(u)
  /\ Leave(u)
  /\ Recover(u)
  /\ UNCHANGED <<backend, file, call>>

\* A cancellation and a ConfigurationError are not followed by a repetition.
Stop(u) ==
  /\ Reset(u)
  /\ Leave(u)
  /\ Goto(u, IF Transactional THEN "failed" ELSE "cleanup")
  /\ UNCHANGED <<backend, file, call, mode>>

Csv == {"csv", "csv with dtypes"}
Locked(u) == format[u] = "csv with dtypes"

\* _alloc_data_id: any id without a table; nothing reserves it.
Allocate(u) ==
  /\ pc[u] = "idle"
  /\ \E i \in Ids : tables[i] = NoTable /\ id' = [id EXCEPT ![u] = i]
  /\ \E f \in Formats :
       /\ <<backend, file, f>> \in Cases
       /\ format' = [format EXCEPT ![u] = f]
       /\ mode' = [mode EXCEPT ![u] = IF f \notin Csv THEN "whole"
                                      ELSE IF Transactional THEN "typed" ELSE "text"]
  /\ Goto(u, "ready")
  /\ UNCHANGED <<backend, file, place, block, col, flushed, counted, faults>>

\* The block opens.  DuckDB has one connection, and its lock; PostgreSQL's
\* pool gives the slot to the new block.
Begin(u) ==
  /\ pc[u] = "ready"
  /\ backend = "duckdb" => \A v \in Uploads : ~Open(v)
  /\ TakeSlot(u, IF backend = "postgres" THEN u ELSE NoUpload)
  /\ Goto(u, "create")
  /\ UNCHANGED <<backend, file, place, call, local, own, row, faults>>

\* Any other block of the same pool does (delete, clear, a stored result).
Intrude ==
  /\ slot # NoUpload
  /\ Spend
  /\ TakeSlot(NoUpload, NoUpload)
  /\ UNCHANGED <<backend, file, place, pc, call, local, own, row>>

\* PostgreSQL makes a CREATE wait for another transaction that created the
\* same name.
NameFree(u) ==
  \A v \in Uploads \ {u} : Open(v) /\ own[v] # NoTable => id[v] # id[u]

Create(u) ==
  /\ pc[u] = "create"
  /\ NameFree(u)
  /\ tables[id[u]] = NoTable
  /\ \E t \in CASE mode[u] = "typed" -> (IF Locked(u) THEN Types ELSE Inferred)
                [] mode[u] = "whole" -> Native
                [] OTHER -> {Text} :
       /\ Put(u, NewTable(u, t))
       /\ col' = [col EXCEPT ![u] = t]
  /\ Goto(u, "load")
  /\ UNCHANGED <<backend, file, scratch, registry, call, mode, flushed, counted,
                 row, slot, lost, faults>>

\* The table is already there: the id was drawn twice, or an earlier attempt
\* of the call has committed it.
Taken(u) ==
  /\ pc[u] = "create"
  /\ NameFree(u)
  /\ tables[id[u]] # NoTable
  /\ Abort(u)
  /\ UNCHANGED <<place, faults>>

-----------------------------------------------------------------------------
\* The rows of the next insert.
Upto(u) == IF flushed[u] + Chunk < Rows THEN flushed[u] + Chunk ELSE Rows
Part(u) == {r \in File : flushed[u] < r /\ r <= Upto(u)}

\* Where a loaded table goes: only text is cast afterwards.
AfterLoad(u) ==
  CASE format[u] \in Csv -> (IF mode[u] = "typed" THEN "count" ELSE "cast")
    [] format[u] = "df" -> (IF Seen(u).typ = Text THEN "cast" ELSE "count")
    [] OTHER -> "count"

\* Mutant of Load: the first row of every insert is left out.
LoadSkipping(u, upto) ==
  /\ Seen(u) # NoTable
  /\ LET part == {r \in File : flushed[u] + 1 < r /\ r <= upto}
     IN  /\ \A r \in part : StoreTakes(file[r], Seen(u).typ)
         /\ Put(u, Insert(Seen(u), part))
  /\ flushed' = [flushed EXCEPT ![u] = upto]
  /\ Goto(u, IF upto = Rows THEN AfterLoad(u) ELSE "load")
  /\ col' = IF upto = Rows THEN [col EXCEPT ![u] = Text] ELSE col
  /\ UNCHANGED <<backend, file, scratch, registry, call, mode, counted, row, slot,
                 lost, faults>>

\* Mutant of Load: the header is counted as a row.
LoadCountingHeader(u, upto) ==
  /\ Seen(u) # NoTable
  /\ LET part == {r \in File : flushed[u] < r /\ r <= upto}
     IN  /\ \A r \in part : StoreTakes(file[r], Seen(u).typ)
         /\ Put(u, Insert(Seen(u), part))
  /\ flushed' = [flushed EXCEPT ![u] = upto + 1]
  /\ Goto(u, IF upto = Rows THEN AfterLoad(u) ELSE "load")
  /\ col' = IF upto = Rows THEN [col EXCEPT ![u] = Text] ELSE col
  /\ UNCHANGED <<backend, file, scratch, registry, call, mode, counted, row, slot,
                 lost, faults>>

Load(u, upto) ==
  /\ Seen(u) # NoTable
  /\ LET part == {r \in File : flushed[u] < r /\ r <= upto}
     IN  /\ \A r \in part : StoreTakes(file[r], Seen(u).typ)
         /\ Put(u, Insert(Seen(u), part))
  /\ flushed' = [flushed EXCEPT ![u] = upto]
  /\ Goto(u, IF upto = Rows THEN AfterLoad(u) ELSE "load")
  /\ col' = IF upto = Rows THEN [col EXCEPT ![u] = Text] ELSE col
  /\ UNCHANGED <<backend, file, scratch, registry, call, mode, counted, row, slot,
                 lost, faults>>

\* The streaming readers: a chunk is converted, inserted and counted.
FlushChunk(u) ==
  /\ pc[u] = "load"
  /\ mode[u] \in {"typed", "chunked"}
  /\ \A r \in Part(u) : ReaderTakes(file[r], col[u])
  /\ Load(u, Upto(u))

\* Mutant of WidenColumn: the file is read again from its first row.
WidenFromStart(u) ==
  /\ pc[u] = "load"
  /\ mode[u] = "typed"
  /\ ~Locked(u)
  /\ \E r \in Part(u) : ~ReaderTakes(file[r], col[u])
  /\ col' = [col EXCEPT ![u] = Upgrade(@)]
  /\ flushed' = [flushed EXCEPT ![u] = 0]
  /\ UNCHANGED <<backend, file, place, pc, call, mode, counted, block, faults>>

\* A conversion fails: the column is widened and the file read again from
\* the first row that is not flushed.
WidenColumn(u) ==
  /\ pc[u] = "load"
  /\ mode[u] = "typed"
  /\ ~Locked(u)
  /\ \E r \in Part(u) : ~ReaderTakes(file[r], col[u])
  /\ col' = [col EXCEPT ![u] = Upgrade(@)]
  /\ UNCHANGED <<backend, file, place, pc, call, mode, flushed, counted, block,
                 faults>>

\* The same for a column whose type the caller fixed: no second attempt.
RefuseDtype(u) ==
  /\ pc[u] = "load"
  /\ mode[u] = "typed"
  /\ Locked(u)
  /\ \E r \in Part(u) : ~ReaderTakes(file[r], col[u])
  /\ Stop(u)
  /\ UNCHANGED <<place, faults>>

\* Arrow took the chunk, the column of the table does not.
StoreRefuses(u) ==
  /\ pc[u] = "load"
  /\ mode[u] = "typed"
  /\ Seen(u) # NoTable
  /\ \A r \in Part(u) : ReaderTakes(file[r], col[u])
  /\ \E r \in Part(u) : ~StoreTakes(file[r], Seen(u).typ)
  /\ Abort(u)
  /\ UNCHANGED <<place, faults>>

\* The whole Arrow table: one statement, or ClickHouse's batches.
LoadWhole(u) ==
  /\ pc[u] = "load"
  /\ mode[u] \in {"text", "whole"}
  /\ Load(u, IF Transactional THEN Rows ELSE Upto(u))

\* The bulk path of a text CSV fails, in the reader or in a later batch, and
\* the chunked reader starts over at the first row.
BulkFails(u) ==
  /\ pc[u] = "load"
  /\ mode[u] = "text"
  /\ Spend
  /\ mode' = [mode EXCEPT ![u] = "chunked"]
  /\ flushed' = [flushed EXCEPT ![u] = 0]
  /\ UNCHANGED <<backend, file, place, pc, call, col, counted, block>>

-----------------------------------------------------------------------------
\* Inside its transaction the four statements of a cast are one, and keep
\* what the table holds: if the slot is lost between two of them the cast
\* fails, as it does when it was lost before (CastAborts).
CastInBlock(u) ==
  /\ pc[u] = "cast"
  /\ Inside(u)
  /\ scratch[id[u]] = NoTable
  /\ Goto(u, "count")
  /\ UNCHANGED <<backend, file, place, call, local, block, faults>>

\* A frame whose sample suggests nothing better is left as it is.
SkipCast(u) ==
  /\ pc[u] = "cast"
  /\ format[u] = "df"
  /\ ~Inside(u)
  /\ Seen(u) # NoTable
  /\ Goto(u, "count")
  /\ UNCHANGED <<backend, file, place, call, local, block, faults>>

\* PostgreSQL: a call that lost the slot has a block of its own for the cast,
\* which takes the slot and empties it again.  It keeps it to the end:
CastApart(u) ==
  /\ pc[u] = "cast"
  /\ Transactional /\ ~Inside(u)
  /\ Seen(u) # NoTable
  /\ scratch[id[u]] = NoTable
  /\ TakeSlot(u, NoUpload)
  /\ Goto(u, "count")
  /\ UNCHANGED <<backend, file, place, call, local, own, row, faults>>

\* or it loses it before the first statement.  Then, as on ClickHouse, the
\* table is copied, dropped, and the copy renamed, for all to see.
CastCopy(u) ==
  /\ pc[u] = "cast"
  /\ ~Inside(u)
  /\ Seen(u) # NoTable
  /\ scratch[id[u]] = NoTable
  /\ scratch' = [scratch EXCEPT ![id[u]] = Seen(u)]
  /\ TakeSlot(u, NoUpload)
  /\ Goto(u, "castdrop")
  /\ UNCHANGED <<backend, file, tables, registry, call, local, own, row, faults>>

CastDrop(u) ==
  /\ pc[u] = "castdrop"
  /\ tables' = [tables EXCEPT ![id[u]] = NoTable]
  /\ Goto(u, "castrename")
  /\ UNCHANGED <<backend, file, scratch, registry, call, local, block, faults>>

CastRename(u) ==
  /\ pc[u] = "castrename"
  /\ NameFree(u)
  /\ scratch[id[u]] # NoTable
  /\ tables[id[u]] = NoTable
  /\ tables' = [tables EXCEPT ![id[u]] = scratch[id[u]]]
  /\ scratch' = [scratch EXCEPT ![id[u]] = NoTable]
  /\ TakeSlot(u, NoUpload)
  /\ Goto(u, "count")
  /\ UNCHANGED <<backend, file, registry, call, local, own, row, faults>>

\* One of the statements, or the sample before them, cannot be executed.
CastBreaks(u) ==
  \/ /\ pc[u] = "cast"
     /\ Seen(u) = NoTable \/ scratch[id[u]] # NoTable
  \/ /\ pc[u] = "castrename"
     /\ NameFree(u)
     /\ tables[id[u]] # NoTable \/ scratch[id[u]] = NoTable

\* PostgreSQL: so it is when the slot is lost on the way; a DROP that waits for
\* the call's own transaction ends at command_timeout.  At most an empty copy is
\* left behind.
CastAborts(u) ==
  /\ Transactional
  /\ \/ CastBreaks(u) /\ UNCHANGED scratch
     \/ /\ pc[u] = "cast" /\ ~Inside(u)
        /\ \/ UNCHANGED scratch
           \/ /\ scratch[id[u]] = NoTable
              /\ scratch' = [scratch EXCEPT ![id[u]] = NewTable(u, Text)]
  /\ Abort(u)
  /\ UNCHANGED <<tables, registry, faults>>

\* ClickHouse: the copy is dropped, if the cast had come so far and if that
\* does not fail too, and the exception goes on to the cleanup of the call.
CastFails(u) ==
  /\ ~Transactional
  /\ \/ CastBreaks(u) /\ UNCHANGED faults
     \/ pc[u] \in {"cast", "castdrop", "castrename"} /\ Spend
  /\ \/ scratch' = [scratch EXCEPT ![id[u]] = NoTable]
     \/ (faults' > 0 \/ pc[u] = "cast") /\ UNCHANGED scratch
  /\ Abort(u)
  /\ UNCHANGED <<tables, registry>>

-----------------------------------------------------------------------------
\* SELECT COUNT(*): how often the table holds each row.
Count(u) ==
  /\ pc[u] = "count"
  /\ Seen(u) # NoTable
  /\ counted' = [counted EXCEPT ![u] = Seen(u).loaded]
  /\ Goto(u, "register")
  /\ UNCHANGED <<backend, file, place, call, mode, col, flushed, block, faults>>

\* _register: on DuckDB and PostgreSQL the id is the primary key.
Entry(u) == [by |-> u, counted |-> counted[u]]
RowFree(u) == Transactional => registry[id[u]] = NoEntry

\* Mutant of PutRow: the row goes around the transaction.
PutRowAtOnce(u) ==
  registry' = [registry EXCEPT ![id[u]] = Entry(u)] /\ UNCHANGED row

PutRow(u) ==
  IF Inside(u)
    THEN row' = [row EXCEPT ![u] = Entry(u)] /\ UNCHANGED registry
    ELSE registry' = [registry EXCEPT ![id[u]] = Entry(u)] /\ UNCHANGED row

\* The INSERT is the last statement: the block is left for its COMMIT.
Register(u) ==
  /\ pc[u] = "register"
  /\ RowFree(u)
  /\ PutRow(u)
  /\ TakeSlot(u, NoUpload)
  /\ Goto(u, IF Transactional THEN "commit" ELSE "done")
  /\ UNCHANGED <<backend, file, tables, scratch, call, local, own, faults>>

RowTaken(u) ==
  /\ pc[u] = "register"
  /\ ~RowFree(u)
  /\ Abort(u)
  /\ UNCHANGED <<place, faults>>

\* What the transaction contains is seen by all.
Publish(u) ==
  /\ tables' = IF own[u] = NoTable THEN tables
               ELSE [tables EXCEPT ![id[u]] = own[u]]
  /\ registry' = IF row[u] = NoEntry THEN registry
                 ELSE [registry EXCEPT ![id[u]] = row[u]]
  /\ UNCHANGED scratch

Commit(u) ==
  /\ pc[u] = "commit"
  /\ Publish(u)
  /\ Reset(u)
  /\ Goto(u, "done")
  /\ UNCHANGED <<backend, file, call, mode, slot, lost, faults>>

\* The connection breaks after COMMIT was executed: the call takes it for a
\* failure.  DuckDB runs in the process.
CommitUnheard(u) ==
  /\ backend = "postgres"
  /\ pc[u] = "commit"
  /\ Spend
  /\ Publish(u)
  /\ Reset(u)
  /\ Recover(u)
  /\ lost' = [lost EXCEPT ![u] = TRUE]
  /\ UNCHANGED <<backend, file, call, slot>>

\* The table is not there for a statement of the call: another one with its
\* id dropped it, or it is in a transaction the call has lost.
TableGone(u) ==
  /\ pc[u] \in {"load", "count"}
  /\ Seen(u) = NoTable
  /\ Abort(u)
  /\ UNCHANGED <<place, faults>>

\* A statement of the block fails, or the call is cancelled in it.  Outside of
\* a transaction CREATE or INSERT may have been executed all the same.
Fault(u) ==
  /\ pc[u] \in (IF Transactional THEN InBlock ELSE {"create", "load", "count", "register"})
  /\ Spend
  /\ \/ UNCHANGED place
     \/ /\ pc[u] = "create" /\ ~Inside(u)
        /\ NameFree(u) /\ tables[id[u]] = NoTable
        /\ \E t \in Types : tables' = [tables EXCEPT ![id[u]] = NewTable(u, t)]
        /\ UNCHANGED <<scratch, registry>>
     \/ /\ pc[u] = "register" /\ ~Inside(u)
        /\ RowFree(u)
        /\ registry' = [registry EXCEPT ![id[u]] = Entry(u)]
        /\ UNCHANGED <<tables, scratch>>
  /\ Abort(u) \/ Stop(u)

\* Mutant of Cleanup: the table stays.
CleanupNothing(u) ==
  /\ pc[u] = "cleanup"
  /\ Goto(u, "failed")
  /\ UNCHANGED <<backend, file, place, call, local, block, faults>>

\* _drop_upload_on_failure, on ClickHouse: by name, errors swallowed.
Cleanup(u) ==
  /\ pc[u] = "cleanup"
  /\ tables' = [tables EXCEPT ![id[u]] = NoTable]
  /\ Goto(u, "failed")
  /\ UNCHANGED <<backend, file, scratch, registry, call, local, block, faults>>

CleanupFails(u) ==
  /\ pc[u] = "cleanup"
  /\ Spend
  /\ Goto(u, "dirty")
  /\ UNCHANGED <<backend, file, place, call, local, block>>

\* The process dies: open transactions are rolled back by the database.
Crash ==
  /\ Spend
  /\ \E u \in Uploads : pc[u] \in Running
  /\ pc' = [u \in Uploads |-> IF pc[u] \in Running THEN "dead" ELSE pc[u]]
  /\ own' = [u \in Uploads |-> NoTable]
  /\ row' = [u \in Uploads |-> NoEntry]
  /\ slot' = NoUpload
  /\ col' = [u \in Uploads |-> Text]
  /\ flushed' = [u \in Uploads |-> 0]
  /\ counted' = [u \in Uploads |-> Zero]
  /\ UNCHANGED <<backend, file, place, call, mode, lost>>

Step(u) ==
  \/ Begin(u) \/ Create(u) \/ Taken(u)
  \/ FlushChunk(u) \/ WidenColumn(u) \/ RefuseDtype(u) \/ StoreRefuses(u)
  \/ LoadWhole(u) \/ CastInBlock(u) \/ SkipCast(u) \/ CastApart(u)
  \/ CastCopy(u) \/ CastDrop(u) \/ CastRename(u) \/ CastAborts(u) \/ CastFails(u)
  \/ Count(u) \/ Register(u) \/ RowTaken(u) \/ Commit(u)
  \/ TableGone(u) \/ Cleanup(u)

Mishap(u) == BulkFails(u) \/ CommitUnheard(u) \/ Fault(u) \/ CleanupFails(u)

Next ==
  \/ \E u \in Uploads : Allocate(u) \/ Step(u) \/ Mishap(u)
  \/ Intrude
  \/ Crash

Spec == Init /\ [][Next]_vars

\* A call that was made is carried on: the loop and the databases answer.
FairSpec == Spec /\ \A u \in Uploads : WF_vars(Step(u))

-----------------------------------------------------------------------------
TypeOK ==
  /\ backend \in Backends
  /\ file \in [File -> Values]
  /\ tables \in [Ids -> Contents \union {NoTable}]
  /\ scratch \in [Ids -> Contents \union {NoTable}]
  /\ registry \in [Ids -> Entries \union {NoEntry}]
  /\ pc \in [Uploads -> {"idle"} \union Running \union Settled]
  /\ format \in [Uploads -> Formats \union {"none"}]
  /\ mode \in [Uploads -> {"none", "typed", "text", "chunked", "whole"}]
  /\ id \in [Uploads -> Ids \union {NoId}]
  /\ own \in [Uploads -> Contents \union {NoTable}]
  /\ row \in [Uploads -> Entries \union {NoEntry}]
  /\ slot \in Uploads \union {NoUpload}
  /\ col \in [Uploads -> Types]
  /\ flushed \in [Uploads -> 0 .. Rows]
  /\ counted \in [Uploads -> [File -> Nat]]
  /\ lost \in [Uploads -> BOOLEAN]
  /\ faults \in 0 .. MaxFaults
  /\ \A u \in Uploads : pc[u] # "idle" => id[u] \in Ids

Once == [r \in File |-> 1]

\* Is the call one whose block is one transaction to its end?  On DuckDB every
\* call is; on PostgreSQL one that kept the slot and was told so.
Kept(u) == backend = "duckdb" \/ (backend = "postgres" /\ ~lost[u])

\* A dataset the registry lists for such a call has its table, with every row
\* of the file exactly once and the row count the registry says, whatever
\* widened, failed, was repeated or ran beside it (strategies/csv.py, df.py,
\* parquet.py).
RegisteredLoaded ==
  \A i \in Ids : registry[i] # NoEntry /\ Kept(registry[i].by) =>
    /\ tables[i] # NoTable
    /\ tables[i].by = registry[i].by
    /\ tables[i].loaded = Once
    /\ registry[i].counted = Once

\* On DuckDB no table is ever seen without its registry row: "a failed upload
\* never leaves an orphan table with no data_id" (df.py:80-81), not even for
\* a moment or after a crash.  On PostgreSQL one is only of a call whose block
\* lost the slot.  On ClickHouse one is there only while its call runs, or
\* after a crash or a cleanup that failed.
NoOrphan ==
  \A i \in Ids : tables[i] # NoTable /\ registry[i] = NoEntry =>
    \/ /\ backend = "postgres"
       /\ lost[tables[i].by] /\ id[tables[i].by] = i
    \/ /\ backend = "clickhouse"
       /\ \E u \in Uploads :
            id[u] = i /\ pc[u] \in Running \union {"dead", "dirty"}

\* On ClickHouse a call whose id nobody else drew ends with every row in its
\* table, and more than once only if the bulk load fell back to the chunked
\* reader (strategies/csv.py:342-363).
LoadedAlone ==
  \A u \in Uploads :
    /\ ~Transactional
    /\ pc[u] = "done"
    /\ \A v \in Uploads \ {u} : id[v] # id[u]
    => /\ registry[id[u]] # NoEntry
       /\ tables[id[u]] # NoTable
       /\ \A r \in File : tables[id[u]].loaded[r] > 0
       /\ mode[u] # "chunked" => tables[id[u]].loaded = Once

\* What a call does, or undoes after a failure, never touches the registered
\* dataset of a call that kept its block, even if it lost its own.
RegisteredStays ==
  [][\A i \in Ids : registry[i] # NoEntry /\ Kept(registry[i].by) =>
       tables'[i] = tables[i] /\ registry'[i] = registry[i]]_vars

\* A call that was made ends: the reader does not widen for ever, nobody
\* waits for a transaction that is not closed.
UploadsEnd == \A u \in Uploads : pc[u] \in Running ~> pc[u] \in Settled

-----------------------------------------------------------------------------
(***************************************************************************)
(* The abstract view: an id holds a call's file when its table is there,   *)
(* registered and whole.  Only calls that keep their block are in it: the  *)
(* code promises nothing of the kind on ClickHouse, and PostgreSQL's pool  *)
(* does not keep the promise for the others.                               *)
(***************************************************************************)
Whole(i) ==
  /\ tables[i] # NoTable
  /\ registry[i] # NoEntry
  /\ tables[i].loaded = Once
  /\ tables[i].by = registry[i].by

\* Does anything under id i come from such a call?
Shown(i) ==
  \/ tables[i] # NoTable /\ Kept(tables[i].by)
  \/ registry[i] # NoEntry /\ Kept(registry[i].by)

Dataset(i) ==
  IF ~Shown(i) THEN NoUpload ELSE IF Whole(i) THEN tables[i].by ELSE NoId

Answer(u) ==
  IF Kept(u) /\ pc[u] = "done" THEN "id"
  ELSE IF Kept(u) /\ pc[u] = "failed" THEN "error" ELSE "none"

Promise == INSTANCE AtomicUpload WITH
  dataset <- [i \in Ids |-> Dataset(i)],
  answer <- [u \in Uploads |-> Answer(u)]

\* An upload that keeps its block is one step, whatever the others do.
UploadAtomic == Promise!Spec

=============================================================================
