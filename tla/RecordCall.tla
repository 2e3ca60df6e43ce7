----------------------------- MODULE RecordCall -----------------------------
(***************************************************************************)
(* The call cache of memFrame: the wrapper record_call puts around every   *)
(* analytical method (cache/cache_manager.py), the registry and payload    *)
(* tables it keeps, and the two operations that sweep them                 *)
(* (db_manager/ops.py: clear the cache, delete the dataset).               *)
(*                                                                         *)
(* One dataset, one MemFrame, one event loop: a step of this module runs   *)
(* from one await to the next, so a statement of the backend is a step.    *)
(* The wrapper's transaction block is one step too: on DuckDB and on       *)
(* PostgreSQL it commits or rolls back as a whole.                         *)
(*                                                                         *)
(* Contents are versions: every write of the source table gives it a new   *)
(* one.  The calls are keys, in five classes by what the method does and   *)
(* how it declares it.  What a result says is [key, data]: which call was  *)
(* computed, from which version.                                           *)
(***************************************************************************)
EXTENDS Naturals

CONSTANTS
  Tasks,       \* coroutines that issue calls
  Sweepers,    \* coroutines that clear the cache or delete the dataset
  Stat,        \* calls whose result has no table (a scalar, a describe)
  Assign,      \* calls that update the source and declare it (arithmetic)
  Publish,     \* calls that swap a wide table into the source (window)
  Overwrite,   \* calls that update the source and declare nothing (cumulative)
  Derive,      \* calls that create a table of their own (sort_values)
  DeepModes,   \* the values is_deep takes
  Shapes,      \* fingerprints: row count and column set
  MayFail,     \* statements may fail, tasks may be cancelled or crash
  MayEdit,     \* the source is also written by somebody else
  MaxCalls,    \* bound on the calls, sweeps and edits of a behaviour
  NoTask, NoKey, NoShape

Announced == Assign \union Publish
Writes == Announced \union Overwrite
Keys == Stat \union Writes \union Derive

ASSUME TasksAssumption == NoTask \notin Tasks
ASSUME KeysAssumption ==
  /\ NoKey \notin Keys
  /\ Stat \intersect (Writes \union Derive) = {}
  /\ Derive \intersect Writes = {}
  /\ Overwrite \intersect Announced = {}
  /\ Assign \intersect Publish = {}
ASSUME ShapesAssumption == NoShape \notin Shapes
ASSUME ModesAssumption ==
  /\ DeepModes \subseteq BOOLEAN
  /\ MayFail \in BOOLEAN
  /\ MayEdit \in BOOLEAN
  /\ MaxCalls \in Nat

VARIABLES
  lock,        \* the task that holds the dataset's lock
  call,        \* the local variables of every running wrapper
  sweep,       \* the local variables of every running sweep
  source,      \* the dataset's table
  registered,  \* is the dataset in memframe_csv_registry?
  epoch,       \* its cache_epoch there
  rows,        \* memframe_cache_registry
  payloads,    \* memframe_cache_payloads
  tables,      \* the tables Derive calls created
  answer,      \* what each task was last given
  begun        \* calls, sweeps and edits so far

vars == <<lock, call, sweep, source, registered, epoch, rows, payloads,
          tables, answer, begun>>

-----------------------------------------------------------------------------
(* State: shapes of the records and the initial values.                    *)

Contents == [key : Keys \union {NoKey}, data : Nat]
NoContent == [key |-> NoKey, data |-> 0]

\* kind is cache_kind, with NULL split by what generated_table_name holds:
\* "table" (a cached table), "marker" (record_marker's row, the source's
\* name), "none" (nothing).
Kinds == {"actual", "ref", "table", "marker", "none"}
Rows == [opidx : Nat \ {0}, key : Keys, deep : BOOLEAN, kind : Kinds,
         fp : Shapes \union {NoShape}, epoch : Nat, table : Nat]
NoRow == [opidx |-> 0, key |-> NoKey, deep |-> FALSE, kind |-> "none",
          fp |-> NoShape, epoch |-> 0, table |-> 0]

\* The steps of the wrapper; the lock is held at all of them but two.
Critical == {"lookup", "fingerprint", "epoch", "evictRow", "evictPayload",
             "evictTable", "reuse", "execute", "create", "markNumber", "mark",
             "txn", "stamp", "number", "record", "payload", "deliver"}
Steps == Critical \union {"idle", "acquire"}

Calls == [pc : Steps, key : Keys \union {NoKey}, deep : BOOLEAN,
          row : Rows \union {NoRow}, ok : BOOLEAN, of : Contents,
          table : Nat, kind : Kinds, epoch : Nat,
          fp : Shapes \union {NoShape}, opidx : Nat]
Idle == [pc |-> "idle", key |-> NoKey, deep |-> FALSE, row |-> NoRow,
         ok |-> FALSE, of |-> NoContent, table |-> 0, kind |-> "none",
         epoch |-> 0, fp |-> NoShape, opidx |-> 0]

Sweeps == [pc : {"idle", "drop"}, op : {"clear", "delete"},
           owned : SUBSET Nat, source : BOOLEAN]
NoSweep == [pc |-> "idle", op |-> "clear", owned |-> {}, source |-> FALSE]

Sources == [exists : BOOLEAN, data : Nat \ {0}, shape : Shapes,
            cols : [Keys -> Nat]]

Init ==
  /\ lock = NoTask
  /\ call = [t \in Tasks |-> Idle]
  /\ sweep = [s \in Sweepers |-> NoSweep]
  /\ source \in {[exists |-> TRUE, data |-> 1, shape |-> sh,
                  cols |-> [k \in Keys |-> 0]] : sh \in Shapes}
  /\ registered = TRUE
  /\ epoch = 0
  /\ rows = {}
  /\ payloads = {}
  /\ tables = {}
  /\ answer = [t \in Tasks |-> NoContent]
  /\ begun = 0

-----------------------------------------------------------------------------
(* Helpers.                                                                *)

\* Task t goes on at pc, with the fields of the record f changed.
Goto(t, c) == call' = [call EXCEPT ![t] = c]

\* Mutant of IsNext: the number after any entry's, not after the last one's.
IsNextOfAny(n) == n \in {1} \union {r.opidx + 1 : r \in rows}

\* COALESCE(MAX(opidx), 0) + 1 over the registry.
IsNext(n) ==
  /\ n \in {1} \union {r.opidx + 1 : r \in rows}
  /\ \A r \in rows : r.opidx < n

\* The row the lookup's SELECT ... ORDER BY opidx DESC LIMIT 1 returns.
Visible(r, k) == r.key = k /\ (r.deep \/ r.kind \in {"actual", "ref"})
                           /\ r.kind # "marker"
IsTopRow(r, k) ==
  /\ r \in rows
  /\ Visible(r, k)
  /\ \A q \in rows : Visible(q, k) => q.opidx <= r.opidx

\* _read_fingerprint resolves the table through the registry and measures it.
Measurable == registered /\ source.exists

\* Mutant of CurrentEpoch: a sentinel for a dataset that is not registered.
SentinelEpoch == IF registered THEN epoch ELSE 0 - 1

\* _current_epoch: 0 for a dataset that is not registered, 0 on an error.
CurrentEpoch == IF registered THEN epoch ELSE 0
ReadsEpoch(e) == e = CurrentEpoch \/ (MayFail /\ e = 0)

\* What a stored row still leads to: the payload, the columns, the table.
Reloaded(r) ==
  CASE r.kind = "actual" -> {p.of : p \in {q \in payloads : q.opidx = r.opidx}}
    [] r.kind = "ref" -> IF source.exists /\ source.cols[r.key] # 0
                           THEN {[key |-> r.key, data |-> source.cols[r.key]]}
                           ELSE {}
    [] r.kind = "table" -> {x.of : x \in {y \in tables : y.name = r.table
                                                      /\ y.place = "cache"}}
    [] OTHER -> {}

\* The method of call k writes its columns: a new version, any shape.
WriteSource(k) ==
  \E sh \in Shapes :
    source' = [source EXCEPT !.data = source.data + 1, !.shape = sh,
                             !.cols = [source.cols EXCEPT ![k] = source.data + 1]]

At(name, place) == {x \in tables : x.name = name /\ x.place = place}

-----------------------------------------------------------------------------
(* The wrapper: lookup.                                                    *)

\* The call is issued; is_deep is resolved before the lock is asked for.
Begin(t) ==
  /\ begun < MaxCalls
  /\ call[t].pc = "idle"
  /\ \E k \in Keys, d \in DeepModes :
       Goto(t, [Idle EXCEPT !.pc = "acquire", !.key = k, !.deep = d])
  /\ answer' = [answer EXCEPT ![t] = NoContent]
  /\ begun' = begun + 1
  /\ UNCHANGED <<lock, sweep, source, registered, epoch, rows, payloads, tables>>

\* Mutant of Acquire: nobody waits for the lock.
AcquireHeld(t) ==
  /\ call[t].pc = "acquire"
  /\ lock' = t
  /\ Goto(t, [call[t] EXCEPT !.pc = IF call[t].deep THEN "lookup" ELSE "execute"])
  /\ UNCHANGED <<sweep, source, registered, epoch, rows, payloads, tables,
                 answer, begun>>

Acquire(t) ==
  /\ call[t].pc = "acquire"
  /\ lock = NoTask
  /\ lock' = t
  /\ Goto(t, [call[t] EXCEPT !.pc = IF call[t].deep THEN "lookup" ELSE "execute"])
  /\ UNCHANGED <<sweep, source, registered, epoch, rows, payloads, tables,
                 answer, begun>>

Lookup(t) ==
  /\ call[t].pc = "lookup"
  /\ \/ \E r \in rows :
          /\ IsTopRow(r, call[t].key)
          /\ Goto(t, [call[t] EXCEPT !.pc = "fingerprint", !.row = r])
     \/ /\ \A r \in rows : ~Visible(r, call[t].key)
        /\ Goto(t, [call[t] EXCEPT !.pc = "execute"])
  /\ UNCHANGED <<lock, sweep, source, registered, epoch, rows, payloads,
                 tables, answer, begun>>

CheckFingerprint(t) ==
  LET r == call[t].row
      Miss == ~Measurable
      Stale == Measurable /\ r.fp \notin {NoShape, source.shape}
  IN /\ call[t].pc = "fingerprint"
     /\ \/ /\ Miss \/ MayFail
           /\ Goto(t, [call[t] EXCEPT !.pc = "execute", !.row = NoRow])
        \/ Stale /\ Goto(t, [call[t] EXCEPT !.pc = "evictRow"])
        \/ ~Miss /\ ~Stale /\ Goto(t, [call[t] EXCEPT !.pc = "epoch"])
     /\ UNCHANGED <<lock, sweep, source, registered, epoch, rows, payloads,
                    tables, answer, begun>>

\* Mutant of CheckEpoch: an entry one write behind still counts as current.
CheckEpochLate(t) ==
  /\ call[t].pc = "epoch"
  /\ \E e \in {0, CurrentEpoch} :
       /\ ReadsEpoch(e)
       /\ Goto(t, [call[t] EXCEPT
                     !.pc = IF e > call[t].row.epoch + 1 THEN "evictRow" ELSE "reuse"])
  /\ UNCHANGED <<lock, sweep, source, registered, epoch, rows, payloads,
                 tables, answer, begun>>

CheckEpoch(t) ==
  /\ call[t].pc = "epoch"
  /\ \E e \in {0, CurrentEpoch} :
       /\ ReadsEpoch(e)
       /\ Goto(t, [call[t] EXCEPT
                     !.pc = IF e > call[t].row.epoch THEN "evictRow" ELSE "reuse"])
  /\ UNCHANGED <<lock, sweep, source, registered, epoch, rows, payloads,
                 tables, answer, begun>>

\* A stale entry goes in three statements: its row, its payload, its table.
EvictRow(t) ==
  /\ call[t].pc = "evictRow"
  /\ rows' = {r \in rows : r.opidx # call[t].row.opidx}
  /\ Goto(t, [call[t] EXCEPT !.pc = "evictPayload"])
  /\ UNCHANGED <<lock, sweep, source, registered, epoch, payloads, tables,
                 answer, begun>>

EvictPayload(t) ==
  /\ call[t].pc = "evictPayload"
  /\ payloads' = {p \in payloads : p.opidx # call[t].row.opidx}
  /\ Goto(t, [call[t] EXCEPT !.pc = "evictTable"])
  /\ UNCHANGED <<lock, sweep, source, registered, epoch, rows, tables,
                 answer, begun>>

\* Mutant of EvictTable: the entry goes, its table stays.
EvictNoTable(t) ==
  /\ call[t].pc = "evictTable"
  /\ Goto(t, [call[t] EXCEPT !.pc = "execute", !.row = NoRow])
  /\ UNCHANGED <<lock, sweep, source, registered, epoch, rows, payloads, tables,
                 answer, begun>>

\* The drop may fail: that is logged, and the table stays.
EvictTable(t) ==
  /\ call[t].pc = "evictTable"
  /\ \/ tables' = IF call[t].row.kind = "table"
                    THEN tables \ At(call[t].row.table, "cache") ELSE tables
     \/ MayFail /\ UNCHANGED tables
  /\ Goto(t, [call[t] EXCEPT !.pc = "execute", !.row = NoRow])
  /\ UNCHANGED <<lock, sweep, source, registered, epoch, rows, payloads,
                 answer, begun>>

\* A hit is delivered; a row that leads nowhere is a miss.
Reuse(t) ==
  /\ call[t].pc = "reuse"
  /\ \/ \E c \in Reloaded(call[t].row) :
          Goto(t, [call[t] EXCEPT !.pc = "deliver", !.ok = TRUE, !.of = c,
                                  !.row = NoRow])
     \/ /\ Reloaded(call[t].row) = {} \/ MayFail
        /\ Goto(t, [call[t] EXCEPT !.pc = "execute", !.row = NoRow])
  /\ UNCHANGED <<lock, sweep, source, registered, epoch, rows, payloads,
                 tables, answer, begun>>

-----------------------------------------------------------------------------
(* The wrapper: the method itself.                                         *)

\* The method returned a result computed from the version d.
Computed(t, pc, d) ==
  Goto(t, [call[t] EXCEPT !.pc = pc, !.ok = TRUE,
                          !.of = [key |-> call[t].key, data |-> d]])

ExecuteStat(t) ==
  /\ call[t].pc = "execute" /\ call[t].key \in Stat
  /\ Measurable
  /\ Computed(t, "txn", source.data)
  /\ UNCHANGED <<lock, sweep, source, registered, epoch, rows, payloads,
                 tables, answer, begun>>

\* ADD COLUMN when it is missing, then UPDATE in place.
ExecuteUpdate(t) ==
  /\ call[t].pc = "execute" /\ call[t].key \in Assign \union Overwrite
  /\ Measurable
  /\ WriteSource(call[t].key)
  /\ Computed(t, "txn", source.data + 1)
  /\ UNCHANGED <<lock, sweep, registered, epoch, rows, payloads, tables,
                 answer, begun>>

\* A marker row says that this call generated its columns.
Marked(k) == \E r \in rows : r.kind = "marker" /\ r.key = k

\* publish_row_aligned: refuse a column of unknown origin, else swap.
ExecutePublish(t) ==
  /\ call[t].pc = "execute" /\ call[t].key \in Publish
  /\ Measurable
  /\ source.cols[call[t].key] = 0 \/ Marked(call[t].key)
  /\ WriteSource(call[t].key)
  /\ Computed(t, "markNumber", source.data + 1)
  /\ UNCHANGED <<lock, sweep, registered, epoch, rows, payloads, tables,
                 answer, begun>>

\* record_marker inserts with the number PickOpidx read.
Mark(t) ==
  /\ call[t].pc = "mark"
  /\ \A r \in rows : r.opidx # call[t].opidx
  /\ rows' = rows \union {[NoRow EXCEPT !.opidx = call[t].opidx,
                                        !.key = call[t].key, !.kind = "marker"]}
  /\ Goto(t, [call[t] EXCEPT !.pc = "txn", !.opidx = 0])
  /\ UNCHANGED <<lock, sweep, source, registered, epoch, payloads, tables,
                 answer, begun>>

\* _generate_cache_table_name: <table>__op_<next opidx>.
ExecuteDerive(t) ==
  /\ call[t].pc = "execute" /\ call[t].key \in Derive
  /\ Measurable
  /\ \E n \in {1} \union {r.opidx + 1 : r \in rows} :
       /\ IsNext(n)
       /\ Goto(t, [call[t] EXCEPT !.pc = "create", !.table = n])
  /\ UNCHANGED <<lock, sweep, source, registered, epoch, rows, payloads,
                 tables, answer, begun>>

\* CREATE TABLE ... AS in the upload schema, then a sample, which may fail.
CreateTable(t) ==
  LET of == [key |-> call[t].key, data |-> source.data]
  IN /\ call[t].pc = "create"
     /\ source.exists
     /\ At(call[t].table, "upload") = {}
     /\ tables' = tables \union {[name |-> call[t].table, place |-> "upload",
                                  of |-> of]}
     /\ \/ Goto(t, [call[t] EXCEPT !.pc = "txn", !.ok = TRUE, !.of = of])
        \/ MayFail /\ Goto(t, [call[t] EXCEPT !.pc = "txn", !.table = 0])
     /\ UNCHANGED <<lock, sweep, source, registered, epoch, rows, payloads,
                    answer, begun>>

\* The method caught an exception and returned is_error; what it had
\* written by then stays written.
ExecuteError(t) ==
  LET k == call[t].key
      Refused == \/ call[t].pc = "execute" /\ registered
                    /\ \/ ~source.exists
                       \/ k \in Publish /\ source.cols[k] # 0 /\ ~Marked(k)
                 \/ call[t].pc = "create"
                    /\ (~source.exists \/ At(call[t].table, "upload") # {})
      Failed == MayFail /\ call[t].pc \in {"execute", "create"} /\ registered
  IN /\ \/ Refused /\ UNCHANGED source
        \/ Failed /\ UNCHANGED source
        \/ Failed /\ k \in Writes /\ source.exists /\ WriteSource(k)
     /\ Goto(t, [call[t] EXCEPT !.pc = "txn", !.table = 0])
     /\ UNCHANGED <<lock, sweep, registered, epoch, rows, payloads, tables,
                    answer, begun>>

\* _get_active_context raises DataNotFound; the call ends.
ExecuteRaise(t) ==
  /\ call[t].pc = "execute" /\ ~registered
  /\ Goto(t, Idle)
  /\ lock' = NoTask
  /\ UNCHANGED <<sweep, source, registered, epoch, rows, payloads, tables,
                 answer, begun>>

-----------------------------------------------------------------------------
(* The wrapper: store.                                                     *)

\* Mutant of StampEpoch: no bump.
StampUnbumped(t, c) ==
  /\ \E e \in {0, CurrentEpoch} : ReadsEpoch(e) /\ Goto(t, [c EXCEPT !.epoch = e])
  /\ UNCHANGED epoch

\* Mutant of StampEpoch: the bump fails, the entry is stamped as if it had not.
StampAhead(t, c) ==
  \/ /\ call[t].ok /\ call[t].key \in Announced /\ registered
     /\ epoch' = epoch + 1 \/ (MayFail /\ UNCHANGED epoch)
     /\ Goto(t, [c EXCEPT !.epoch = epoch + 1])
  \/ /\ ~(call[t].ok /\ call[t].key \in Announced /\ registered)
     /\ \E e \in {0, CurrentEpoch} : ReadsEpoch(e) /\ Goto(t, [c EXCEPT !.epoch = e])
     /\ UNCHANGED epoch

\* The bump of an announced write and the read after it: errors of the one
\* are swallowed, the other answers 0 on an error.  Every other call only reads
\* the epoch.
StampEpoch(t, c) ==
  \/ /\ call[t].ok /\ call[t].key \in Announced /\ registered
     /\ epoch' = epoch + 1
     /\ \/ Goto(t, [c EXCEPT !.epoch = epoch + 1])
        \/ MayFail /\ Goto(t, [c EXCEPT !.epoch = 0])
  \/ /\ ~(call[t].ok /\ call[t].key \in Announced /\ registered) \/ MayFail
     /\ \E e \in {0, CurrentEpoch} : ReadsEpoch(e) /\ Goto(t, [c EXCEPT !.epoch = e])
     /\ UNCHANGED epoch

\* is_deep: the kind of the entry; a derived table moves to the cache schema
\* unless one of its name is there already, which is then taken for it.  A
\* result that cannot be encoded is recorded as none, is_deep or not by how the
\* method is declared.
StoreDeep(t) ==
  LET k == call[t].key
      n == call[t].table
      Stored(kind) == [call[t] EXCEPT !.pc = "stamp", !.kind = kind]
      Moved == (tables \ At(n, "upload"))
               \union {[x EXCEPT !.place = "cache"] : x \in At(n, "upload")}
  IN /\ call[t].pc = "txn" /\ call[t].deep /\ call[t].ok
     /\ \/ k \in Stat /\ StampEpoch(t, Stored("actual")) /\ UNCHANGED tables
        \/ /\ k \in Announced \/ (k \in Overwrite /\ registered)
           /\ StampEpoch(t, Stored("ref"))
           /\ UNCHANGED tables
        \/ /\ k \in Derive
           /\ At(n, "cache") # {}
           /\ StampEpoch(t, Stored("table"))
           /\ UNCHANGED tables
        \/ /\ k \in Derive
           /\ At(n, "cache") = {} /\ At(n, "upload") # {}
           /\ StampEpoch(t, Stored("table"))
           /\ tables' = Moved
        \/ /\ k \in Overwrite /\ ~registered
           /\ StampEpoch(t, [Stored("none") EXCEPT !.table = 0])
           /\ UNCHANGED tables
        \/ /\ MayFail /\ k \in Stat
           /\ \E d \in BOOLEAN : StampEpoch(t, [Stored("none") EXCEPT !.deep = d])
           /\ UNCHANGED tables
     /\ UNCHANGED <<lock, sweep, source, registered, rows, payloads, answer,
                    begun>>

\* The same when _active_context swallows an exception: a call that declares
\* nothing is then taken for one that made a table, and the source moves to the
\* cache schema, under its own name (0).
StoreMoved(t) ==
  /\ MayFail
  /\ call[t].pc = "txn" /\ call[t].deep /\ call[t].ok
  /\ call[t].key \in Overwrite
  /\ source' = [source EXCEPT !.exists = FALSE]
  /\ StampEpoch(t, [call[t] EXCEPT !.pc = "stamp", !.table = 0,
                       !.kind = IF source.exists THEN "table" ELSE "none"])
  /\ UNCHANGED <<lock, sweep, registered, rows, payloads, tables, answer, begun>>

\* ~is_deep: an undeclared result's table is dropped, from the cache schema
\* if it is there, else from the upload schema; for a call that wrote the
\* source this table is the source.
StoreShallow(t) ==
  LET k == call[t].key
      n == call[t].table
      place == IF At(n, "cache") # {} THEN "cache" ELSE "upload"
  IN /\ call[t].pc = "txn" /\ ~call[t].deep /\ call[t].ok
     /\ tables' = IF k \in Derive THEN tables \ At(n, place) ELSE tables
     /\ source' = IF k \in Overwrite THEN [source EXCEPT !.exists = FALSE]
                                     ELSE source
     /\ StampEpoch(t, [call[t] EXCEPT !.pc = "number", !.table = 0])
     /\ UNCHANGED <<lock, sweep, registered, rows, payloads, answer, begun>>

\* An error result is recorded as well, with nothing stored for it.
StoreError(t) ==
  /\ call[t].pc = "txn" /\ ~call[t].ok
  /\ StampEpoch(t, [call[t] EXCEPT
                      !.pc = IF call[t].deep THEN "stamp" ELSE "number"])
  /\ UNCHANGED <<lock, sweep, source, registered, rows, payloads, tables,
                 answer, begun>>

\* store_fp, read after the transaction; None when it cannot be read.
Stamp(t) ==
  /\ call[t].pc = "stamp"
  /\ \/ /\ Measurable
        /\ Goto(t, [call[t] EXCEPT !.pc = "number", !.fp = source.shape])
     \/ /\ ~Measurable \/ MayFail
        /\ Goto(t, [call[t] EXCEPT !.pc = "number"])
  /\ UNCHANGED <<lock, sweep, source, registered, epoch, rows, payloads,
                 tables, answer, begun>>

\* SELECT COALESCE(MAX(opidx), 0), the read of _arecord_method_call and of
\* record_marker.
PickOpidx(t) ==
  /\ \E n \in {1} \union {r.opidx + 1 : r \in rows} :
       /\ IsNext(n)
       /\ \/ /\ call[t].pc = "number"
             /\ Goto(t, [call[t] EXCEPT !.pc = "record", !.opidx = n])
          \/ /\ call[t].pc = "markNumber"
             /\ Goto(t, [call[t] EXCEPT !.pc = "mark", !.opidx = n])
  /\ UNCHANGED <<lock, sweep, source, registered, epoch, rows, payloads,
                 tables, answer, begun>>

\* The INSERT; (data_id, opidx) is the primary key.
InsertRow(t) ==
  LET c == call[t]
  IN /\ c.pc = "record"
     /\ \A r \in rows : r.opidx # c.opidx
     /\ rows' = rows \union {[opidx |-> c.opidx, key |-> c.key, deep |-> c.deep,
                              kind |-> c.kind, fp |-> c.fp, epoch |-> c.epoch,
                              table |-> c.table]}
     /\ Goto(t, [c EXCEPT !.pc = IF c.kind = "actual" THEN "payload" ELSE "deliver"])
     /\ UNCHANGED <<lock, sweep, source, registered, epoch, payloads, tables,
                    answer, begun>>

\* Mutant of StorePayload: the entry says "actual", no payload is written.
StoreNoPayload(t) ==
  /\ call[t].pc = "payload"
  /\ Goto(t, [call[t] EXCEPT !.pc = "deliver"])
  /\ UNCHANGED <<lock, sweep, source, registered, epoch, rows, payloads, tables,
                 answer, begun>>

\* The payload's own INSERT, after the transaction: any exception, that of
\* its primary key included, is logged and the call goes on.
StorePayload(t) ==
  /\ call[t].pc = "payload"
  /\ \/ /\ \A p \in payloads : p.opidx # call[t].opidx
        /\ payloads' = payloads \union {[opidx |-> call[t].opidx, of |-> call[t].of]}
     \/ /\ MayFail \/ \E p \in payloads : p.opidx = call[t].opidx
        /\ UNCHANGED payloads
  /\ Goto(t, [call[t] EXCEPT !.pc = "deliver"])
  /\ UNCHANGED <<lock, sweep, source, registered, epoch, rows, tables, answer,
                 begun>>

\* Mutant of Deliver: the lock is kept.
DeliverHolding(t) ==
  /\ call[t].pc = "deliver"
  /\ answer' = [answer EXCEPT ![t] = IF call[t].ok THEN call[t].of ELSE NoContent]
  /\ Goto(t, Idle)
  /\ UNCHANGED <<lock, sweep, source, registered, epoch, rows, payloads, tables,
                 begun>>

\* The wrapper returns and leaves the lock.
Deliver(t) ==
  /\ call[t].pc = "deliver"
  /\ answer' = [answer EXCEPT ![t] = IF call[t].ok THEN call[t].of ELSE NoContent]
  /\ Goto(t, Idle)
  /\ lock' = NoTask
  /\ UNCHANGED <<sweep, source, registered, epoch, rows, payloads, tables, begun>>

\* An exception nobody catches, a cancellation, the end of the process.
Fail(t) ==
  /\ MayFail
  /\ call[t].pc # "idle"
  /\ Goto(t, Idle)
  /\ lock' = IF lock = t THEN NoTask ELSE lock
  /\ UNCHANGED <<sweep, source, registered, epoch, rows, payloads, tables,
                 answer, begun>>

-----------------------------------------------------------------------------
(* The sweeps, and other writers.  None of them takes the lock.            *)

\* _owned_cache_tables: the tables of the entries without a cache_kind; for
\* a marker row that is the source table.
Owned == {r.table : r \in {q \in rows : q.kind = "table"}}
MarksSource == \E r \in rows : r.kind = "marker"

SweepRead(s) ==
  /\ begun < MaxCalls
  /\ sweep[s].pc = "idle"
  /\ \E op \in {"clear", "delete"} :
       /\ op = "delete" => registered
       /\ sweep' = [sweep EXCEPT ![s] = [pc |-> "drop", op |-> op, owned |-> Owned,
                                         source |-> MarksSource]]
  /\ begun' = begun + 1
  /\ UNCHANGED <<lock, call, source, registered, epoch, rows, payloads, tables,
                 answer>>

\* One transaction: drops and deletes commit together or not at all.
SweepCommit(s) ==
  LET delete == sweep[s].op = "delete"
  IN /\ sweep[s].pc = "drop"
     /\ sweep' = [sweep EXCEPT ![s] = NoSweep]
     /\ \/ /\ tables' = {x \in tables : x.place = "upload"
                                     \/ x.name \notin sweep[s].owned}
           /\ source' = IF delete \/ sweep[s].source
                          THEN [source EXCEPT !.exists = FALSE] ELSE source
           /\ registered' = (registered /\ ~delete)
           /\ payloads' = {}
           /\ rows' = {}
        \/ /\ MayFail
           /\ UNCHANGED <<tables, source, registered, payloads, rows>>
     /\ UNCHANGED <<lock, call, epoch, answer, begun>>

\* Somebody writes the table past the orchestrator.
Edit ==
  /\ MayEdit
  /\ begun < MaxCalls
  /\ source.exists
  /\ \E sh \in Shapes :
       source' = [source EXCEPT !.data = source.data + 1, !.shape = sh]
  /\ begun' = begun + 1
  /\ UNCHANGED <<lock, call, sweep, registered, epoch, rows, payloads, tables,
                 answer>>

-----------------------------------------------------------------------------
Execute(t) ==
  \/ ExecuteStat(t) \/ ExecuteUpdate(t) \/ ExecutePublish(t) \/ Mark(t)
  \/ ExecuteDerive(t) \/ CreateTable(t) \/ ExecuteError(t) \/ ExecuteRaise(t)

Store(t) ==
  \/ StoreDeep(t) \/ StoreMoved(t) \/ StoreShallow(t) \/ StoreError(t)
  \/ Stamp(t) \/ PickOpidx(t) \/ InsertRow(t) \/ StorePayload(t) \/ Deliver(t)

Replay(t) ==
  \/ Lookup(t) \/ CheckFingerprint(t) \/ CheckEpoch(t)
  \/ EvictRow(t) \/ EvictPayload(t) \/ EvictTable(t) \/ Reuse(t)

\* The wrapper's steps under the lock.
Work(t) == Replay(t) \/ Execute(t) \/ Store(t)

\* Every call the bound allows has been made and has returned.
Quiesce ==
  /\ begun = MaxCalls
  /\ \A t \in Tasks : call[t].pc = "idle"
  /\ \A s \in Sweepers : sweep[s].pc = "idle"
  /\ UNCHANGED vars

Next ==
  \/ \E t \in Tasks : Begin(t) \/ Acquire(t) \/ Work(t) \/ Fail(t)
  \/ \E s \in Sweepers : SweepRead(s) \/ SweepCommit(s)
  \/ Edit
  \/ Quiesce

Spec == Init /\ [][Next]_vars

\* The event loop resumes every coroutine whose statement was answered, and
\* asyncio.Lock hands itself over in the order of arrival.
Fairness ==
  /\ \A t \in Tasks : WF_vars(Work(t)) /\ SF_vars(Acquire(t))
  /\ \A s \in Sweepers : WF_vars(SweepCommit(s))

FairSpec == Spec /\ Fairness

-----------------------------------------------------------------------------
(* Properties.                                                             *)

(* The tables hold records of their shapes and every wrapper is at one of  *)
(* its steps.                                                              *)
TypeOK ==
  /\ lock \in Tasks \union {NoTask}
  /\ call \in [Tasks -> Calls]
  /\ sweep \in [Sweepers -> Sweeps]
  /\ source \in Sources
  /\ registered \in BOOLEAN
  /\ epoch \in Nat
  /\ rows \subseteq Rows
  /\ payloads \subseteq [opidx : Nat \ {0}, of : Contents]
  /\ tables \subseteq [name : Nat \ {0}, place : {"upload", "cache"}, of : Contents]
  /\ answer \in [Tasks -> Contents]
  /\ begun \in Nat

(* A wrapper is between the lookup and the return only while it holds the  *)
(* dataset's lock (record_call's async with _op_lock_for).                 *)
LockHeld == \A t \in Tasks : call[t].pc \in Critical => lock = t

(* The number a wrapper is about to insert under is still free: the read   *)
(* of MAX(opidx) and the INSERT are two statements, and a collision on the *)
(* primary key would lose a call whose effects are already there.          *)
OpidxFree ==
  \A t \in Tasks : call[t].pc \in {"record", "mark"} =>
                     \A r \in rows : r.opidx < call[t].opidx

(* No entry is stamped with an epoch the dataset has not reached: such an  *)
(* entry would outlive the writes that should make it stale.               *)
EpochNotAhead == registered => \A r \in rows : r.epoch <= epoch

(* What a wrapper delivers, fresh or replayed, is what its call yields on  *)
(* the contents the dataset has at that moment.                            *)
AnswersCurrent ==
  \A t \in Tasks : call[t].pc = "deliver" /\ call[t].ok =>
                     call[t].of = [key |-> call[t].key, data |-> source.data]

(* What a wrapper delivers was computed for the call it was made for.      *)
AnswersOwnCall ==
  \A t \in Tasks : call[t].pc = "deliver" /\ call[t].ok =>
                     call[t].of.key = call[t].key

(* Between calls, an entry that says its result is in the payload table    *)
(* has its payload there.                                                  *)
StoredTogether ==
  (\A t \in Tasks : call[t].pc = "idle") =>
    \A r \in rows : r.kind = "actual" => \E p \in payloads : p.opidx = r.opidx

(* Between calls, the tables of the cache are exactly those its entries    *)
(* name, each once and in the cache schema, with the contents of the call  *)
(* the entry is for: nothing leaks, nothing is shared.                     *)
TablesKept ==
  (\A t \in Tasks : call[t].pc = "idle") =>
    /\ \A x \in tables : /\ x.place = "cache"
                         /\ \E r \in rows : /\ r.kind = "table"
                                            /\ r.table = x.name
                                            /\ r.key = x.of.key
    /\ \A r \in rows : r.kind = "table" => At(r.table, "cache") # {}
    /\ \A x, y \in tables : x.name = y.name => x = y

(* A dataset that is registered still has its table.                       *)
SourceKept == registered => source.exists

(* A call that was issued returns or raises.                               *)
CallsReturn == \A t \in Tasks : call[t].pc = "acquire" ~> call[t].pc = "idle"

\* The cache as what it promises: see ReplayCache.
Promise == INSTANCE ReplayCache WITH
  data <- source.data,
  asked <- [t \in Tasks |-> call[t].key]

(* Answers are those of a dataset without a cache.                         *)
PromiseKept == Promise!Spec

=============================================================================
