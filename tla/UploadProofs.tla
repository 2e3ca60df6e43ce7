---------------------------- MODULE UploadProofs ----------------------------
(***************************************************************************)
(* Uploads of any number of calls, ids, rows and chunk sizes: types; on    *)
(* DuckDB and PostgreSQL that the dataset of a call that kept its block is *)
(* whole, stays, and is published in one step, whatever the calls do that  *)
(* lost theirs; without transactions, that no table is left to nobody and  *)
(* that a call alone under its id is whole.                                *)
(***************************************************************************)
EXTENDS Upload, TLAPS

-----------------------------------------------------------------------------
(* Types. *)

\* A new table is empty, and an insert keeps it a table.
LEMMA NewTableType ==
  ASSUME NEW u \in Uploads, NEW t \in Types PROVE NewTable(u, t) \in Contents
  BY DEF NewTable, Zero, Contents

LEMMA InsertType ==
  ASSUME NEW tab \in Contents, NEW part PROVE Insert(tab, part) \in Contents
<1>1. [r \in File |-> IF r \in part THEN tab.loaded[r] + 1 ELSE tab.loaded[r]]
        \in [File -> Nat]
  BY DEF Contents
<1> QED
  BY <1>1 DEF Insert, Contents

\* The next chunk ends inside the file.
LEMMA UptoType ==
  ASSUME TypeOK, NEW u \in Uploads
  PROVE Upto(u) \in 0 .. Rows /\ flushed[u] <= Upto(u)
  BY SizesAssumption DEF SizesAssumption, TypeOK, Upto

\* What a call sees is a table or none.
LEMMA SeenType ==
  ASSUME TypeOK, NEW u \in Uploads, pc[u] # "idle"
  PROVE Seen(u) \in Contents \union {NoTable}
  BY DEF TypeOK, Seen

LEMMA EntryType ==
  ASSUME TypeOK, NEW u \in Uploads PROVE Entry(u) \in Entries
  BY DEF TypeOK, Entry, Entries

\* Writing a table keeps the types of both places.
LEMMA PutType ==
  ASSUME TypeOK, NEW u \in Uploads, NEW tab \in Contents, Put(u, tab)
  PROVE /\ tables' \in [Ids -> Contents \union {NoTable}]
        /\ own' \in [Uploads -> Contents \union {NoTable}]
  BY DEF TypeOK, Put

\* The bounds of the counters.
LEMMA Bounds == 0 \in 0 .. Rows /\ Rows \in 0 .. Rows
  BY SizesAssumption DEF SizesAssumption

LEMMA SpendType == TypeOK /\ Spend => faults' \in 0 .. MaxFaults
  BY SizesAssumption DEF SizesAssumption, TypeOK, Spend

\* A call is at one of the places the code has, and can only go to one of them.
Places == {"idle"} \union Running \union Settled

LEMMA GotoType ==
  ASSUME TypeOK, NEW u \in Uploads, NEW to \in Places, Goto(u, to), pc[u] # "idle",
         id' = id
  PROVE /\ pc' \in [Uploads -> Places]
        /\ \A v \in Uploads : pc'[v] # "idle" => id'[v] \in Ids
  BY DEF TypeOK, Goto, Places

LEMMA SlotType ==
  ASSUME TypeOK, NEW u, NEW next \in Uploads \union {NoUpload}, TakeSlot(u, next)
  PROVE slot' \in Uploads \union {NoUpload} /\ lost' \in [Uploads -> BOOLEAN]
  BY DEF TypeOK, TakeSlot

\* What a call holds when its block is over.
LEMMA ResetType ==
  ASSUME TypeOK, NEW u \in Uploads, Reset(u)
  PROVE /\ own' \in [Uploads -> Contents \union {NoTable}]
        /\ row' \in [Uploads -> Entries \union {NoEntry}]
        /\ col' \in [Uploads -> Types]
        /\ flushed' \in [Uploads -> 0 .. Rows]
        /\ counted' \in [Uploads -> [File -> Nat]]
<1>1. Zero \in [File -> Nat]
  BY DEF Zero
<1> QED
  BY <1>1, Bounds DEF TypeOK, Reset, Types, Text

\* However a call goes on after a failure.
LEMMA EndType ==
  ASSUME TypeOK, NEW u \in Uploads, Abort(u) \/ Stop(u), pc[u] # "idle",
         tables' \in [Ids -> Contents \union {NoTable}],
         scratch' \in [Ids -> Contents \union {NoTable}],
         registry' \in [Ids -> Entries \union {NoEntry}],
         faults' \in 0 .. MaxFaults
  PROVE TypeOK'
<1>1. Reset(u) /\ Leave(u) /\ backend' = backend /\ file' = file /\ format' = format
      /\ id' = id
  BY DEF Abort, Stop, call
<1>2. mode' \in [Uploads -> {"none", "typed", "text", "chunked", "whole"}]
  BY DEF TypeOK, Abort, Stop, Recover
<1>3. PICK to \in Places : Goto(u, to)
  BY DEF Abort, Stop, Recover, Places, Running, Settled
<1>4. /\ pc' \in [Uploads -> Places]
      /\ \A v \in Uploads : pc'[v] # "idle" => id'[v] \in Ids
  BY <1>1, <1>3, GotoType
<1>5. slot' \in Uploads \union {NoUpload} /\ lost' \in [Uploads -> BOOLEAN]
  BY <1>1, SlotType DEF Leave, TypeOK
<1> QED
  BY <1>1, <1>2, <1>4, <1>5, ResetType DEF TypeOK, Places

LEMMA LoadType ==
  ASSUME TypeOK, NEW u \in Uploads, NEW upto \in 0 .. Rows, Load(u, upto),
         pc[u] = "load"
  PROVE TypeOK'
<1>1. Seen(u) \in Contents
  BY SeenType DEF Load
<1>2. tables' \in [Ids -> Contents \union {NoTable}]
      /\ own' \in [Uploads -> Contents \union {NoTable}]
  BY <1>1, InsertType, PutType DEF Load
<1>3. PICK to \in Places : Goto(u, to)
  BY DEF Load, AfterLoad, Places, Running, InBlock
<1>4. /\ pc' \in [Uploads -> Places]
      /\ \A v \in Uploads : pc'[v] # "idle" => id'[v] \in Ids
  BY <1>3, GotoType DEF Load, call
<1>5. col' \in [Uploads -> Types] /\ flushed' \in [Uploads -> 0 .. Rows]
  BY DEF Types, Text, TypeOK, Load
<1> QED
  BY <1>2, <1>4, <1>5 DEF TypeOK, Load, Places, call

\* What a COMMIT shows is of the types of what is seen.
LEMMA PublishType ==
  ASSUME TypeOK, NEW u \in Uploads, Publish(u)
  PROVE /\ tables' \in [Ids -> Contents \union {NoTable}]
        /\ registry' \in [Ids -> Entries \union {NoEntry}]
        /\ scratch' \in [Ids -> Contents \union {NoTable}]
  BY DEF TypeOK, Publish

\* A step that leaves the call where it is or moves it on, and writes no table.
LEMMA MoveType ==
  ASSUME TypeOK, NEW u \in Uploads, pc[u] # "idle",
         NEW to \in Places, Goto(u, to),
         UNCHANGED <<backend, file, place, call, mode, own, row>>,
         col' \in [Uploads -> Types], flushed' \in [Uploads -> 0 .. Rows],
         counted' \in [Uploads -> [File -> Nat]],
         slot' \in Uploads \union {NoUpload}, lost' \in [Uploads -> BOOLEAN],
         faults' \in 0 .. MaxFaults
  PROVE TypeOK'
<1>1. /\ pc' \in [Uploads -> Places]
      /\ \A v \in Uploads : pc'[v] # "idle" => id'[v] \in Ids
  BY GotoType DEF call
<1> QED
  BY <1>1 DEF TypeOK, Places, place, call

\* Every action keeps the types.
LEMMA TypeStep == TypeOK /\ [Next]_vars => TypeOK'
<1> SUFFICES ASSUME TypeOK, [Next]_vars PROVE TypeOK'
  OBVIOUS
<1>0. /\ faults \in 0 .. MaxFaults
      /\ {"ready", "failed", "dirty", "done", "cleanup", "castdrop", "castrename"}
           \union InBlock \subseteq Places
  BY DEF TypeOK, Places, Running, Settled, InBlock
<1>1. ASSUME NEW u \in Uploads, Allocate(u) PROVE TypeOK'
  <2>1. /\ mode' \in [Uploads -> {"none", "typed", "text", "chunked", "whole"}]
        /\ format' \in [Uploads -> Formats \union {"none"}]
    <3>1. PICK f \in Formats :
            /\ format' = [format EXCEPT ![u] = f]
            /\ mode' = [mode EXCEPT ![u] = IF f \notin Csv THEN "whole"
                                           ELSE IF Transactional THEN "typed" ELSE "text"]
      BY <1>1 DEF Allocate
    <3> QED
      BY <3>1 DEF TypeOK
  <2>2. /\ id' \in [Uploads -> Ids \union {NoId}]
        /\ \A v \in Uploads : pc'[v] # "idle" => id'[v] \in Ids
    BY <1>1 DEF Allocate, Goto, TypeOK
  <2>3. pc' \in [Uploads -> Places]
    BY <1>0, <1>1 DEF Allocate, Goto, TypeOK, Places
  <2> QED
    BY <1>1, <2>1, <2>2, <2>3 DEF Allocate, TypeOK, Places, place, block
<1>2. ASSUME NEW u \in Uploads, Begin(u) PROVE TypeOK'
  <2>1. slot' \in Uploads \union {NoUpload} /\ lost' \in [Uploads -> BOOLEAN]
    BY <1>2, SlotType DEF Begin
  <2> QED
    BY <1>0, <1>2, <2>1, MoveType DEF Begin, TypeOK, InBlock, local
<1>3. ASSUME NEW u \in Uploads, Create(u) PROVE TypeOK'
  <2>1. PICK t \in Types : Put(u, NewTable(u, t)) /\ col' = [col EXCEPT ![u] = t]
    BY <1>3 DEF Create, Inferred, Native, Types, Text
  <2>2. tables' \in [Ids -> Contents \union {NoTable}]
        /\ own' \in [Uploads -> Contents \union {NoTable}]
    BY <2>1, NewTableType, PutType
  <2>3. /\ pc' \in [Uploads -> Places]
        /\ \A v \in Uploads : pc'[v] # "idle" => id'[v] \in Ids
    BY <1>0, <1>3, GotoType DEF Create, InBlock, call
  <2> QED
    BY <1>3, <2>1, <2>2, <2>3 DEF Create, TypeOK, Places, call
<1>4. ASSUME NEW u \in Uploads,
             \/ Taken(u) \/ RefuseDtype(u) \/ StoreRefuses(u) \/ RowTaken(u)
             \/ TableGone(u)
      PROVE TypeOK'
  <2>1. (Abort(u) \/ Stop(u)) /\ pc[u] # "idle" /\ UNCHANGED <<place, faults>>
    BY <1>4 DEF Taken, RefuseDtype, StoreRefuses, RowTaken, TableGone
  <2> QED
    BY <1>0, <2>1, EndType DEF place, TypeOK
<1>5. ASSUME NEW u \in Uploads, FlushChunk(u) \/ LoadWhole(u) PROVE TypeOK'
  <2>1. PICK upto \in 0 .. Rows : Load(u, upto)
    BY <1>5, UptoType, Bounds DEF FlushChunk, LoadWhole
  <2> QED
    BY <1>5, <2>1, LoadType DEF FlushChunk, LoadWhole
<1>6. ASSUME NEW u \in Uploads, WidenColumn(u) PROVE TypeOK'
  <2>1. col' \in [Uploads -> Types]
    BY <1>6 DEF WidenColumn, Upgrade, Types, Narrow, Wide, Text, TypeOK
  <2> QED
    BY <1>6, <2>1 DEF WidenColumn, TypeOK, place, call, block
<1>7. ASSUME NEW u \in Uploads, BulkFails(u) PROVE TypeOK'
  BY <1>7, Bounds, SpendType DEF BulkFails, TypeOK, place, call, block
<1>8. ASSUME NEW u \in Uploads, CastInBlock(u) \/ SkipCast(u) PROVE TypeOK'
  <2>1. /\ Goto(u, "count") /\ pc[u] # "idle"
        /\ UNCHANGED <<backend, file, place, call, local, block, faults>>
    BY <1>8 DEF CastInBlock, SkipCast
  <2> QED
    BY <1>0, <2>1, MoveType DEF local, block, TypeOK, InBlock
<1>9. ASSUME NEW u \in Uploads, CastApart(u) PROVE TypeOK'
  <2>1. slot' \in Uploads \union {NoUpload} /\ lost' \in [Uploads -> BOOLEAN]
    BY <1>9, SlotType DEF CastApart
  <2> QED
    BY <1>0, <1>9, <2>1, MoveType DEF CastApart, local, TypeOK, InBlock
<1>10. ASSUME NEW u \in Uploads, CastCopy(u) PROVE TypeOK'
  <2>1. slot' \in Uploads \union {NoUpload} /\ lost' \in [Uploads -> BOOLEAN]
    BY <1>10, SlotType DEF CastCopy
  <2>2. scratch' \in [Ids -> Contents \union {NoTable}]
    BY <1>10, SeenType DEF CastCopy, TypeOK
  <2>3. /\ pc' \in [Uploads -> Places]
        /\ \A v \in Uploads : pc'[v] # "idle" => id'[v] \in Ids
    BY <1>0, <1>10, GotoType DEF CastCopy, call
  <2> QED
    BY <1>10, <2>1, <2>2, <2>3 DEF CastCopy, TypeOK, Places, call, local
<1>11. ASSUME NEW u \in Uploads, CastDrop(u) \/ Cleanup(u) PROVE TypeOK'
  <2>1. PICK to \in {"castrename", "failed"} : Goto(u, to) /\ pc[u] # "idle"
    BY <1>11 DEF CastDrop, Cleanup
  <2>2. /\ pc' \in [Uploads -> Places]
        /\ \A v \in Uploads : pc'[v] # "idle" => id'[v] \in Ids
    BY <1>0, <1>11, <2>1, GotoType DEF CastDrop, Cleanup, call
  <2>3. tables' \in [Ids -> Contents \union {NoTable}]
    BY <1>11 DEF CastDrop, Cleanup, TypeOK
  <2> QED
    BY <1>11, <2>2, <2>3 DEF CastDrop, Cleanup, TypeOK, Places, call, local, block
<1>12. ASSUME NEW u \in Uploads, CastRename(u) PROVE TypeOK'
  <2>1. slot' \in Uploads \union {NoUpload} /\ lost' \in [Uploads -> BOOLEAN]
    BY <1>12, SlotType DEF CastRename
  <2>2. /\ tables' \in [Ids -> Contents \union {NoTable}]
        /\ scratch' \in [Ids -> Contents \union {NoTable}]
    BY <1>12 DEF CastRename, TypeOK
  <2>3. /\ pc' \in [Uploads -> Places]
        /\ \A v \in Uploads : pc'[v] # "idle" => id'[v] \in Ids
    BY <1>0, <1>12, GotoType DEF CastRename, call, InBlock
  <2> QED
    BY <1>12, <2>1, <2>2, <2>3 DEF CastRename, TypeOK, Places, call, local
<1>13. ASSUME NEW u \in Uploads, CastAborts(u) \/ CastFails(u) PROVE TypeOK'
  <2>1. /\ Abort(u) /\ UNCHANGED <<tables, registry>>
        /\ faults' \in 0 .. MaxFaults /\ pc[u] # "idle"
    BY <1>0, <1>13, SpendType DEF CastAborts, CastFails, CastBreaks
  <2>2. scratch' \in [Ids -> Contents \union {NoTable}]
    <3>1. NewTable(u, Text) \in Contents
      BY NewTableType DEF Types
    <3> QED
      BY <1>13, <3>1 DEF CastAborts, CastFails, TypeOK
  <2> QED
    BY <2>1, <2>2, EndType DEF TypeOK
<1>14. ASSUME NEW u \in Uploads, Count(u) PROVE TypeOK'
  <2>1. counted' \in [Uploads -> [File -> Nat]]
    <3>1. Seen(u) \in Contents
      BY <1>14, SeenType DEF Count
    <3> QED
      BY <1>14, <3>1 DEF Count, Contents, TypeOK
  <2> QED
    BY <1>0, <1>14, <2>1, MoveType DEF Count, TypeOK, InBlock, block
<1>15. ASSUME NEW u \in Uploads, Register(u) PROVE TypeOK'
  <2>1. slot' \in Uploads \union {NoUpload} /\ lost' \in [Uploads -> BOOLEAN]
    BY <1>15, SlotType DEF Register
  <2>2. /\ registry' \in [Ids -> Entries \union {NoEntry}]
        /\ row' \in [Uploads -> Entries \union {NoEntry}]
    BY <1>15, EntryType DEF Register, PutRow, TypeOK
  <2>3. PICK to \in {"commit", "done"} : Goto(u, to)
    BY <1>15 DEF Register
  <2>4. /\ pc' \in [Uploads -> Places]
        /\ \A v \in Uploads : pc'[v] # "idle" => id'[v] \in Ids
    BY <1>0, <1>15, <2>3, GotoType DEF Register, call, InBlock
  <2> QED
    BY <1>15, <2>1, <2>2, <2>4 DEF Register, TypeOK, Places, call, local
<1>16. ASSUME NEW u \in Uploads, Commit(u) PROVE TypeOK'
  <2>1. /\ pc' \in [Uploads -> Places]
        /\ \A v \in Uploads : pc'[v] # "idle" => id'[v] \in Ids
    BY <1>0, <1>16, GotoType DEF Commit, call
  <2> QED
    BY <1>16, <2>1, PublishType, ResetType DEF Commit, TypeOK, Places, call
<1>17. ASSUME NEW u \in Uploads, CommitUnheard(u) PROVE TypeOK'
  <2>1. PICK to \in Places : Goto(u, to)
    BY <1>0, <1>17 DEF CommitUnheard, Recover
  <2>2. /\ pc' \in [Uploads -> Places]
        /\ \A v \in Uploads : pc'[v] # "idle" => id'[v] \in Ids
    BY <1>17, <2>1, GotoType DEF CommitUnheard, call
  <2>3. mode' \in [Uploads -> {"none", "typed", "text", "chunked", "whole"}]
        /\ lost' \in [Uploads -> BOOLEAN]
    BY <1>17 DEF CommitUnheard, Recover, TypeOK
  <2> QED
    BY <1>17, <2>2, <2>3, PublishType, ResetType, SpendType
       DEF CommitUnheard, TypeOK, Places, call
<1>18. ASSUME NEW u \in Uploads, Fault(u) PROVE TypeOK'
  <2>1. (Abort(u) \/ Stop(u)) /\ pc[u] # "idle" /\ faults' \in 0 .. MaxFaults
    BY <1>18, SpendType DEF Fault, InBlock
  <2>2. /\ tables' \in [Ids -> Contents \union {NoTable}]
        /\ registry' \in [Ids -> Entries \union {NoEntry}]
        /\ scratch' \in [Ids -> Contents \union {NoTable}]
    <3>1. ASSUME NEW t \in Types, tables' = [tables EXCEPT ![id[u]] = NewTable(u, t)]
          PROVE tables' \in [Ids -> Contents \union {NoTable}]
      BY <3>1, NewTableType DEF TypeOK
    <3>2. ASSUME registry' = [registry EXCEPT ![id[u]] = Entry(u)]
          PROVE registry' \in [Ids -> Entries \union {NoEntry}]
      BY <3>2, EntryType DEF TypeOK
    <3>3. UNCHANGED place \/ UNCHANGED <<scratch, registry>> \/ UNCHANGED <<tables, scratch>>
      BY <1>18 DEF Fault
    <3> QED
      BY <1>18, <3>1, <3>2 DEF Fault, TypeOK, place
  <2> QED
    BY <2>1, <2>2, EndType
<1>19. ASSUME NEW u \in Uploads, CleanupFails(u) PROVE TypeOK'
  <2>1. faults' \in 0 .. MaxFaults
    BY <1>19, SpendType DEF CleanupFails
  <2> QED
    BY <1>0, <1>19, <2>1, MoveType DEF CleanupFails, TypeOK, local, block
<1>20. CASE Intrude
  <2>1. slot' \in Uploads \union {NoUpload} /\ lost' \in [Uploads -> BOOLEAN]
    BY <1>20, SlotType DEF Intrude
  <2>2. faults' \in 0 .. MaxFaults
    BY <1>20, SpendType DEF Intrude
  <2> QED
    BY <1>20, <2>1, <2>2 DEF Intrude, TypeOK, place, call, local
<1>21. CASE Crash
  <2>1. faults' \in 0 .. MaxFaults
    BY <1>21, SpendType DEF Crash
  <2>2. /\ pc' \in [Uploads -> Places]
        /\ \A v \in Uploads : pc'[v] # "idle" => pc[v] # "idle"
    BY <1>21 DEF Crash, TypeOK, Places, Settled, Running, InBlock
  <2>3. Zero \in [File -> Nat]
    BY DEF Zero
  <2>4. \A v \in Uploads : pc'[v] # "idle" => id'[v] \in Ids
    BY <1>21, <2>2 DEF Crash, TypeOK, call
  <2>5. /\ own' \in [Uploads -> Contents \union {NoTable}]
        /\ row' \in [Uploads -> Entries \union {NoEntry}]
        /\ slot' \in Uploads \union {NoUpload}
        /\ col' \in [Uploads -> Types]
        /\ flushed' \in [Uploads -> 0 .. Rows]
        /\ counted' \in [Uploads -> [File -> Nat]]
    BY <1>21, <2>3, Bounds DEF Crash, Types, Text
  <2> QED
    BY <1>21, <2>1, <2>2, <2>4, <2>5 DEF Crash, TypeOK, Places, place, call
<1>22. CASE UNCHANGED vars
  BY <1>22 DEF vars, TypeOK, place, call, local, block
<1> QED
  BY <1>1, <1>2, <1>3, <1>4, <1>5, <1>6, <1>7, <1>8, <1>9, <1>10, <1>11, <1>12, <1>13,
     <1>14, <1>15, <1>16, <1>17, <1>18, <1>19, <1>20, <1>21, <1>22
     DEF Next, Step, Mishap

LEMMA StartTypes == Init => TypeOK
<1> SUFFICES ASSUME Init PROVE TypeOK
  OBVIOUS
<1>1. Zero \in [File -> Nat]
  BY DEF Zero
<1>2. backend \in Backends /\ file \in [File -> Values]
  BY CasesAssumption DEF Init
<1> QED
  BY <1>1, <1>2, Bounds, SizesAssumption
     DEF SizesAssumption, Init, TypeOK, Types, Text

\* Every variable stays within its type.
THEOREM UploadTypes == Spec => []TypeOK
  BY StartTypes, TypeStep, PTL DEF Spec

-----------------------------------------------------------------------------
(***************************************************************************)
(* On DuckDB and PostgreSQL.  The table in an open transaction holds just  *)
(* the rows flushed so far, under a name nobody else sees or builds, and   *)
(* so has the call its table and its row when it commits, if it kept the   *)
(* slot until then.  A call that lost the slot writes what all see, but    *)
(* only the table it made itself: no other call removes it before.         *)
(***************************************************************************)
Prefix(n) == [r \in File |-> IF r <= n THEN 1 ELSE 0]
Building == {"load", "cast", "count", "register", "commit"}
Casting == {"castdrop", "castrename"}

AttemptInv(u) ==
  /\ pc[u] \notin {"cleanup", "dirty"}
  /\ pc[u] \in {"idle", "ready", "create"} => flushed[u] = 0
  /\ pc[u] = "load" /\ mode[u] = "text" => flushed[u] = 0
  /\ own[u] # NoTable =>
       /\ pc[u] \in Building
       /\ own[u].by = u
       /\ own[u].loaded = Prefix(flushed[u])
       /\ pc[u] # "load" => flushed[u] = Rows
       /\ pc[u] \in {"register", "commit"} => counted[u] = Once
  /\ row[u] # NoEntry =>
       /\ pc[u] = "commit" /\ own[u] # NoTable
       /\ row[u].by = u /\ row[u].counted = Once

SlotInv(u) ==
  /\ Inside(u) =>
       /\ pc[u] \notin Casting
       /\ pc[u] \in Building \ {"commit"} => own[u] # NoTable
  /\ slot = u => pc[u] \in ({"create"} \union Building) \ {"commit"}
  /\ Kept(u) =>
       /\ pc[u] \in InBlock \ {"commit"} => Inside(u)
       /\ pc[u] = "commit" => own[u] # NoTable /\ row[u] # NoEntry

PlaceInv(u) ==
  /\ own[u] # NoTable => tables[id[u]] = NoTable
  /\ row[u] # NoEntry => registry[id[u]] = NoEntry
  /\ pc[u] \in Building \union {"castdrop"} /\ own[u] = NoTable =>
       tables[id[u]] # NoTable /\ tables[id[u]].by = u
  /\ pc[u] \in Casting => scratch[id[u]] # NoTable /\ scratch[id[u]].by = u

CallInv(u) == AttemptInv(u) /\ SlotInv(u) /\ PlaceInv(u)

AloneInv ==
  \A u, v \in Uploads :
    own[u] # NoTable /\ own[v] # NoTable /\ u # v => id[u] # id[v]

TableInv(i) ==
  tables[i] # NoTable =>
    /\ pc[tables[i].by] # "idle" /\ id[tables[i].by] = i
    /\ Kept(tables[i].by) => registry[i] # NoEntry /\ registry[i].by = tables[i].by

RowInv(i) ==
  registry[i] # NoEntry /\ Kept(registry[i].by) =>
    /\ tables[i] # NoTable
    /\ tables[i].by = registry[i].by
    /\ tables[i].loaded = Once
    /\ registry[i].counted = Once
    /\ pc[registry[i].by] = "done"

BlockInv ==
  /\ \A u \in Uploads : CallInv(u)
  /\ AloneInv
  /\ \A i \in Ids : TableInv(i) /\ RowInv(i)

-----------------------------------------------------------------------------
(***************************************************************************)
(* What a step of one call does to the others: it is its own table that it *)
(* changes, and its own row that it adds.                                  *)
(***************************************************************************)

\* Nobody else holds a table of this name in a transaction.
Free(u) == \A v \in Uploads \ {u} : own[v] # NoTable => id[v] # id'[u]

Apart(u) ==
  /\ backend' = backend
  /\ pc[u] \notin {"done", "failed"}
  /\ pc'[u] # "idle" /\ (pc[u] # "idle" => id'[u] = id[u])
  /\ \A v \in Uploads \ {u} :
       /\ pc'[v] = pc[v] /\ id'[v] = id[v] /\ mode'[v] = mode[v]
       /\ flushed'[v] = flushed[v] /\ counted'[v] = counted[v]
       /\ own'[v] = own[v] /\ row'[v] = row[v]
       /\ lost'[v] => lost[v] \/ slot = v
       /\ slot = v => lost'[v] \/ slot' = v
  /\ \A v \in Uploads : lost[v] => lost'[v]
  /\ slot' \in {slot, u, NoUpload}

Alters(u) ==
  LET i == id'[u]
  IN  /\ i \in Ids
      /\ \A j \in Ids \ {i} : /\ tables'[j] = tables[j] /\ registry'[j] = registry[j]
                              /\ scratch'[j] = scratch[j]
      /\ own'[u] # NoTable => own[u] # NoTable \/ Free(u)
      /\ tables'[i] # tables[i] =>
           /\ tables[i] # NoTable => tables[i].by = u
           /\ tables'[i] # NoTable =>
                /\ tables'[i].by = u
                /\ tables[i] = NoTable => Free(u)
                /\ Kept(u)' => registry'[i] # NoEntry /\ registry'[i].by = u
      /\ registry'[i] # registry[i] =>
           /\ registry[i] = NoEntry /\ Free(u)
           /\ registry'[i] # NoEntry /\ registry'[i].by = u
           /\ Kept(u)' =>
                /\ tables[i] = NoTable /\ tables'[i] # NoTable /\ tables'[i].by = u
                /\ tables'[i].loaded = Once
                /\ registry'[i].counted = Once
                /\ pc'[u] = "done"
      /\ scratch'[i] # scratch[i] /\ scratch[i] # NoTable => scratch[i].by = u
      /\ pc'[u] = "done" /\ Kept(u)' => registry'[i] # registry[i]

LEMMA OthersKeep ==
  ASSUME TypeOK, BlockInv, NEW u \in Uploads, Apart(u), Alters(u),
         NEW v \in Uploads \ {u}
  PROVE CallInv(v)'
<1>1. CallInv(v)
  BY DEF BlockInv
<1>2. /\ backend' = backend
      /\ pc'[v] = pc[v] /\ id'[v] = id[v] /\ mode'[v] = mode[v]
      /\ flushed'[v] = flushed[v] /\ counted'[v] = counted[v]
      /\ own'[v] = own[v] /\ row'[v] = row[v]
      /\ lost[v] => lost'[v]
      /\ slot = v => lost'[v] \/ slot' = v
      /\ slot' = v => slot = v
  BY NullsAssumption DEF NullsAssumption, Apart
<1>3. AttemptInv(v)'
  BY <1>1, <1>2 DEF CallInv, AttemptInv
<1>4. SlotInv(v)'
  <2>1. Inside(v)' => Inside(v)
    BY <1>2 DEF Inside
  <2>2. Kept(v)' => Kept(v) /\ (Inside(v) => Inside(v)')
    BY <1>2 DEF Kept, Inside
  <2> QED
    BY <1>1, <1>2, <2>1, <2>2 DEF CallInv, SlotInv
<1>5. PlaceInv(v)'
  <2>1. pc[v] # "idle" => id[v] \in Ids
    BY DEF TypeOK
  <2>2. own[v] # NoTable => pc[v] # "idle" /\ (id[v] = id'[u] => ~Free(u))
    BY <1>1 DEF CallInv, AttemptInv, Building, Free
  <2>3. own[v] # NoTable => tables'[id[v]] = NoTable
    BY <1>1, <2>1, <2>2 DEF CallInv, PlaceInv, Alters
  <2>4. row[v] # NoEntry => registry'[id[v]] = NoEntry
    BY <1>1, <2>1, <2>2 DEF CallInv, AttemptInv, PlaceInv, Alters
  <2>5. pc[v] \in Building \union {"castdrop"} /\ own[v] = NoTable =>
          tables'[id[v]] # NoTable /\ tables'[id[v]].by = v
    <3>1. ASSUME pc[v] \in Building \union {"castdrop"}, own[v] = NoTable
          PROVE tables'[id[v]] = tables[id[v]]
      <4>1. tables[id[v]] # NoTable /\ tables[id[v]].by = v /\ id[v] \in Ids
        BY <1>1, <2>1, <3>1 DEF CallInv, PlaceInv, Building
      <4> QED
        BY <4>1 DEF Alters
    <3> QED
      BY <1>1, <3>1 DEF CallInv, PlaceInv
  <2>6. pc[v] \in Casting => scratch'[id[v]] # NoTable /\ scratch'[id[v]].by = v
    <3>1. ASSUME pc[v] \in Casting PROVE scratch'[id[v]] = scratch[id[v]]
      <4>1. scratch[id[v]] # NoTable /\ scratch[id[v]].by = v /\ id[v] \in Ids
        BY <1>1, <2>1, <3>1 DEF CallInv, PlaceInv, Casting
      <4> QED
        BY <4>1 DEF Alters
    <3> QED
      BY <1>1, <3>1 DEF CallInv, PlaceInv
  <2> QED
    BY <1>2, <2>3, <2>4, <2>5, <2>6 DEF PlaceInv
<1> QED
  BY <1>3, <1>4, <1>5 DEF CallInv

\* A call that has kept its block has kept it before.
LEMMA KeptBefore ==
  ASSUME NEW u \in Uploads, Apart(u), NEW v \in Uploads, Kept(v)' PROVE Kept(v)
  BY DEF Apart, Kept

LEMMA TablesKeep ==
  ASSUME TypeOK, TypeOK', BlockInv, NEW u \in Uploads, Apart(u), Alters(u), NEW i \in Ids
  PROVE TableInv(i)'
<1> SUFFICES ASSUME tables'[i] # NoTable
             PROVE /\ pc'[tables'[i].by] # "idle" /\ id'[tables'[i].by] = i
                   /\ Kept(tables[i].by)' =>
                        registry'[i] # NoEntry /\ registry'[i].by = tables'[i].by
  BY DEF TableInv, Kept
<1>1. PICK w : w = tables'[i].by
  OBVIOUS
<1>2. w \in Uploads
  BY <1>1 DEF TypeOK, Contents
<1>3. CASE tables'[i] = tables[i]
  <2>1. /\ pc[w] # "idle" /\ id[w] = i
        /\ Kept(w) => registry[i] # NoEntry /\ registry[i].by = w
    BY <1>1, <1>3 DEF BlockInv, TableInv
  <2>2. pc'[w] # "idle" /\ id'[w] = i
    BY <1>2, <2>1 DEF Apart
  <2>3. registry[i] # NoEntry => registry'[i] = registry[i]
    BY DEF Alters
  <2> QED
    BY <1>1, <1>2, <2>1, <2>2, <2>3, KeptBefore
<1>4. CASE tables'[i] # tables[i]
  <2>1. i = id'[u] /\ w = u /\ (Kept(u)' => registry'[i] # NoEntry /\ registry'[i].by = u)
    BY <1>1, <1>4 DEF Alters
  <2> QED
    BY <1>1, <2>1 DEF Apart
<1> QED
  BY <1>3, <1>4

LEMMA RowsKeep ==
  ASSUME TypeOK, TypeOK', BlockInv, NEW u \in Uploads, Apart(u), Alters(u), NEW i \in Ids
  PROVE RowInv(i)'
<1> SUFFICES ASSUME registry'[i] # NoEntry, Kept(registry[i].by)'
             PROVE /\ tables'[i] # NoTable
                   /\ tables'[i].by = registry'[i].by
                   /\ tables'[i].loaded = Once
                   /\ registry'[i].counted = Once
                   /\ pc'[registry'[i].by] = "done"
  BY DEF RowInv, Kept, Once
<1>1. PICK w : w = registry'[i].by
  OBVIOUS
<1>2. w \in Uploads
  BY <1>1 DEF TypeOK, Entries
<1>3. CASE registry'[i] = registry[i]
  <2>1. Kept(w)
    BY <1>1, <1>2, KeptBefore
  <2>2. /\ tables[i] # NoTable /\ tables[i].by = w /\ tables[i].loaded = Once
        /\ registry[i].counted = Once /\ pc[w] = "done"
    BY <1>1, <1>3, <2>1 DEF BlockInv, RowInv
  <2>3. w # u /\ pc'[w] = pc[w]
    BY <1>2, <2>2 DEF Apart
  <2>4. tables'[i] = tables[i]
    BY <2>2, <2>3 DEF Alters
  <2> QED
    BY <1>1, <1>3, <2>2, <2>3, <2>4
<1>4. CASE registry'[i] # registry[i]
  <2>1. i = id'[u] /\ w = u
    BY <1>1, <1>4 DEF Alters
  <2> QED
    BY <1>1, <1>4, <2>1 DEF Alters
<1> QED
  BY <1>3, <1>4

\* A step of one call keeps the invariant when it keeps the call's own part of it.
LEMMA DeedKeeps ==
  ASSUME TypeOK, TypeOK', BlockInv, NEW u \in Uploads, Apart(u), Alters(u), CallInv(u)'
  PROVE BlockInv'
<1>1. AloneInv'
  <2> SUFFICES ASSUME NEW v \in Uploads, NEW w \in Uploads, v # w,
                      own'[v] # NoTable, own'[w] # NoTable, id'[v] = id'[w]
               PROVE FALSE
    BY DEF AloneInv
  <2>1. \A x \in Uploads \ {u} : own'[x] = own[x] /\ id'[x] = id[x]
    BY DEF Apart
  <2>2. own'[u] # NoTable => Free(u) \/ (own[u] # NoTable /\ id'[u] = id[u])
    BY DEF Alters, Apart, BlockInv, CallInv, AttemptInv, Building
  <2> QED
    BY <2>1, <2>2 DEF Free, BlockInv, AloneInv
<1> QED
  BY <1>1, OthersKeep, TablesKeep, RowsKeep DEF BlockInv

\* Only the entries of one call change, and the slot goes to it or to nobody.
LEMMA SlotApart ==
  ASSUME TypeOK, NEW u \in Uploads, NEW next \in {u, NoUpload},
         TakeSlot(u, next) \/ UNCHANGED <<slot, lost>>
  PROVE /\ \A v \in Uploads \ {u} : /\ lost'[v] => lost[v] \/ slot = v
                                    /\ slot = v => lost'[v] \/ slot' = v
        /\ \A v \in Uploads : lost[v] => lost'[v]
        /\ slot' \in {slot, u, NoUpload}
<1>1. CASE TakeSlot(u, next)
  <2>1. \A v \in Uploads : lost'[v] = (lost[v] \/ (v = slot /\ v # u))
    BY <1>1 DEF TakeSlot
  <2>2. slot' = next
    BY <1>1 DEF TakeSlot
  <2> QED
    BY <2>1, <2>2
<1>2. CASE UNCHANGED <<slot, lost>>
  BY <1>2
<1> QED
  BY <1>1, <1>2

LEMMA LocalsApart ==
  ASSUME TypeOK, NEW u \in Uploads, backend' = backend,
         pc[u] \notin {"done", "failed"},
         NEW to, to # "idle", pc' = [pc EXCEPT ![u] = to],
         pc[u] # "idle" => id' = id,
         \A v \in Uploads \ {u} :
           /\ id'[v] = id[v] /\ mode'[v] = mode[v] /\ flushed'[v] = flushed[v]
           /\ counted'[v] = counted[v] /\ own'[v] = own[v] /\ row'[v] = row[v],
         NEW next \in {u, NoUpload}, TakeSlot(u, next) \/ UNCHANGED <<slot, lost>>
  PROVE Apart(u)
<1>1. /\ \A v \in Uploads \ {u} : /\ lost'[v] => lost[v] \/ slot = v
                                  /\ slot = v => lost'[v] \/ slot' = v
      /\ \A v \in Uploads : lost[v] => lost'[v]
      /\ slot' \in {slot, u, NoUpload}
  BY SlotApart
<1>2. pc'[u] # "idle" /\ \A v \in Uploads \ {u} : pc'[v] = pc[v]
  BY DEF TypeOK
<1> QED
  BY <1>1, <1>2 DEF Apart

\* A step that shows nothing to others.
LEMMA QuietAlters ==
  ASSUME NEW u \in Uploads, UNCHANGED place, id'[u] \in Ids,
         own'[u] # NoTable => own[u] # NoTable \/ Free(u), pc'[u] # "done"
  PROVE Alters(u)
  BY DEF Alters, place

\* A statement outside of the call's own transaction is one of a call that has
\* lost the slot.
LEMMA OutsideLost ==
  ASSUME NEW u \in Uploads, SlotInv(u), pc[u] \in InBlock \ {"commit"}, ~Inside(u),
         Apart(u)
  PROVE ~Kept(u) /\ ~Kept(u)'
  BY KeptBefore DEF SlotInv

\* The call that made the table others see, and no other, can add a row for it.
LEMMA HandsFree ==
  ASSUME TypeOK, BlockInv, NEW u \in Uploads, pc[u] \in Building \union {"castdrop"},
         id' = id
  PROVE Free(u)
<1> SUFFICES ASSUME NEW v \in Uploads \ {u}, own[v] # NoTable, id[v] = id[u]
             PROVE FALSE
  BY DEF Free
<1>1. tables[id[u]] = NoTable
  BY DEF BlockInv, CallInv, PlaceInv
<1>2. own[u] # NoTable
  BY <1>1 DEF BlockInv, CallInv, PlaceInv
<1> QED
  BY <1>2 DEF BlockInv, AloneInv

\* An attempt that ends leaves the call without anything in a block.
LEMMA EndKeeps ==
  ASSUME TypeOK, Transactional, BlockInv, NEW u \in Uploads, Abort(u) \/ Stop(u),
         pc[u] \in InBlock
  PROVE /\ Apart(u) /\ CallInv(u)' /\ own'[u] = NoTable /\ id' = id
        /\ pc'[u] \in {"ready", "failed"}
<1>1. /\ Reset(u) /\ Leave(u) /\ backend' = backend /\ id' = id
      /\ \A v \in Uploads \ {u} : mode'[v] = mode[v]
  BY DEF Abort, Stop, Recover, call, TypeOK
<1>2. PICK to \in {"ready", "failed"} : pc' = [pc EXCEPT ![u] = to]
  BY DEF Abort, Stop, Recover, Goto
<1>3. TakeSlot(u, NoUpload) \/ UNCHANGED <<slot, lost>>
  BY <1>1 DEF Leave
<1>4. Apart(u)
  <2>1. \A v \in Uploads \ {u} :
           /\ id'[v] = id[v] /\ mode'[v] = mode[v] /\ flushed'[v] = flushed[v]
           /\ counted'[v] = counted[v] /\ own'[v] = own[v] /\ row'[v] = row[v]
    BY <1>1 DEF Reset, TypeOK
  <2>2. pc[u] \notin {"idle", "done", "failed"}
    BY DEF InBlock
  <2> QED
    BY <1>1, <1>2, <1>3, <2>1, <2>2, LocalsApart
<1>5. /\ pc'[u] = to /\ own'[u] = NoTable /\ row'[u] = NoEntry /\ flushed'[u] = 0
  BY <1>1, <1>2 DEF Reset, TypeOK
<1>6. slot' # u
  BY <1>1, NullsAssumption DEF NullsAssumption, Leave, TakeSlot, BlockInv, CallInv, SlotInv
<1>7. AttemptInv(u)'
  BY <1>2, <1>5 DEF AttemptInv
<1>8. SlotInv(u)'
  BY <1>2, <1>5, <1>6 DEF SlotInv, Casting, Building, InBlock
<1>9. PlaceInv(u)'
  BY <1>2, <1>5 DEF PlaceInv, Casting, Building
<1> QED
  BY <1>1, <1>2, <1>4, <1>5, <1>7, <1>8, <1>9 DEF CallInv

\* What a step of a call keeps.
Keeps(u) == Apart(u) /\ Alters(u) /\ CallInv(u)'

LEMMA FailuresKeep ==
  ASSUME TypeOK, Transactional, BlockInv, NEW u \in Uploads,
         \/ Taken(u) \/ RefuseDtype(u) \/ StoreRefuses(u) \/ RowTaken(u)
         \/ TableGone(u) \/ CastAborts(u) \/ Fault(u)
  PROVE Keeps(u)
<1>1. (Abort(u) \/ Stop(u)) /\ pc[u] \in InBlock
  BY DEF Taken, RefuseDtype, StoreRefuses, RowTaken, TableGone, CastAborts, CastBreaks,
         Fault, InBlock
<1>2. /\ Apart(u) /\ CallInv(u)' /\ own'[u] = NoTable /\ id' = id
      /\ pc'[u] \in {"ready", "failed"} /\ id[u] \in Ids
  BY <1>1, EndKeeps DEF InBlock, TypeOK
<1>3. CASE UNCHANGED place
  BY <1>2, <1>3, QuietAlters DEF Keeps
<1>4. ASSUME CastAborts(u), scratch[id[u]] = NoTable, UNCHANGED <<tables, registry>>,
             scratch' = [scratch EXCEPT ![id[u]] = NewTable(u, Text)]
      PROVE Alters(u)
  BY <1>2, <1>4 DEF Alters, TypeOK
<1>5. ASSUME pc[u] = "create", ~Inside(u), NameFree(u), tables[id[u]] = NoTable,
             NEW t \in Types, tables' = [tables EXCEPT ![id[u]] = NewTable(u, t)],
             UNCHANGED <<scratch, registry>>
      PROVE Alters(u)
  <2>1. ~Kept(u)'
    BY <1>2, <1>5, OutsideLost DEF BlockInv, CallInv, InBlock
  <2>2. Free(u)
    BY <1>2, <1>5 DEF Free, NameFree, Open, Building, InBlock, BlockInv, CallInv, AttemptInv
  <2>3. tables'[id[u]].by = u
    BY <1>2, <1>5 DEF TypeOK, NewTable
  <2> QED
    BY <1>2, <1>5, <2>1, <2>2, <2>3 DEF Alters, TypeOK
<1>6. ASSUME pc[u] = "register", ~Inside(u), RowFree(u), UNCHANGED <<tables, scratch>>,
             registry' = [registry EXCEPT ![id[u]] = Entry(u)]
      PROVE Alters(u)
  <2>1. ~Kept(u)'
    BY <1>2, <1>6, OutsideLost DEF BlockInv, CallInv, InBlock
  <2>2. Free(u)
    BY <1>2, <1>6, HandsFree DEF Building
  <2>3. registry'[id[u]] = Entry(u) /\ Entry(u).by = u /\ Entry(u) # NoEntry
    BY <1>2, <1>6, EntryType, NullsAssumption DEF NullsAssumption, TypeOK, Entry
  <2> QED
    BY <1>2, <1>6, <2>1, <2>2, <2>3 DEF Alters, TypeOK, RowFree
<1> QED
  <2>1. CASE Taken(u) \/ RefuseDtype(u) \/ StoreRefuses(u) \/ RowTaken(u) \/ TableGone(u)
    BY <1>3, <2>1 DEF Taken, RefuseDtype, StoreRefuses, RowTaken, TableGone
  <2>2. CASE CastAborts(u)
    BY <1>2, <1>3, <1>4, <2>2 DEF CastAborts, Keeps, place
  <2>3. CASE Fault(u)
    BY <1>2, <1>3, <1>5, <1>6, <2>3 DEF Fault, Keeps
  <2> QED
    BY <2>1, <2>2, <2>3

\* A statement that leaves every table as it is.
LEMMA MovesKeep ==
  ASSUME TypeOK, Transactional, BlockInv, NEW u \in Uploads,
         \/ Begin(u) \/ WidenColumn(u) \/ BulkFails(u) \/ CastInBlock(u) \/ SkipCast(u)
         \/ CastApart(u) \/ Count(u)
  PROVE Keeps(u)
<1>1. /\ backend' = backend /\ UNCHANGED place /\ own' = own /\ row' = row /\ id' = id
      /\ pc[u] \notin {"idle", "done", "failed"} /\ id[u] \in Ids
  BY DEF Begin, WidenColumn, BulkFails, CastInBlock, SkipCast, CastApart, Count, call,
         block, TypeOK
<1>2. PICK to : /\ pc' = [pc EXCEPT ![u] = to]
                /\ \/ pc[u] = "ready" /\ to = "create"
                   \/ pc[u] = "load" /\ to = "load"
                   \/ pc[u] = "cast" /\ to = "count"
                   \/ pc[u] = "count" /\ to = "register"
  BY DEF Begin, WidenColumn, BulkFails, CastInBlock, SkipCast, CastApart, Count, Goto, TypeOK
<1>3. \/ UNCHANGED <<slot, lost>>
      \/ Begin(u) /\ TakeSlot(u, IF backend = "postgres" THEN u ELSE NoUpload)
      \/ CastApart(u) /\ TakeSlot(u, NoUpload)
  BY DEF Begin, WidenColumn, BulkFails, CastInBlock, SkipCast, CastApart, Count, block
<1>4. \A v \in Uploads \ {u} :
        /\ mode'[v] = mode[v] /\ flushed'[v] = flushed[v] /\ counted'[v] = counted[v]
  BY DEF Begin, WidenColumn, BulkFails, CastInBlock, SkipCast, CastApart, Count, local, TypeOK
<1>5. PICK next \in {u, NoUpload} : TakeSlot(u, next) \/ UNCHANGED <<slot, lost>>
  BY <1>3
<1>6. Apart(u)
  BY <1>1, <1>2, <1>4, <1>5, LocalsApart
<1>7. Alters(u)
  BY <1>1, <1>2, QuietAlters DEF TypeOK
<1>8. CallInv(u) /\ pc'[u] = to
  BY <1>2 DEF BlockInv, TypeOK
<1>9. AttemptInv(u)'
  <2>1. \/ flushed'[u] = flushed[u] /\ mode'[u] = mode[u]
        \/ BulkFails(u) /\ pc[u] = "load" /\ mode[u] = "text" /\ flushed'[u] = 0
           /\ mode'[u] = "chunked"
    BY DEF Begin, WidenColumn, BulkFails, CastInBlock, SkipCast, CastApart, Count, local,
           TypeOK
  <2>2. flushed'[u] = flushed[u]
    BY <1>8, <2>1 DEF CallInv, AttemptInv
  <2>3. own[u] # NoTable /\ to = "register" => counted'[u] = Once
    <3>1. ASSUME own[u] # NoTable, to = "register" PROVE counted'[u] = Once
      <4>1. Count(u) /\ pc[u] = "count"
        BY <1>2, <1>8, <3>1
           DEF Begin, WidenColumn, BulkFails, CastInBlock, SkipCast, CastApart, Count
      <4>2. Seen(u) = own[u]
        BY <1>8, <3>1, <4>1 DEF Count, Seen, CallInv, PlaceInv
      <4>3. counted'[u] = own[u].loaded
        BY <4>1, <4>2 DEF Count, TypeOK
      <4>4. own[u].loaded = Prefix(Rows)
        BY <1>8, <3>1, <4>1 DEF CallInv, AttemptInv
      <4>5. Prefix(Rows) = Once
        BY SizesAssumption DEF SizesAssumption, Prefix, Once, File
      <4> QED
        BY <4>3, <4>4, <4>5
    <3> QED
      BY <3>1
  <2> QED
    BY <1>1, <1>2, <1>8, <2>1, <2>2, <2>3 DEF CallInv, AttemptInv, Building
<1>10. SlotInv(u)'
  <2>1. to # "create" => (slot' = u <=> slot = u)
    <3>1. CASE UNCHANGED <<slot, lost>>
      BY <3>1
    <3>2. CASE Begin(u)
      BY <1>2, <1>8, <3>2 DEF Begin
    <3>3. CASE CastApart(u) /\ TakeSlot(u, NoUpload)
      <4>1. slot # u
        BY <3>3, NullsAssumption DEF CastApart, Inside, Transactional, TypeOK, Backends
      <4> QED
        BY <3>3, <4>1, NullsAssumption DEF NullsAssumption, TakeSlot
    <3> QED
      BY <1>3, <3>1, <3>2, <3>3
  <2>2. to = "create" /\ backend = "postgres" => slot' = u
    BY <1>2, <1>3, <1>8 DEF Begin, WidenColumn, BulkFails, CastInBlock, SkipCast, CastApart,
       Count, TakeSlot
  <2>3. to = "create" => SlotInv(u)'
    BY <1>1, <1>8, <2>2 DEF SlotInv, Inside, Casting, Building, Transactional, TypeOK, Backends
  <2>4. ASSUME to # "create" PROVE SlotInv(u)'
    <3>1. /\ pc[u] \in {"load", "cast", "count"} /\ to \in {"load", "count", "register"}
          /\ Inside(u)' <=> Inside(u)
      BY <1>1, <1>2, <2>1, <2>4 DEF Inside
    <3>2. Kept(u)' => Kept(u)
      BY <1>6, KeptBefore
    <3> QED
      BY <1>1, <1>8, <2>1, <2>4, <3>1, <3>2
         DEF CallInv, SlotInv, Casting, Building, InBlock
  <2> QED
    BY <2>3, <2>4
<1>11. PlaceInv(u)'
  BY <1>1, <1>2, <1>8 DEF CallInv, PlaceInv, Building, Casting, place, AttemptInv
<1> QED
  BY <1>6, <1>7, <1>9, <1>10, <1>11 DEF Keeps, CallInv

LEMMA AllocateKeeps ==
  ASSUME TypeOK, Transactional, BlockInv, NEW u \in Uploads, Allocate(u)
  PROVE Keeps(u)
<1>1. /\ backend' = backend /\ UNCHANGED <<place, block, flushed, counted>>
      /\ pc[u] = "idle" /\ pc' = [pc EXCEPT ![u] = "ready"] /\ id'[u] \in Ids
      /\ \A v \in Uploads \ {u} : mode'[v] = mode[v] /\ id'[v] = id[v]
  BY DEF Allocate, Goto, TypeOK
<1>2. CallInv(u) /\ pc'[u] = "ready"
  BY <1>1 DEF BlockInv, TypeOK
<1>3. own[u] = NoTable /\ row[u] = NoEntry /\ slot # u
  BY <1>1, <1>2 DEF CallInv, AttemptInv, SlotInv, Building
<1>4. Apart(u)
  BY <1>1, <1>2, LocalsApart DEF block
<1>5. Alters(u)
  BY <1>1, <1>2, <1>3, QuietAlters DEF block
<1> QED
  BY <1>1, <1>2, <1>3, <1>4, <1>5
     DEF Keeps, CallInv, AttemptInv, SlotInv, PlaceInv, Casting, Building, InBlock, block

\* A name PostgreSQL lets a call create is in nobody else's transaction.
LEMMA NameApart ==
  ASSUME Transactional, BlockInv, NEW u \in Uploads, NameFree(u), id' = id
  PROVE Free(u)
  BY DEF Free, NameFree, Open, Building, InBlock, BlockInv, CallInv, AttemptInv

LEMMA CreateKeeps ==
  ASSUME TypeOK, Transactional, BlockInv, NEW u \in Uploads, Create(u)
  PROVE Keeps(u)
<1>1. /\ backend' = backend /\ id' = id /\ row' = row
      /\ UNCHANGED <<scratch, registry, mode, flushed, counted, slot, lost>>
      /\ pc[u] = "create" /\ pc' = [pc EXCEPT ![u] = "load"] /\ id[u] \in Ids
      /\ tables[id[u]] = NoTable /\ NameFree(u)
  BY DEF Create, Goto, call, TypeOK
<1>2. CallInv(u) /\ pc'[u] = "load" /\ own[u] = NoTable /\ row[u] = NoEntry
  <2>1. CallInv(u) /\ pc'[u] = "load"
    BY <1>1 DEF BlockInv, TypeOK
  <2> QED
    BY <1>1, <2>1 DEF CallInv, AttemptInv, Building
<1>3. PICK t \in Types : Put(u, NewTable(u, t))
  BY DEF Create, Inferred, Native, Types, Text
<1>4. PICK tab \in Contents : tab = NewTable(u, t)
  BY NewTableType
<1>5. tab.by = u /\ tab.loaded = Prefix(0) /\ tab # NoTable
  <2>1. Prefix(0) = Zero
    <3>1. \A r \in File : ~(r <= 0)
      BY SizesAssumption DEF SizesAssumption, File
    <3> QED
      BY <3>1 DEF Prefix, Zero
  <2> QED
    BY <1>4, <2>1, NullsAssumption DEF NullsAssumption, NewTable
<1>6. Free(u)
  BY <1>1, NameApart
<1>7. Apart(u)
  <2>1. \A v \in Uploads \ {u} : own'[v] = own[v]
    BY <1>3 DEF Put, TypeOK
  <2> QED
    BY <1>1, <2>1, LocalsApart
<1>8. flushed[u] = 0
  BY <1>1, <1>2 DEF CallInv, AttemptInv
<1>9. CASE Inside(u)
  <2>1. own'[u] = tab /\ tables' = tables
    BY <1>3, <1>4, <1>9 DEF Put, TypeOK
  <2>2. Alters(u)
    BY <1>1, <1>2, <1>6, <2>1 DEF Alters
  <2>3. AttemptInv(u)'
    BY <1>1, <1>2, <1>5, <1>8, <2>1 DEF AttemptInv, Building
  <2>4. SlotInv(u)'
    BY <1>1, <1>2, <1>5, <1>9, <2>1 DEF SlotInv, Inside, Casting, Building
  <2>5. PlaceInv(u)'
    BY <1>1, <1>2, <1>5, <2>1 DEF PlaceInv, Casting, Building
  <2> QED
    BY <1>7, <2>2, <2>3, <2>4, <2>5 DEF Keeps, CallInv
<1>10. CASE ~Inside(u)
  <2>1. own' = own /\ tables' = [tables EXCEPT ![id[u]] = tab]
    BY <1>3, <1>4, <1>10 DEF Put
  <2>2. tables'[id[u]] = tab /\ \A j \in Ids \ {id[u]} : tables'[j] = tables[j]
    BY <1>1, <2>1 DEF TypeOK
  <2>3. ~Kept(u) /\ ~Kept(u)' /\ ~Inside(u)' /\ slot' # u
    BY <1>1, <1>2, <1>7, <1>10, OutsideLost
       DEF CallInv, InBlock, Inside, Transactional, TypeOK, Backends
  <2>4. Alters(u)
    BY <1>1, <1>2, <1>5, <1>6, <2>1, <2>2, <2>3 DEF Alters
  <2>5. AttemptInv(u)'
    BY <1>1, <1>2, <1>8, <2>1 DEF AttemptInv, Building
  <2>6. SlotInv(u)'
    BY <1>2, <2>3 DEF SlotInv
  <2>7. PlaceInv(u)'
    BY <1>1, <1>2, <1>5, <2>1, <2>2 DEF PlaceInv, Casting, Building
  <2> QED
    BY <1>7, <2>4, <2>5, <2>6, <2>7 DEF Keeps, CallInv
<1> QED
  BY <1>9, <1>10

\* A chunk appended to a prefix of the file is a longer prefix.
LEMMA InsertPrefix ==
  ASSUME NEW tab \in Contents, NEW n \in 0 .. Rows, NEW m \in 0 .. Rows, n <= m,
         tab.loaded = Prefix(n)
  PROVE Insert(tab, {r \in File : n < r /\ r <= m}).loaded = Prefix(m)
<1> DEFINE part == {r \in File : n < r /\ r <= m}
           more == [r \in File |-> IF r \in part THEN tab.loaded[r] + 1
                                   ELSE tab.loaded[r]]
<1>1. more = Prefix(m)
  <2>1. ASSUME NEW r \in File PROVE more[r] = Prefix(m)[r]
    BY SizesAssumption DEF SizesAssumption, Prefix, File
  <2> QED
    BY <2>1 DEF Prefix
<1>2. Insert(tab, part).loaded = more
  BY DEF Insert, Contents
<1> QED
  BY <1>1, <1>2

LEMMA LoadKeeps ==
  ASSUME TypeOK, Transactional, BlockInv, NEW u \in Uploads, FlushChunk(u) \/ LoadWhole(u)
  PROVE Keeps(u)
<1>1. PICK upto \in 0 .. Rows :
        /\ Load(u, upto) /\ flushed[u] <= upto
        /\ mode[u] = "text" => upto = Rows
  BY UptoType, Bounds DEF FlushChunk, LoadWhole, TypeOK
<1>2. /\ backend' = backend /\ id' = id /\ row' = row /\ id[u] \in Ids
      /\ UNCHANGED <<scratch, registry, mode, counted, slot, lost>>
      /\ flushed' = [flushed EXCEPT ![u] = upto]
      /\ pc[u] = "load" /\ Seen(u) # NoTable
  BY <1>1 DEF Load, FlushChunk, LoadWhole, call, TypeOK
<1>3. PICK to \in {"load", "cast", "count"} :
        pc' = [pc EXCEPT ![u] = to] /\ (to = "load" <=> upto # Rows)
  <2>1. AfterLoad(u) \in {"cast", "count"}
    BY DEF AfterLoad
  <2> QED
    BY <1>1, <2>1 DEF Load, Goto
<1>4. CallInv(u) /\ pc'[u] = to /\ flushed'[u] = upto
  BY <1>2, <1>3 DEF BlockInv, TypeOK
<1>5. PICK part : /\ part = {r \in File : flushed[u] < r /\ r <= upto}
                  /\ Put(u, Insert(Seen(u), part))
  BY <1>1 DEF Load
<1>6. Seen(u) \in Contents
  BY <1>2, SeenType
<1>7. PICK tab \in Contents : tab = Insert(Seen(u), part)
  BY <1>6, InsertType
<1>8. tab.by = Seen(u).by /\ tab # NoTable
  BY <1>6, <1>7, NullsAssumption DEF NullsAssumption, Insert, Contents
<1>9. Apart(u)
  <2>1. \A v \in Uploads \ {u} : own'[v] = own[v] /\ flushed'[v] = flushed[v]
    BY <1>2, <1>5 DEF Put, TypeOK
  <2> QED
    BY <1>2, <1>3, <2>1, LocalsApart
<1>10. row[u] = NoEntry
  BY <1>2, <1>4 DEF CallInv, AttemptInv
<1>11. CASE Inside(u)
  <2>1. own'[u] = tab /\ tables' = tables /\ Seen(u) = own[u]
    BY <1>5, <1>7, <1>11 DEF Put, TypeOK, Seen
  <2>2. own[u] # NoTable /\ own[u].by = u /\ own[u].loaded = Prefix(flushed[u])
        /\ tables[id[u]] = NoTable
    BY <1>2, <1>4, <2>1 DEF CallInv, AttemptInv, PlaceInv
  <2>3. tab.loaded = Prefix(upto)
    <3>1. flushed[u] \in 0 .. Rows
      BY DEF TypeOK
    <3>2. Insert(own[u], {r \in File : flushed[u] < r /\ r <= upto}).loaded = Prefix(upto)
      BY <1>1, <1>6, <2>1, <2>2, <3>1, InsertPrefix
    <3> QED
      BY <1>5, <1>7, <2>1, <3>2
  <2>4. Alters(u)
    BY <1>2, <1>3, <1>4, <2>1, <2>2 DEF Alters
  <2>5. AttemptInv(u)'
    BY <1>1, <1>2, <1>3, <1>4, <1>8, <1>10, <2>1, <2>2, <2>3 DEF AttemptInv, Building
  <2>6. SlotInv(u)'
    BY <1>2, <1>3, <1>4, <1>8, <1>11, <2>1
       DEF SlotInv, Inside, Casting, Building
  <2>7. PlaceInv(u)'
    BY <1>2, <1>3, <1>4, <1>8, <1>10, <2>1, <2>2 DEF PlaceInv, Casting, Building
  <2> QED
    BY <1>9, <2>4, <2>5, <2>6, <2>7 DEF Keeps, CallInv
<1>12. CASE ~Inside(u)
  <2>1. own' = own /\ tables' = [tables EXCEPT ![id[u]] = tab] /\ Seen(u) = tables[id[u]]
    BY <1>5, <1>7, <1>12 DEF Put, Seen
  <2>2. tables'[id[u]] = tab /\ \A j \in Ids \ {id[u]} : tables'[j] = tables[j]
    BY <1>2, <2>1 DEF TypeOK
  <2>3. own[u] = NoTable /\ tables[id[u]] # NoTable /\ tables[id[u]].by = u
    BY <1>2, <1>4, <2>1 DEF CallInv, PlaceInv, Building
  <2>4. ~Kept(u) /\ ~Kept(u)' /\ ~Inside(u)' /\ slot' # u
    BY <1>2, <1>4, <1>9, <1>12, OutsideLost
       DEF CallInv, InBlock, Inside, Transactional, TypeOK, Backends
  <2>5. Alters(u)
    BY <1>2, <1>3, <1>4, <1>8, <2>1, <2>2, <2>3, <2>4 DEF Alters
  <2>6. AttemptInv(u)'
    BY <1>1, <1>2, <1>3, <1>4, <1>10, <2>1, <2>3 DEF AttemptInv, Building
  <2>7. SlotInv(u)'
    BY <1>2, <1>4, <2>4 DEF SlotInv
  <2>8. PlaceInv(u)'
    BY <1>2, <1>3, <1>4, <1>8, <1>10, <2>1, <2>2, <2>3 DEF PlaceInv, Casting, Building
  <2> QED
    BY <1>9, <2>5, <2>6, <2>7, <2>8 DEF Keeps, CallInv
<1> QED
  BY <1>11, <1>12

\* A cast for all to see is one of the call's own table.
LEMMA CastsKeep ==
  ASSUME TypeOK, Transactional, BlockInv, NEW u \in Uploads,
         CastCopy(u) \/ CastDrop(u) \/ CastRename(u)
  PROVE Keeps(u)
<1>1. PICK to : /\ pc' = [pc EXCEPT ![u] = to]
                /\ \/ CastCopy(u) /\ pc[u] = "cast" /\ to = "castdrop"
                   \/ CastDrop(u) /\ pc[u] = "castdrop" /\ to = "castrename"
                   \/ CastRename(u) /\ pc[u] = "castrename" /\ to = "count"
  BY DEF CastCopy, CastDrop, CastRename, Goto
<1>2. /\ backend' = backend /\ id' = id /\ own' = own /\ row' = row /\ registry' = registry
      /\ UNCHANGED <<mode, flushed, counted>> /\ id[u] \in Ids
      /\ TakeSlot(u, NoUpload) \/ UNCHANGED <<slot, lost>>
  BY <1>1 DEF CastCopy, CastDrop, CastRename, call, local, block, TypeOK
<1>3. CallInv(u) /\ pc'[u] = to
  BY <1>1 DEF BlockInv, TypeOK
<1>4. Apart(u)
  BY <1>1, <1>2, LocalsApart
<1>5. ~Inside(u)
  BY <1>1, <1>3 DEF CastCopy, CallInv, SlotInv, Casting
<1>6. ~Kept(u)'
  BY <1>1, <1>3, <1>4, <1>5, OutsideLost DEF CallInv, InBlock
<1>7. slot' # u
  <2>1. slot # u
    BY <1>5 DEF Inside, Transactional, TypeOK, Backends
  <2> QED
    BY <1>2, <2>1, NullsAssumption DEF NullsAssumption, TakeSlot
<1>8. ~Inside(u)'
  BY <1>2, <1>5, <1>7 DEF Inside
<1>9. row[u] = NoEntry
  BY <1>1, <1>3 DEF CallInv, AttemptInv
<1>10. own[u] = NoTable
  <2>1. CASE CastCopy(u)
    <3>1. tables[id[u]] # NoTable
      BY <1>5, <2>1 DEF CastCopy, Seen
    <3> QED
      BY <1>3, <3>1 DEF CallInv, PlaceInv
  <2>2. CASE pc[u] \in Casting
    BY <1>3, <2>2 DEF CallInv, AttemptInv, Casting, Building
  <2> QED
    BY <1>1, <2>1, <2>2 DEF Casting
<1>11. AttemptInv(u)'
  BY <1>1, <1>2, <1>3, <1>9, <1>10 DEF AttemptInv
<1>12. SlotInv(u)'
  BY <1>6, <1>7, <1>8 DEF SlotInv
<1>13. CASE CastCopy(u)
  <2>1. tables' = tables /\ scratch' = [scratch EXCEPT ![id[u]] = tables[id[u]]]
        /\ scratch[id[u]] = NoTable /\ tables[id[u]] # NoTable /\ pc[u] = "cast"
        /\ to = "castdrop"
    BY <1>1, <1>5, <1>13 DEF CastCopy, Seen, CastDrop, CastRename
  <2>2. scratch'[id[u]] = tables[id[u]] /\ \A j \in Ids \ {id[u]} : scratch'[j] = scratch[j]
    BY <1>2, <2>1 DEF TypeOK
  <2>3. tables[id[u]].by = u
    BY <1>3, <1>10, <2>1 DEF CallInv, PlaceInv, Building
  <2>4. Alters(u)
    BY <1>2, <1>3, <1>10, <2>1, <2>2 DEF Alters
  <2>5. PlaceInv(u)'
    BY <1>2, <1>3, <1>9, <1>10, <2>1, <2>2, <2>3 DEF PlaceInv, Building, Casting
  <2> QED
    BY <1>4, <1>11, <1>12, <2>4, <2>5 DEF Keeps, CallInv
<1>14. CASE CastDrop(u)
  <2>1. scratch' = scratch /\ tables' = [tables EXCEPT ![id[u]] = NoTable]
        /\ pc[u] = "castdrop" /\ to = "castrename"
    BY <1>1, <1>14 DEF CastDrop, CastCopy, CastRename
  <2>2. tables'[id[u]] = NoTable /\ \A j \in Ids \ {id[u]} : tables'[j] = tables[j]
    BY <1>2, <2>1 DEF TypeOK
  <2>3. /\ tables[id[u]] # NoTable /\ tables[id[u]].by = u
        /\ scratch[id[u]] # NoTable /\ scratch[id[u]].by = u
    BY <1>3, <1>10, <2>1 DEF CallInv, PlaceInv, Casting
  <2>4. Alters(u)
    BY <1>2, <1>3, <1>10, <2>1, <2>2, <2>3 DEF Alters
  <2>5. PlaceInv(u)'
    BY <1>2, <1>3, <1>9, <1>10, <2>1, <2>3 DEF PlaceInv, Building, Casting
  <2> QED
    BY <1>4, <1>11, <1>12, <2>4, <2>5 DEF Keeps, CallInv
<1>15. CASE CastRename(u)
  <2>1. /\ tables' = [tables EXCEPT ![id[u]] = scratch[id[u]]] /\ tables[id[u]] = NoTable
        /\ scratch' = [scratch EXCEPT ![id[u]] = NoTable] /\ scratch[id[u]] # NoTable
        /\ pc[u] = "castrename" /\ to = "count" /\ NameFree(u)
    BY <1>1, <1>15 DEF CastDrop, CastCopy, CastRename
  <2>2. /\ tables'[id[u]] = scratch[id[u]] /\ \A j \in Ids \ {id[u]} : tables'[j] = tables[j]
        /\ scratch'[id[u]] = NoTable /\ \A j \in Ids \ {id[u]} : scratch'[j] = scratch[j]
    BY <1>2, <2>1 DEF TypeOK
  <2>3. scratch[id[u]].by = u
    BY <1>3, <2>1 DEF CallInv, PlaceInv, Casting
  <2>4. Free(u)
    BY <1>2, <2>1, NameApart
  <2>5. Alters(u)
    BY <1>2, <1>3, <1>6, <1>10, <2>1, <2>2, <2>3, <2>4 DEF Alters
  <2>6. PlaceInv(u)'
    BY <1>2, <1>3, <1>9, <1>10, <2>1, <2>2, <2>3 DEF PlaceInv, Building, Casting
  <2> QED
    BY <1>4, <1>11, <1>12, <2>5, <2>6 DEF Keeps, CallInv
<1> QED
  BY <1>1, <1>13, <1>14, <1>15

LEMMA RegisterKeeps ==
  ASSUME TypeOK, Transactional, BlockInv, NEW u \in Uploads, Register(u)
  PROVE Keeps(u)
<1>1. /\ backend' = backend /\ id' = id /\ own' = own
      /\ UNCHANGED <<tables, scratch, mode, flushed, counted>>
      /\ pc[u] = "register" /\ pc' = [pc EXCEPT ![u] = "commit"] /\ id[u] \in Ids
      /\ RowFree(u) /\ PutRow(u) /\ TakeSlot(u, NoUpload)
  BY DEF Register, Goto, call, local, TypeOK
<1>2. CallInv(u) /\ pc'[u] = "commit"
  BY <1>1 DEF BlockInv, TypeOK
<1>3. row[u] = NoEntry /\ registry[id[u]] = NoEntry
  BY <1>1, <1>2 DEF CallInv, AttemptInv, RowFree
<1>4. PICK entry : entry = Entry(u)
  OBVIOUS
<1>5. entry # NoEntry /\ entry.by = u /\ entry.counted = counted[u]
  BY <1>4, EntryType, NullsAssumption DEF NullsAssumption, Entry
<1>6. Apart(u)
  <2>1. \A v \in Uploads \ {u} : row'[v] = row[v]
    BY <1>1 DEF PutRow, TypeOK
  <2> QED
    BY <1>1, <2>1, LocalsApart
<1>7. slot' # u
  BY <1>1, NullsAssumption DEF NullsAssumption, TakeSlot
<1>8. CASE Inside(u)
  <2>1. row'[u] = entry /\ registry' = registry
    BY <1>1, <1>4, <1>8 DEF PutRow, TypeOK
  <2>2. own[u] # NoTable
    BY <1>1, <1>2, <1>8 DEF CallInv, SlotInv, Building
  <2>3. own[u].by = u /\ own[u].loaded = Prefix(flushed[u]) /\ flushed[u] = Rows
        /\ counted[u] = Once /\ tables[id[u]] = NoTable
    BY <1>1, <1>2, <2>2 DEF CallInv, AttemptInv, PlaceInv
  <2>4. Alters(u)
    BY <1>1, <1>2, <2>1, <2>2 DEF Alters
  <2>5. AttemptInv(u)'
    BY <1>1, <1>2, <1>5, <2>1, <2>2, <2>3 DEF AttemptInv, Building
  <2>6. SlotInv(u)'
    BY <1>1, <1>2, <1>5, <1>7, <2>1, <2>2 DEF SlotInv, Building, Casting
  <2>7. PlaceInv(u)'
    BY <1>1, <1>2, <1>3, <2>1, <2>2, <2>3 DEF PlaceInv, Building, Casting
  <2> QED
    BY <1>6, <2>4, <2>5, <2>6, <2>7 DEF Keeps, CallInv
<1>9. CASE ~Inside(u)
  <2>1. row' = row /\ registry' = [registry EXCEPT ![id[u]] = entry]
    BY <1>1, <1>4, <1>9 DEF PutRow
  <2>2. registry'[id[u]] = entry /\ \A j \in Ids \ {id[u]} : registry'[j] = registry[j]
    BY <1>1, <2>1 DEF TypeOK
  <2>3. ~Kept(u)'
    BY <1>1, <1>2, <1>6, <1>9, OutsideLost DEF CallInv, InBlock
  <2>4. Free(u)
    BY <1>1, HandsFree DEF Building
  <2>5. Alters(u)
    BY <1>1, <1>2, <1>3, <1>5, <2>2, <2>3, <2>4 DEF Alters
  <2>6. AttemptInv(u)'
    <3>1. own[u] # NoTable => counted[u] = Once
      BY <1>1, <1>2 DEF CallInv, AttemptInv
    <3> QED
      BY <1>1, <1>2, <1>3, <2>1, <3>1 DEF CallInv, AttemptInv, Building
  <2>7. SlotInv(u)'
    BY <1>2, <1>7, <2>3 DEF SlotInv, Building, Casting
  <2>8. PlaceInv(u)'
    BY <1>1, <1>2, <1>3, <2>1 DEF CallInv, PlaceInv, Building, Casting
  <2> QED
    BY <1>6, <2>5, <2>6, <2>7, <2>8 DEF Keeps, CallInv
<1> QED
  BY <1>8, <1>9

\* What a COMMIT shows: the call's own table and row, both when it kept its block.
LEMMA CommitKeeps ==
  ASSUME TypeOK, Transactional, BlockInv, NEW u \in Uploads, Commit(u) \/ CommitUnheard(u)
  PROVE Keeps(u)
<1>1. /\ backend' = backend /\ id' = id /\ slot' = slot
      /\ Publish(u) /\ Reset(u) /\ pc[u] = "commit" /\ id[u] \in Ids
  BY DEF Commit, CommitUnheard, call, TypeOK
<1>2. PICK to \in {"done", "ready", "failed"} :
        /\ pc' = [pc EXCEPT ![u] = to]
        /\ \/ to = "done" /\ lost' = lost
           \/ to # "done" /\ lost' = [lost EXCEPT ![u] = TRUE] /\ backend = "postgres"
        /\ \A v \in Uploads \ {u} : mode'[v] = mode[v]
  BY DEF Commit, CommitUnheard, Recover, Goto, TypeOK
<1>3. CallInv(u) /\ pc'[u] = to
  BY <1>1, <1>2 DEF BlockInv, TypeOK
<1>4. /\ own'[u] = NoTable /\ row'[u] = NoEntry /\ flushed'[u] = 0
      /\ \A v \in Uploads \ {u} :
           /\ own'[v] = own[v] /\ row'[v] = row[v] /\ flushed'[v] = flushed[v]
           /\ counted'[v] = counted[v]
  BY <1>1 DEF Reset, TypeOK
<1>5. /\ \A v \in Uploads \ {u} : lost'[v] = lost[v]
      /\ \A v \in Uploads : lost[v] => lost'[v]
      /\ to # "done" => lost'[u] /\ backend = "postgres"
  BY <1>2 DEF TypeOK
<1>6. Apart(u)
  <2>1. pc'[u] # "idle" /\ \A v \in Uploads \ {u} : pc'[v] = pc[v]
    BY <1>2 DEF TypeOK
  <2> QED
    BY <1>1, <1>2, <1>4, <1>5, <2>1 DEF Apart
<1>7. Kept(u)' => own[u] # NoTable /\ row[u] # NoEntry /\ to = "done"
  <2>1. Kept(u)' => Kept(u)
    BY <1>6, KeptBefore
  <2>2. Kept(u)' => to = "done"
    BY <1>1, <1>5 DEF Kept
  <2> QED
    BY <1>1, <1>3, <2>1, <2>2 DEF CallInv, SlotInv
<1>8. own[u] # NoTable =>
        own[u].by = u /\ own[u].loaded = Once /\ tables[id[u]] = NoTable
  <2>1. Prefix(Rows) = Once
    BY SizesAssumption DEF SizesAssumption, Prefix, Once, File
  <2> QED
    BY <1>1, <1>3, <2>1 DEF CallInv, AttemptInv, PlaceInv
<1>9. row[u] # NoEntry =>
        row[u].by = u /\ row[u].counted = Once /\ registry[id[u]] = NoEntry
        /\ own[u] # NoTable
  BY <1>3 DEF CallInv, AttemptInv, PlaceInv
<1>10. Free(u)
  BY <1>1, HandsFree DEF Building
<1>11. Alters(u)
  <2>1. \A j \in Ids \ {id[u]} : /\ tables'[j] = tables[j] /\ registry'[j] = registry[j]
                                /\ scratch'[j] = scratch[j]
    BY <1>1 DEF Publish, TypeOK
  <2>2. /\ tables'[id[u]] = IF own[u] = NoTable THEN tables[id[u]] ELSE own[u]
        /\ registry'[id[u]] = IF row[u] = NoEntry THEN registry[id[u]] ELSE row[u]
        /\ scratch' = scratch
    BY <1>1 DEF Publish, TypeOK
  <2> QED
    BY <1>1, <1>3, <1>4, <1>7, <1>8, <1>9, <1>10, <2>1, <2>2 DEF Alters
<1>12. AttemptInv(u)'
  BY <1>2, <1>3, <1>4 DEF AttemptInv
<1>13. SlotInv(u)'
  <2>1. slot' # u
    BY <1>1, <1>3 DEF CallInv, SlotInv
  <2> QED
    BY <1>2, <1>3, <2>1 DEF SlotInv, Building, Casting, InBlock
<1>14. PlaceInv(u)'
  BY <1>2, <1>3, <1>4 DEF PlaceInv, Building, Casting
<1> QED
  BY <1>6, <1>11, <1>12, <1>13, <1>14 DEF Keeps, CallInv

\* A block of somebody else: the call in the slot has lost it.
LEMMA IntrudeKeeps ==
  ASSUME TypeOK, BlockInv, Intrude PROVE BlockInv'
<1>1. /\ backend' = backend /\ UNCHANGED <<place, pc, call, local, own, row>>
      /\ slot' = NoUpload
      /\ \A v \in Uploads : lost'[v] = (lost[v] \/ (v = slot /\ v # NoUpload))
  BY DEF Intrude, TakeSlot
<1>2. \A v \in Uploads : Kept(v)' => Kept(v)
  BY <1>1 DEF Kept
<1>3. ASSUME NEW v \in Uploads PROVE CallInv(v)'
  <2>1. CallInv(v) /\ slot' # v
    BY <1>1, NullsAssumption DEF NullsAssumption, BlockInv
  <2>2. (Inside(v)' => Inside(v)) /\ (Kept(v)' /\ Inside(v) => Inside(v)')
    BY <1>1, <2>1, NullsAssumption DEF NullsAssumption, Inside, Kept
  <2>3. AttemptInv(v)' /\ PlaceInv(v)'
    BY <1>1, <2>1 DEF CallInv, AttemptInv, PlaceInv, place, call, local
  <2>4. SlotInv(v)'
    BY <1>1, <1>2, <2>1, <2>2 DEF CallInv, SlotInv
  <2> QED
    BY <2>3, <2>4 DEF CallInv
<1>4. ASSUME NEW i \in Ids PROVE TableInv(i)' /\ RowInv(i)'
  <2>1. tables[i] # NoTable => tables[i].by \in Uploads
    BY DEF TypeOK, Contents
  <2>2. registry[i] # NoEntry => registry[i].by \in Uploads
    BY DEF TypeOK, Entries
  <2>3. TableInv(i) /\ RowInv(i) /\ UNCHANGED <<tables, registry, pc, id>>
    BY <1>1 DEF BlockInv, place, call
  <2>4. /\ tables'[i] # NoTable => (Kept(tables[i].by)' => Kept(tables[i].by))
        /\ registry'[i] # NoEntry => (Kept(registry[i].by)' => Kept(registry[i].by))
    BY <1>2, <2>1, <2>2, <2>3
  <2> QED
    BY <2>3, <2>4 DEF TableInv, RowInv, Once, Kept
<1> QED
  BY <1>1, <1>3, <1>4 DEF BlockInv, AloneInv, call

\* The process dies: what was in a block is gone, what is seen stays.
LEMMA CrashKeeps ==
  ASSUME TypeOK, BlockInv, Crash PROVE BlockInv'
<1>1. /\ backend' = backend /\ UNCHANGED <<place, call, mode, lost>> /\ slot' = NoUpload
      /\ \A v \in Uploads : /\ pc'[v] = IF pc[v] \in Running THEN "dead" ELSE pc[v]
                            /\ own'[v] = NoTable /\ row'[v] = NoEntry /\ flushed'[v] = 0
  BY DEF Crash
<1>2. ASSUME NEW v \in Uploads PROVE CallInv(v)'
  <2>1. AttemptInv(v) /\ slot' # v
    BY <1>1, NullsAssumption DEF NullsAssumption, BlockInv, CallInv
  <2>2. pc'[v] \notin InBlock \union {"cleanup", "dirty"}
    BY <1>1, <2>1 DEF AttemptInv, Running, InBlock
  <2> QED
    BY <1>1, <2>1, <2>2
       DEF CallInv, AttemptInv, SlotInv, PlaceInv, Building, Casting, InBlock
<1>3. ASSUME NEW i \in Ids PROVE TableInv(i)' /\ RowInv(i)'
  <2>1. TableInv(i) /\ RowInv(i) /\ UNCHANGED <<tables, registry, id, lost>>
    BY <1>1 DEF BlockInv, place, call
  <2>2. tables[i] # NoTable => tables[i].by \in Uploads
    BY DEF TypeOK, Contents
  <2>3. registry[i] # NoEntry => registry[i].by \in Uploads
    BY DEF TypeOK, Entries
  <2>4. \A v \in Uploads : /\ pc[v] # "idle" => pc'[v] # "idle"
                           /\ pc[v] = "done" => pc'[v] = "done"
    BY <1>1 DEF Running, InBlock
  <2> QED
    BY <1>1, <2>1, <2>2, <2>3, <2>4 DEF TableInv, RowInv, Kept, Once
<1> QED
  BY <1>1, <1>2, <1>3 DEF BlockInv, AloneInv

\* Nothing of the ClickHouse cleanup runs where there are transactions.
LEMMA NoCleanup ==
  ASSUME Transactional, BlockInv, NEW u \in Uploads
  PROVE ~CastFails(u) /\ ~Cleanup(u) /\ ~CleanupFails(u)
  BY DEF CastFails, Cleanup, CleanupFails, BlockInv, CallInv, AttemptInv

\* A step of one call.
Deed(u) == Allocate(u) \/ Step(u) \/ Mishap(u)

LEMMA DeedApart ==
  ASSUME TypeOK, Transactional, BlockInv, NEW u \in Uploads, Deed(u)
  PROVE Keeps(u)
  BY NoCleanup, AllocateKeeps, MovesKeep, CreateKeeps, LoadKeeps, CastsKeep, RegisterKeeps,
     CommitKeeps, FailuresKeep DEF Deed, Step, Mishap

LEMMA StillKeeps ==
  ASSUME BlockInv, UNCHANGED vars PROVE BlockInv'
<1>1. UNCHANGED <<backend, file, tables, scratch, registry, pc, mode, id, own, row, slot,
                  flushed, counted, lost>>
  BY DEF vars, place, call, local, block
<1>2. ASSUME NEW u \in Uploads PROVE CallInv(u)'
  BY <1>1 DEF BlockInv, CallInv, AttemptInv, SlotInv, PlaceInv, Kept, Inside
<1>3. ASSUME NEW i \in Ids PROVE TableInv(i)' /\ RowInv(i)'
  BY <1>1 DEF BlockInv, TableInv, RowInv, Kept
<1> QED
  BY <1>1, <1>2, <1>3 DEF BlockInv, AloneInv

\* The database is chosen once.
LEMMA BackendStays ==
  ASSUME [Next]_vars PROVE backend' = backend
<1>1. ASSUME NEW u \in Uploads, Allocate(u) \/ Begin(u) \/ Create(u) \/ CastInBlock(u)
                              \/ SkipCast(u) \/ CastApart(u) \/ CastCopy(u) \/ CastDrop(u)
                              \/ CastRename(u) \/ Count(u) \/ Register(u) \/ Commit(u)
      PROVE backend' = backend
  BY <1>1 DEF Allocate, Begin, Create, CastInBlock, SkipCast, CastApart, CastCopy, CastDrop,
              CastRename, Count, Register, Commit
<1>2. ASSUME NEW u \in Uploads, FlushChunk(u) \/ LoadWhole(u) \/ WidenColumn(u)
                              \/ BulkFails(u) \/ CommitUnheard(u) \/ Cleanup(u)
                              \/ CleanupFails(u)
      PROVE backend' = backend
  BY <1>2 DEF FlushChunk, LoadWhole, Load, WidenColumn, BulkFails, CommitUnheard, Cleanup,
              CleanupFails
<1>3. ASSUME NEW u \in Uploads, Taken(u) \/ RefuseDtype(u) \/ StoreRefuses(u)
                              \/ CastAborts(u) \/ CastFails(u) \/ RowTaken(u)
                              \/ TableGone(u) \/ Fault(u)
      PROVE backend' = backend
  <2>1. Abort(u) \/ Stop(u)
    BY <1>3 DEF Taken, RefuseDtype, StoreRefuses, CastAborts, CastFails, RowTaken, TableGone,
                Fault
  <2> QED
    BY <2>1 DEF Abort, Stop
<1>4. Intrude \/ Crash \/ UNCHANGED vars => backend' = backend
  BY DEF Intrude, Crash, vars
<1> QED
  BY <1>1, <1>2, <1>3, <1>4 DEF Next, Step, Mishap

UploadInv == TypeOK /\ (Transactional => BlockInv)

\* With transactions, whatever the calls do, lose and undo beside one another,
\* what a call that kept its block shows is complete, and what it holds in its
\* block is a prefix of the file that nobody else sees.
THEOREM UploadInvariant == Spec => []UploadInv
<1>1. Init => UploadInv
  <2> SUFFICES ASSUME Init PROVE UploadInv
    OBVIOUS
  <2>1. TypeOK
    BY StartTypes
  <2>2. ASSUME NEW u \in Uploads PROVE CallInv(u)
    BY NullsAssumption
       DEF NullsAssumption, Init, CallInv, AttemptInv, SlotInv, PlaceInv, Building, Casting,
           InBlock
  <2> QED
    BY <2>1, <2>2 DEF UploadInv, BlockInv, Init, AloneInv, TableInv, RowInv
<1>2. UploadInv /\ [Next]_vars => UploadInv'
  <2> SUFFICES ASSUME UploadInv, [Next]_vars PROVE UploadInv'
    OBVIOUS
  <2>1. TypeOK /\ TypeOK'
    BY TypeStep DEF UploadInv
  <2>2. backend' = backend
    BY BackendStays
  <2>3. ASSUME Transactional PROVE BlockInv'
    <3>1. BlockInv
      BY <2>3 DEF UploadInv
    <3>2. ASSUME NEW u \in Uploads, Deed(u) PROVE BlockInv'
      BY <2>1, <2>3, <3>1, <3>2, DeedApart, DeedKeeps DEF Keeps
    <3> QED
      BY <2>1, <3>1, <3>2, IntrudeKeeps, CrashKeeps, StillKeeps DEF Next, Deed
  <2> QED
    BY <2>1, <2>2, <2>3 DEF UploadInv, Transactional
<1> QED
  BY <1>1, <1>2, PTL DEF Spec

\* The dataset of a call that kept its block is whole: every row once, as many
\* as the registry says, whatever was repeated, lost or ran beside the call.
THEOREM RegisteredSafety == Spec => []RegisteredLoaded
<1>1. UploadInv => RegisteredLoaded
  BY DEF UploadInv, BlockInv, RowInv, RegisteredLoaded, Kept, Transactional
<1> QED
  BY <1>1, UploadInvariant, PTL

\* Steps of nobody's call, with transactions.
LEMMA OthersQuiet ==
  ASSUME [Next]_vars, \A u \in Uploads : ~Deed(u)
  PROVE UNCHANGED <<tables, registry>>
  BY DEF Next, Deed, Intrude, Crash, vars, place

\* No call touches the dataset of another one that kept its block, not even
\* after it lost its own.
THEOREM RegisteredStaysSafety == Spec => RegisteredStays
<1>1. UploadInv /\ [Next]_vars =>
        [\A i \in Ids : registry[i] # NoEntry /\ Kept(registry[i].by) =>
           tables'[i] = tables[i] /\ registry'[i] = registry[i]]_vars
  <2> SUFFICES ASSUME UploadInv, [Next]_vars,
                      NEW i \in Ids, registry[i] # NoEntry, Kept(registry[i].by)
               PROVE tables'[i] = tables[i] /\ registry'[i] = registry[i]
    OBVIOUS
  <2>1. TypeOK /\ BlockInv /\ Transactional
    BY DEF UploadInv, Kept, Transactional
  <2>2. /\ tables[i] # NoTable /\ tables[i].by = registry[i].by
        /\ pc[registry[i].by] = "done"
    BY <2>1 DEF BlockInv, RowInv
  <2>3. ASSUME NEW u \in Uploads, Deed(u)
        PROVE tables'[i] = tables[i] /\ registry'[i] = registry[i]
    <3>1. Apart(u) /\ Alters(u)
      BY <2>1, <2>3, DeedApart DEF Keeps
    <3>2. registry[i].by # u
      BY <2>2, <3>1 DEF Apart
    <3> QED
      BY <2>2, <3>1, <3>2 DEF Alters
  <2> QED
    BY <2>3, OthersQuiet
<1> QED
  BY <1>1, UploadInvariant, PTL DEF Spec, RegisteredStays

-----------------------------------------------------------------------------
(* Upload implements AtomicUpload.                                         *)

Datasets == [i \in Ids |-> Dataset(i)]
Answers == [u \in Uploads |-> Answer(u)]

\* Under the invariant an id is free or holds the whole file of one call, the
\* one its registry row names.
Holder(i) ==
  IF registry[i] # NoEntry /\ Kept(registry[i].by) THEN registry[i].by ELSE NoUpload

LEMMA HolderNow ==
  ASSUME BlockInv, NEW i \in Ids PROVE Dataset(i) = Holder(i)
  BY DEF Dataset, Shown, Whole, Holder, BlockInv, TableInv, RowInv

LEMMA HolderNext ==
  ASSUME BlockInv', NEW i \in Ids PROVE Dataset(i)' = Holder(i)'
  BY DEF Dataset, Shown, Whole, Holder, BlockInv, TableInv, RowInv

\* A call that has ended has no block to lose.
LEMMA EndedKeeps ==
  ASSUME TypeOK, Transactional, BlockInv, NEW u \in Uploads, Apart(u), NEW v \in Uploads,
         pc[v] \in {"done", "failed"}
  PROVE v # u /\ pc'[v] = pc[v] /\ (Kept(v)' <=> Kept(v))
<1>1. v # u
  BY DEF Apart
<1>2. slot # v
  BY DEF BlockInv, CallInv, SlotInv, Building
<1> QED
  BY <1>1, <1>2 DEF Apart, Kept

\* What a step of one call shows under an id.
LEMMA HolderStep ==
  ASSUME TypeOK, TypeOK', Transactional, BlockInv, NEW u \in Uploads, Apart(u), Alters(u),
         NEW i \in Ids
  PROVE /\ registry'[i] = registry[i] => Holder(i)' = Holder(i)
        /\ registry'[i] # registry[i] =>
             /\ Holder(i) = NoUpload
             /\ Holder(i)' = IF Kept(u)' THEN u ELSE NoUpload
<1>1. CASE registry'[i] = registry[i] /\ registry[i] = NoEntry
  BY <1>1 DEF Holder
<1>2. CASE registry'[i] = registry[i] /\ registry[i] # NoEntry
  <2>1. PICK w \in Uploads : w = registry[i].by
    BY <1>2 DEF TypeOK, Entries
  <2>2. Kept(w) => pc[w] = "done"
    BY <1>2, <2>1 DEF BlockInv, RowInv
  <2>3. Kept(w)' <=> Kept(w)
    BY <2>2, EndedKeeps, KeptBefore
  <2> QED
    BY <1>2, <2>1, <2>3 DEF Holder
<1>3. CASE registry'[i] # registry[i]
  <2>1. registry[i] = NoEntry /\ registry'[i] # NoEntry /\ registry'[i].by = u
    BY <1>3 DEF Alters
  <2> QED
    BY <1>3, <2>1 DEF Holder
<1> QED
  BY <1>1, <1>2, <1>3

\* A step of one call publishes its dataset, raises, or shows nothing.
LEMMA DeedView ==
  ASSUME TypeOK, TypeOK', Transactional, BlockInv, BlockInv', NEW u \in Uploads, Keeps(u)
  PROVE Promise!Next \/ UNCHANGED <<Datasets, Answers>>
<1>1. Apart(u) /\ Alters(u)
  BY DEF Keeps
<1>2. PICK i \in Ids : i = id'[u]
  BY <1>1 DEF Alters
<1>3. ASSUME NEW j \in Ids
      PROVE Dataset(j)' = IF j = i /\ registry'[i] # registry[i] /\ Kept(u)' THEN u
                          ELSE Dataset(j)
  <2>1. j # i => registry'[j] = registry[j]
    BY <1>1, <1>2 DEF Alters
  <2> QED
    BY <1>1, <2>1, HolderNow, HolderNext, HolderStep
<1>4. ASSUME NEW v \in Uploads, v # u PROVE Answer(v)' = Answer(v)
  <2>1. pc'[v] = pc[v]
    BY <1>1, <1>4 DEF Apart
  <2> QED
    BY <1>1, <2>1, EndedKeeps DEF Answer
<1>5. Answer(u) = "none"
  BY <1>1 DEF Apart, Answer
<1>6. CASE Kept(u)' /\ registry'[i] # registry[i]
  <2>1. pc'[u] = "done"
    BY <1>1, <1>2, <1>6 DEF Alters
  <2>2. Answer(u)' = "id"
    BY <1>6, <2>1 DEF Answer
  <2>3. Dataset(i) = NoUpload
    BY <1>1, <1>6, HolderNow, HolderStep
  <2>4. Datasets' = [Datasets EXCEPT ![i] = u]
    BY <1>3, <1>6 DEF Datasets
  <2>5. Answers' = [Answers EXCEPT ![u] = "id"]
    BY <1>4, <2>2 DEF Answers
  <2>6. Promise!Publish(u, i)
    BY <1>5, <2>3, <2>4, <2>5 DEF Promise!Publish, Datasets, Answers
  <2> QED
    BY <2>6 DEF Promise!Next
<1>7. CASE ~(Kept(u)' /\ registry'[i] # registry[i])
  <2>1. Datasets' = Datasets
    BY <1>3, <1>7 DEF Datasets
  <2>2. Answer(u)' # "id"
    BY <1>1, <1>2, <1>7 DEF Answer, Alters
  <2>3. CASE Answer(u)' = "error"
    <3>1. Answers' = [Answers EXCEPT ![u] = "error"]
      BY <1>4, <2>3 DEF Answers
    <3>2. Promise!Raise(u)
      BY <1>5, <2>1, <3>1 DEF Promise!Raise, Datasets, Answers
    <3> QED
      BY <3>2 DEF Promise!Next
  <2>4. CASE Answer(u)' # "error"
    <3>1. Answer(u)' = "none"
      BY <2>2, <2>4 DEF Answer
    <3> QED
      BY <1>4, <1>5, <2>1, <3>1 DEF Answers
  <2> QED
    BY <2>3, <2>4
<1> QED
  BY <1>6, <1>7

\* Others' blocks, a crash and a stutter show nothing.
LEMMA OthersView ==
  ASSUME TypeOK, TypeOK', Transactional, BlockInv, BlockInv', backend' = backend,
         Intrude \/ Crash \/ UNCHANGED vars
  PROVE UNCHANGED <<Datasets, Answers>>
<1>1. /\ UNCHANGED <<tables, registry>>
      /\ \A v \in Uploads : Kept(v)' => Kept(v)
      /\ \A v \in Uploads : pc[v] \in {"done", "failed"} =>
                              pc'[v] = pc[v] /\ (Kept(v)' <=> Kept(v))
      /\ \A v \in Uploads : pc[v] \notin {"done", "failed"} => pc'[v] \notin {"done", "failed"}
  <2>1. CASE Intrude
    <3>1. \A v \in Uploads : lost'[v] = (lost[v] \/ (v = slot /\ v # NoUpload))
      BY <2>1 DEF Intrude, TakeSlot
    <3>2. \A v \in Uploads : pc[v] \in {"done", "failed"} => slot # v
      BY DEF BlockInv, CallInv, SlotInv, Building
    <3>3. UNCHANGED <<tables, registry, pc>>
      BY <2>1 DEF Intrude, place
    <3> QED
      BY <3>1, <3>2, <3>3 DEF Kept
  <2>2. CASE Crash
    BY <2>2 DEF Crash, Running, InBlock, Kept, place
  <2>3. CASE UNCHANGED vars
    BY <2>3 DEF vars, place, block, Kept
  <2> QED
    BY <2>1, <2>2, <2>3
<1>2. ASSUME NEW i \in Ids PROVE Dataset(i)' = Dataset(i)
  <2>1. Holder(i)' = Holder(i)
    <3>1. CASE registry[i] = NoEntry
      BY <1>1, <3>1 DEF Holder
    <3>2. CASE registry[i] # NoEntry
      <4>1. PICK w \in Uploads : w = registry[i].by
        BY <3>2 DEF TypeOK, Entries
      <4>2. Kept(w) => pc[w] = "done"
        BY <3>2, <4>1 DEF BlockInv, RowInv
      <4>3. Kept(w)' <=> Kept(w)
        BY <1>1, <4>2
      <4> QED
        BY <1>1, <3>2, <4>1, <4>3 DEF Holder
    <3> QED
      BY <3>1, <3>2
  <2> QED
    BY <2>1, HolderNow, HolderNext
<1>3. ASSUME NEW v \in Uploads PROVE Answer(v)' = Answer(v)
  BY <1>1 DEF Answer
<1> QED
  BY <1>2, <1>3 DEF Datasets, Answers

\* On DuckDB and PostgreSQL an upload that keeps its block is one step, for any
\* number of calls, rows, chunks, failures and crashes, and whatever the uploads
\* do that lose theirs.
THEOREM UploadRefined == Spec => UploadAtomic
<1>1. Init => Promise!Init
  BY DEF Init, Promise!Init, Dataset, Shown, Answer
<1>2. UploadInv /\ UploadInv' /\ [Next]_vars => [Promise!Next]_(Promise!vars)
  <2> SUFFICES ASSUME UploadInv, UploadInv', [Next]_vars
               PROVE Promise!Next \/ UNCHANGED <<Datasets, Answers>>
    BY DEF Promise!vars, Datasets, Answers
  <2>1. backend' = backend
    BY BackendStays
  <2>2. CASE Transactional
    <3>1. TypeOK /\ TypeOK' /\ BlockInv /\ BlockInv'
      BY <2>1, <2>2 DEF UploadInv, Transactional
    <3>2. ASSUME NEW u \in Uploads, Deed(u)
          PROVE Promise!Next \/ UNCHANGED <<Datasets, Answers>>
      BY <2>2, <3>1, <3>2, DeedApart, DeedView
    <3> QED
      BY <2>1, <2>2, <3>1, <3>2, OthersView DEF Next, Deed
  <2>3. CASE ~Transactional
    <3>1. \A i \in Ids : Dataset(i)' = NoUpload /\ Dataset(i) = NoUpload
      BY <2>1, <2>3 DEF Dataset, Shown, Kept, Transactional
    <3>2. \A u \in Uploads : Answer(u)' = "none" /\ Answer(u) = "none"
      BY <2>1, <2>3 DEF Answer, Kept, Transactional
    <3> QED
      BY <3>1, <3>2 DEF Datasets, Answers
  <2> QED
    BY <2>2, <2>3
<1> QED
  BY <1>1, <1>2, UploadInvariant, PTL DEF Spec, UploadAtomic, Promise!Spec

-----------------------------------------------------------------------------
(***************************************************************************)
(* ClickHouse shows every statement at once.  What is kept there: a table  *)
(* nobody registered still has its call, and the table of a call that is   *)
(* alone under its id holds just what the call has loaded so far.          *)
(***************************************************************************)
Holding == Running \union {"dead", "dirty"}

HeldInv ==
  \A i \in Ids : tables[i] # NoTable /\ registry[i] = NoEntry =>
    \E u \in Uploads : id[u] = i /\ pc[u] \in Holding

\* Nobody else works under the id of this call.
Sole(u) == \A v \in Uploads \ {u} : pc[v] # "idle" => id[v] # id[u]

\* Every row is there; twice only after a fallback to the chunked reader.
Complete(u, tab) ==
  /\ tab # NoTable
  /\ \A r \in File : tab.loaded[r] > 0
  /\ mode[u] # "chunked" => tab.loaded = Once

Partial(u, tab) ==
  /\ tab # NoTable
  /\ \A r \in File : r <= flushed[u] => tab.loaded[r] > 0
  /\ mode[u] # "chunked" => tab.loaded = Prefix(flushed[u])

SoleInv(u) ==
  Sole(u) =>
    /\ pc[u] \in {"ready", "create"} => tables[id[u]] = NoTable
    /\ pc[u] = "load" => Partial(u, tables[id[u]])
    /\ pc[u] \in {"cast", "count", "register", "done"} => Complete(u, tables[id[u]])
    /\ pc[u] \in {"castdrop", "castrename"} => Complete(u, scratch[id[u]])
    /\ pc[u] = "done" => registry[id[u]] # NoEntry

ReaderInv(u) ==
  /\ mode[u] # "typed" /\ pc[u] # "commit"
  /\ pc[u] \in {"idle", "ready", "create"} => flushed[u] = 0

OpenInv ==
  /\ HeldInv
  /\ \A u \in Uploads : ReaderInv(u) /\ SoleInv(u)

\* What a call can change: the three places under its own id.
LEMMA OwnPlaces ==
  ASSUME TypeOK, ~Transactional, NEW u \in Uploads, Deed(u)
  PROVE /\ \A v \in Uploads \ {u} : /\ pc'[v] = pc[v] /\ id'[v] = id[v]
                                    /\ mode'[v] = mode[v]
                                    /\ flushed'[v] = flushed[v]
        /\ pc[u] = "idle" => UNCHANGED place
        /\ pc[u] # "idle" => id' = id
        /\ pc'[u] # "idle"
        /\ \A i \in Ids \ {id[u]} : /\ tables'[i] = tables[i]
                                    /\ scratch'[i] = scratch[i]
                                    /\ registry'[i] = registry[i]
<1> USE DEF TypeOK, place, call, local, block, Goto
<1>1. CASE Allocate(u)
  BY <1>1 DEF Allocate
<1>2. ASSUME NEW tab, Put(u, tab) PROVE \A i \in Ids \ {id[u]} : tables'[i] = tables[i]
  BY <1>2 DEF Put
<1>3. ASSUME Abort(u) \/ Stop(u)
      PROVE /\ \A v \in Uploads \ {u} : /\ pc'[v] = pc[v] /\ id'[v] = id[v]
                                        /\ mode'[v] = mode[v]
                                        /\ flushed'[v] = flushed[v]
            /\ id' = id /\ pc'[u] # "idle"
  BY <1>3 DEF Abort, Stop, Reset, Recover
<1>4. CASE Begin(u) \/ WidenColumn(u) \/ CastInBlock(u) \/ SkipCast(u) \/ BulkFails(u)
           \/ CleanupFails(u) \/ Count(u)
  BY <1>4 DEF Begin, WidenColumn, CastInBlock, SkipCast, BulkFails, CleanupFails, Count
<1>5. CASE Create(u)
  BY <1>5, <1>2 DEF Create
<1>6. CASE FlushChunk(u) \/ LoadWhole(u)
  BY <1>6, <1>2 DEF FlushChunk, LoadWhole, Load, AfterLoad
<1>7. CASE CastCopy(u) \/ CastDrop(u) \/ CastRename(u) \/ Cleanup(u)
  BY <1>7 DEF CastCopy, CastDrop, CastRename, Cleanup
<1>8. CASE CastFails(u)
  BY <1>3, <1>8 DEF CastFails, CastBreaks
<1>9. CASE Register(u)
  BY <1>9 DEF Register, PutRow
<1>10. CASE Commit(u)
  BY <1>10 DEF Commit, Publish, Reset
<1>11. CASE Taken(u) \/ RefuseDtype(u) \/ StoreRefuses(u) \/ TableGone(u) \/ RowTaken(u)
  BY <1>3, <1>11 DEF Taken, RefuseDtype, StoreRefuses, TableGone, RowTaken
<1>12. CASE Fault(u)
  <2>1. (Abort(u) \/ Stop(u)) /\ pc[u] # "idle"
    BY <1>12 DEF Fault, InBlock
  <2>2. \A i \in Ids \ {id[u]} : /\ tables'[i] = tables[i]
                                 /\ scratch'[i] = scratch[i]
                                 /\ registry'[i] = registry[i]
    BY <1>12 DEF Fault
  <2> QED
    BY <1>3, <2>1, <2>2
<1>13. ~CastApart(u) /\ ~CastAborts(u) /\ ~CommitUnheard(u)
  BY DEF CastApart, CastAborts, CommitUnheard, Transactional
<1> QED
  BY <1>1, <1>4, <1>5, <1>6, <1>7, <1>8, <1>9, <1>10, <1>11, <1>12, <1>13
     DEF Deed, Step, Mishap

\* The other calls find their table as they left it.
LEMMA SoleKept ==
  ASSUME TypeOK, ~Transactional, OpenInv, NEW u \in Uploads,
         Deed(u), NEW v \in Uploads \ {u}
  PROVE ReaderInv(v)' /\ SoleInv(v)'
<1>1. pc'[v] = pc[v] /\ id'[v] = id[v] /\ mode'[v] = mode[v] /\ flushed'[v] = flushed[v]
  BY OwnPlaces
<1>2. ReaderInv(v)'
  BY <1>1 DEF OpenInv, ReaderInv
<1>3. ASSUME Sole(v)', pc[v] # "idle" PROVE SoleInv(v)'
  <2>1. ASSUME NEW w \in Uploads \ {v}, pc[w] # "idle" PROVE id[w] # id[v]
    <3>1. pc'[w] # "idle" /\ id'[w] = id[w]
      BY <2>1, OwnPlaces
    <3> QED
      BY <3>1, <1>1, <1>3 DEF Sole
  <2>2. Sole(v)
    BY <2>1 DEF Sole
  <2>3. id[v] \in Ids /\ (pc[u] = "idle" \/ id[v] # id[u])
    BY <1>3, <2>2 DEF TypeOK, Sole
  <2>4. /\ tables'[id[v]] = tables[id[v]] /\ scratch'[id[v]] = scratch[id[v]]
        /\ registry'[id[v]] = registry[id[v]]
    BY <2>3, OwnPlaces DEF place
  <2> QED
    BY <1>1, <2>2, <2>4 DEF OpenInv, SoleInv, Complete, Partial
<1>4. pc[v] = "idle" => SoleInv(v)'
  BY <1>1 DEF SoleInv
<1>5. ~Sole(v)' => SoleInv(v)'
  BY DEF SoleInv
<1> QED
  BY <1>2, <1>3, <1>4, <1>5

\* A call that goes on keeps its hold on the table under its id.
LEMMA HeldOn ==
  ASSUME TypeOK, ~Transactional, OpenInv, NEW u \in Uploads, pc[u] # "idle",
         Deed(u),
         \/ pc'[u] \in Holding
         \/ tables'[id[u]] = NoTable
         \/ registry'[id[u]] # NoEntry
  PROVE HeldInv'
<1> SUFFICES ASSUME NEW i \in Ids, tables'[i] # NoTable, registry'[i] = NoEntry
             PROVE \E w \in Uploads : id'[w] = i /\ pc'[w] \in Holding
  BY DEF HeldInv
<1>1. id' = id
  BY OwnPlaces
<1>2. CASE i = id[u]
  BY <1>1, <1>2
<1>3. CASE i # id[u]
  <2>1. tables'[i] = tables[i] /\ registry'[i] = registry[i]
    BY <1>3, OwnPlaces
  <2>2. PICK w \in Uploads : id[w] = i /\ pc[w] \in Holding
    BY <2>1 DEF OpenInv, HeldInv
  <2>3. pc'[w] = pc[w]
    BY <1>3, <2>2, OwnPlaces
  <2> QED
    BY <1>1, <2>2, <2>3
<1> QED
  BY <1>2, <1>3

LEMMA WholePrefix == Prefix(Rows) = Once /\ Prefix(0) = Zero
<1>1. \A r \in File : r <= Rows /\ ~(r <= 0)
  BY SizesAssumption DEF SizesAssumption, File
<1> QED
  BY <1>1 DEF Prefix, Once, Zero

\* An insert appends the next rows to what the call has loaded.
LEMMA LoadSole ==
  ASSUME TypeOK, ~Transactional, NEW u \in Uploads, NEW upto \in 0 .. Rows,
         flushed[u] <= upto, Load(u, upto), pc[u] = "load",
         Partial(u, tables[id[u]])
  PROVE /\ pc'[u] \in {"load", "cast", "count"}
        /\ Partial(u, tables[id[u]])'
        /\ pc'[u] # "load" => Complete(u, tables[id[u]])'
<1> DEFINE part == {r \in File : flushed[u] < r /\ r <= upto}
           old == tables[id[u]]
           tab == Insert(old, part)
<1>1. id[u] \in Ids /\ old \in Contents /\ flushed[u] \in 0 .. Rows
  BY DEF TypeOK, Partial
<1>2. tables'[id[u]] = tab /\ id' = id /\ mode' = mode /\ flushed'[u] = upto
  BY <1>1 DEF Load, Put, Seen, Inside, Transactional, call, TypeOK
<1>3. tab \in Contents /\ tab # NoTable
  BY <1>1, InsertType, NullsAssumption DEF NullsAssumption
<1>4. mode[u] # "chunked" => tab.loaded = Prefix(upto)
  BY <1>1, InsertPrefix DEF Partial
<1>5. ASSUME NEW r \in File, r <= upto PROVE tab.loaded[r] > 0
  <2>1. tab.loaded[r] = IF r \in part THEN old.loaded[r] + 1 ELSE old.loaded[r]
    BY <1>1 DEF Insert, Contents
  <2>2. old.loaded[r] \in Nat
    BY <1>1 DEF Contents
  <2>3. r \notin part => old.loaded[r] > 0
    <3>1. r \in Nat
      BY SizesAssumption DEF SizesAssumption, File
    <3> QED
      BY <1>1, <1>5, <3>1 DEF Partial
  <2> QED
    BY <2>1, <2>2, <2>3
<1>6. /\ pc'[u] = IF upto = Rows THEN AfterLoad(u) ELSE "load"
      /\ AfterLoad(u) \in {"cast", "count"}
  BY DEF Load, Goto, TypeOK, AfterLoad
<1>7. upto = Rows => \A r \in File : r <= upto
  BY SizesAssumption DEF SizesAssumption, File
<1>8. Partial(u, tables[id[u]])'
  BY <1>2, <1>3, <1>4, <1>5 DEF Partial
<1>9. upto = Rows => Complete(u, tables[id[u]])'
  BY <1>2, <1>3, <1>4, <1>5, <1>7, WholePrefix DEF Complete
<1> QED
  BY <1>6, <1>8, <1>9

\* What a step does for the call that takes it.
OwnGoal(u) ==
  /\ ReaderInv(u)'
  /\ SoleInv(u)'
  /\ \/ pc'[u] \in Holding
     \/ tables'[id[u]] = NoTable
     \/ registry'[id[u]] # NoEntry

LEMMA EndOwn ==
  ASSUME TypeOK, ~Transactional, OpenInv, NEW u \in Uploads, Abort(u) \/ Stop(u)
  PROVE OwnGoal(u)
<1>1. pc'[u] = "cleanup" /\ mode' = mode
  BY DEF Abort, Stop, Recover, Repeats, Goto, TypeOK
<1> QED
  BY <1>1 DEF OwnGoal, OpenInv, ReaderInv, SoleInv, Holding, Running

LEMMA OwnStep ==
  ASSUME TypeOK, ~Transactional, OpenInv, NEW u \in Uploads, Step(u) \/ Mishap(u),
         pc[u] # "idle"
  PROVE OwnGoal(u)
<1>1. id[u] \in Ids /\ id' = id /\ mode[u] # "typed"
  BY OwnPlaces DEF Deed, TypeOK, OpenInv, ReaderInv
<1>2. Sole(u)' => Sole(u)
  BY <1>1, OwnPlaces DEF Sole, Deed
<1>3. SoleInv(u) /\ ReaderInv(u) /\ ~Inside(u)
  BY DEF OpenInv, Inside, Transactional
<1>4. CASE Begin(u)
  <2>1. /\ pc[u] = "ready" /\ pc'[u] = "create"
        /\ UNCHANGED <<tables, scratch, registry, mode, flushed>>
    BY <1>4 DEF Begin, Goto, TypeOK, place, local
  <2> QED
    BY <1>1, <1>2, <1>3, <2>1
       DEF OwnGoal, ReaderInv, SoleInv, Holding, Running, InBlock
<1>5. CASE Create(u)
  <2>1. PICK t \in Types : Put(u, NewTable(u, t))
    BY <1>5 DEF Create, Inferred, Native, Types, Text
  <2>2. tables'[id[u]] = NewTable(u, t)
    BY <1>1, <1>3, <2>1 DEF Put, TypeOK
  <2>3. /\ pc[u] = "create" /\ pc'[u] = "load" /\ mode' = mode
        /\ flushed' = flushed
    BY <1>5 DEF Create, Goto, TypeOK
  <2>4. NewTable(u, t) # NoTable /\ NewTable(u, t).loaded = Prefix(0)
    BY NewTableType, WholePrefix, NullsAssumption DEF NullsAssumption, NewTable
  <2>5. flushed'[u] = 0 /\ \A r \in File : ~(r <= 0)
    BY <1>3, <2>3, SizesAssumption DEF ReaderInv, SizesAssumption, File
  <2>6. Partial(u, tables[id[u]])'
    BY <1>1, <2>2, <2>4, <2>5 DEF Partial
  <2> QED
    BY <1>1, <2>3, <2>6
       DEF OwnGoal, ReaderInv, SoleInv, Holding, Running, InBlock
<1>6. CASE Taken(u) \/ StoreRefuses(u) \/ TableGone(u) \/ Fault(u) \/ RefuseDtype(u)
           \/ CastFails(u) \/ RowTaken(u)
  <2>1. Abort(u) \/ Stop(u)
    BY <1>6 DEF Taken, StoreRefuses, TableGone, Fault, RefuseDtype, CastFails, RowTaken
  <2> QED
    BY <2>1, EndOwn
<1>7. ASSUME NEW upto \in 0 .. Rows, flushed[u] <= upto, Load(u, upto),
             pc[u] = "load"
      PROVE OwnGoal(u)
  <2>1. /\ pc'[u] \in {"load", "cast", "count"} /\ mode' = mode
    BY <1>7 DEF Load, Goto, AfterLoad, TypeOK
  <2>2. Sole(u)' => /\ Partial(u, tables[id[u]])'
                    /\ pc'[u] # "load" => Complete(u, tables[id[u]])'
    BY <1>2, <1>3, <1>7, LoadSole DEF SoleInv
  <2> QED
    BY <1>1, <2>1, <2>2
       DEF OwnGoal, ReaderInv, SoleInv, Holding, Running, InBlock
<1>8. CASE FlushChunk(u)
  BY <1>7, <1>8, UptoType DEF FlushChunk
<1>9. CASE LoadWhole(u)
  BY <1>7, <1>9, UptoType DEF LoadWhole
<1>10. ~WidenColumn(u) /\ ~CastInBlock(u) /\ ~CastApart(u) /\ ~CastAborts(u)
       /\ ~CommitUnheard(u) /\ ~Commit(u)
  BY <1>1, <1>3 DEF WidenColumn, CastInBlock, CastApart, CastAborts, CommitUnheard, Commit,
                    Transactional, ReaderInv
<1>11. CASE BulkFails(u)
  <2>1. /\ pc[u] = "load" /\ pc' = pc /\ tables' = tables
        /\ mode'[u] = "chunked" /\ flushed'[u] = 0
    BY <1>11 DEF BulkFails, place, TypeOK
  <2>2. \A r \in File : ~(r <= 0)
    BY SizesAssumption DEF SizesAssumption, File
  <2> QED
    BY <1>1, <1>2, <1>3, <2>1, <2>2
       DEF OwnGoal, ReaderInv, SoleInv, Partial, Holding, Running, InBlock
<1>12. CASE SkipCast(u) \/ Count(u)
  <2>1. PICK to \in {"count", "register"} : pc'[u] = to
    BY <1>12 DEF SkipCast, Count, Goto, TypeOK
  <2>2. /\ pc[u] \in {"cast", "count"}
        /\ UNCHANGED <<tables, scratch, registry, mode>>
    BY <1>12 DEF SkipCast, Count, place, local
  <2> QED
    BY <1>1, <1>2, <1>3, <2>1, <2>2
       DEF OwnGoal, ReaderInv, SoleInv, Complete, Holding, Running, InBlock
<1>13. CASE CastCopy(u)
  <2>1. scratch'[id[u]] = tables[id[u]] /\ pc[u] = "cast" /\ pc'[u] = "castdrop"
        /\ mode' = mode
    BY <1>1, <1>3, <1>13 DEF CastCopy, Seen, Goto, local, TypeOK
  <2> QED
    BY <1>1, <1>2, <1>3, <2>1
       DEF OwnGoal, ReaderInv, SoleInv, Complete, Holding, Running, InBlock
<1>14. CASE CastDrop(u)
  <2>1. scratch' = scratch /\ pc[u] = "castdrop" /\ pc'[u] = "castrename" /\ mode' = mode
    BY <1>14 DEF CastDrop, Goto, local, TypeOK
  <2> QED
    BY <1>1, <1>2, <1>3, <2>1
       DEF OwnGoal, ReaderInv, SoleInv, Complete, Holding, Running, InBlock
<1>15. CASE CastRename(u)
  <2>1. tables'[id[u]] = scratch[id[u]] /\ pc[u] = "castrename"
        /\ pc'[u] = "count" /\ mode' = mode
    BY <1>1, <1>15 DEF CastRename, Goto, local, TypeOK
  <2> QED
    BY <1>1, <1>2, <1>3, <2>1
       DEF OwnGoal, ReaderInv, SoleInv, Complete, Holding, Running, InBlock
<1>16. CASE Register(u)
  <2>1. /\ pc[u] = "register" /\ pc'[u] = "done" /\ mode' = mode /\ tables' = tables
    BY <1>16 DEF Register, Goto, local, TypeOK
  <2>2. registry'[id[u]] # NoEntry
    <3>1. registry'[id[u]] = Entry(u)
      BY <1>1, <1>3, <1>16 DEF Register, PutRow, TypeOK
    <3> QED
      BY <3>1, EntryType, NullsAssumption DEF NullsAssumption
  <2> QED
    BY <1>1, <1>2, <1>3, <2>1, <2>2 DEF OwnGoal, ReaderInv, SoleInv, Complete
<1>17. CASE Cleanup(u)
  BY <1>1, <1>17 DEF Cleanup, OwnGoal, ReaderInv, SoleInv, Goto, local, TypeOK
<1>18. CASE CleanupFails(u)
  BY <1>1, <1>18
     DEF CleanupFails, OwnGoal, ReaderInv, SoleInv, Holding, Goto, local, TypeOK
<1> QED
  BY <1>4, <1>5, <1>6, <1>8, <1>9, <1>10, <1>11, <1>12, <1>13, <1>14, <1>15,
     <1>16, <1>17, <1>18 DEF Step, Mishap

\* Every action keeps the invariant of a database without transactions.
LEMMA OpenStep ==
  ASSUME TypeOK, ~Transactional, OpenInv, [Next]_vars PROVE OpenInv'
<1>1. ASSUME NEW u \in Uploads, Allocate(u) PROVE OpenInv'
  <2>1. /\ tables' = tables /\ registry' = registry /\ pc[u] = "idle"
        /\ pc'[u] = "ready" /\ flushed' = flushed
        /\ mode'[u] \in {"whole", "text"} /\ tables[id'[u]] = NoTable
    BY <1>1 DEF Allocate, Goto, place, TypeOK
  <2>2. ReaderInv(u)' /\ SoleInv(u)'
    BY <2>1 DEF OpenInv, ReaderInv, SoleInv
  <2>3. HeldInv'
    <3>1. \A v \in Uploads : pc[v] \in Holding => pc'[v] = pc[v] /\ id'[v] = id[v]
      BY <1>1, <2>1, OwnPlaces DEF Deed, Holding, Running, InBlock
    <3> QED
      BY <2>1, <3>1 DEF OpenInv, HeldInv
  <2> QED
    BY <1>1, <2>2, <2>3, SoleKept DEF Deed, OpenInv
<1>2. ASSUME NEW u \in Uploads, Step(u) \/ Mishap(u) PROVE OpenInv'
  <2>1. pc[u] # "idle"
    BY <1>2 DEF Step, Mishap, Begin, Create, Taken, FlushChunk, WidenColumn, RefuseDtype,
       StoreRefuses, LoadWhole, CastInBlock, SkipCast, CastApart, CastCopy, CastDrop,
       CastRename, CastAborts, CastFails, CastBreaks, Count, Register, RowTaken, Commit,
       TableGone, Cleanup, BulkFails, CommitUnheard, Fault, CleanupFails, InBlock
  <2>2. OwnGoal(u)
    BY <1>2, <2>1, OwnStep
  <2>3. HeldInv'
    BY <1>2, <2>1, <2>2, HeldOn DEF OwnGoal, Deed
  <2> QED
    BY <1>2, <2>2, <2>3, SoleKept DEF Deed, OpenInv, OwnGoal
<1>3. CASE Crash
  <2>1. /\ UNCHANGED <<tables, scratch, registry, id, mode>>
        /\ \A u \in Uploads : /\ flushed'[u] = 0
                              /\ pc'[u] = IF pc[u] \in Running THEN "dead" ELSE pc[u]
    BY <1>3 DEF Crash, place, call
  <2>2. HeldInv'
    BY <2>1 DEF OpenInv, HeldInv, Holding
  <2>3. ASSUME NEW u \in Uploads PROVE ReaderInv(u)' /\ SoleInv(u)'
    <3>1. pc'[u] = pc[u] \/ pc'[u] = "dead"
      BY <2>1
    <3>2. Sole(u)' => Sole(u)
      BY <2>1 DEF Sole
    <3>3. pc'[u] \notin Running
      BY <2>1 DEF Running, InBlock
    <3> QED
      BY <2>1, <3>1, <3>2, <3>3
         DEF OpenInv, ReaderInv, SoleInv, Complete, Running, InBlock
  <2> QED
    BY <2>2, <2>3 DEF OpenInv
<1>4. CASE Intrude \/ UNCHANGED vars
  <2>1. UNCHANGED <<tables, scratch, registry, pc, id, mode, flushed>>
    BY <1>4 DEF Intrude, vars, place, call, local
  <2> QED
    BY <2>1 DEF OpenInv, HeldInv, ReaderInv, SoleInv, Sole, Complete, Partial
<1> QED
  BY <1>1, <1>2, <1>3, <1>4 DEF Next

OpenUploadInv == UploadInv /\ (~Transactional => OpenInv)

\* The invariant of both kinds of database.
THEOREM OpenInvariant == Spec => []OpenUploadInv
<1>1. Init => OpenInv
  BY DEF Init, OpenInv, HeldInv, ReaderInv, SoleInv
<1>2. UploadInv /\ OpenUploadInv /\ [Next]_vars => (~Transactional' => OpenInv')
  <2> SUFFICES ASSUME UploadInv, OpenUploadInv, [Next]_vars
               PROVE ~Transactional' => OpenInv'
    OBVIOUS
  <2>1. Transactional' = Transactional
    BY BackendStays DEF Transactional
  <2> QED
    BY <2>1, OpenStep DEF OpenUploadInv, UploadInv
<1> QED
  BY <1>1, <1>2, UploadInvariant, PTL DEF Spec, OpenUploadInv

\* On DuckDB no table is seen without its registry row; on PostgreSQL one is
\* only if the call that made it lost its block; on ClickHouse only while its
\* call runs, or after a crash or a cleanup that failed.
THEOREM NoOrphanSafety == Spec => []NoOrphan
<1>1. OpenUploadInv => NoOrphan
  <2> SUFFICES ASSUME OpenUploadInv, NEW i \in Ids, tables[i] # NoTable, registry[i] = NoEntry
               PROVE \/ /\ backend = "postgres"
                        /\ lost[tables[i].by] /\ id[tables[i].by] = i
                     \/ /\ backend = "clickhouse"
                        /\ \E u \in Uploads :
                             id[u] = i /\ pc[u] \in Running \union {"dead", "dirty"}
    BY DEF NoOrphan
  <2>1. CASE Transactional
    <3>1. ~Kept(tables[i].by) /\ id[tables[i].by] = i
      BY <2>1 DEF OpenUploadInv, UploadInv, BlockInv, TableInv
    <3> QED
      BY <2>1, <3>1 DEF Kept, Transactional, OpenUploadInv, UploadInv, TypeOK, Backends
  <2>2. CASE ~Transactional
    BY <2>2 DEF OpenUploadInv, OpenInv, HeldInv, Holding, Transactional
  <2> QED
    BY <2>1, <2>2
<1> QED
  BY <1>1, OpenInvariant, PTL

\* On ClickHouse a call that is alone under its id ends with every row in its
\* table, and more than once only after a fallback to the chunked reader.
THEOREM LoadedAloneSafety == Spec => []LoadedAlone
<1>1. OpenUploadInv => LoadedAlone
  BY DEF OpenUploadInv, OpenInv, SoleInv, Sole, Complete, LoadedAlone
<1> QED
  BY <1>1, OpenInvariant, PTL

=============================================================================
