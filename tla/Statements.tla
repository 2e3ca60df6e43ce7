------------------------------ MODULE Statements ------------------------------
(***************************************************************************)
(* The vocabulary the analytix operations are written in.  What an         *)
(* operation does to the database is the list of statements it sends; the  *)
(* operation is the set of such lists, one for each way through its code.  *)
(*                                                                         *)
(* Tables are named by their part in the call: "in" is the table the       *)
(* operation is given, "src" the source of the call, "w" its clone, "o" a  *)
(* copy with row numbers, "r" the result, "s" a staging table (all named   *)
(* afresh for each call), "tmp" a table whose name is derived from the     *)
(* source's and so is the same in the next call, "ids" and "cells" such    *)
(* temporary tables of the connection.                                     *)
(***************************************************************************)
EXTENDS Sequences

\* "own" stands for all columns the source has before the call, "new" for the
\* ones the call makes, "work" and "rowid" for helper columns.
Columns == {"own", "new", "work", "rowid"}
\* "c" is the last table of a chain of functions.
Fresh == {"w", "o", "r", "s", "c"}
Session == {"ids", "cells"}
Tables == Fresh \cup Session \cup {"src", "tmp"}
Parts == Tables \cup {"in", ""}
Amounts == {"all", "some", "more", "other", "none"}

\* rows: what a created table keeps of the rows; less: the columns of `from`
\* it leaves out; cols: the columns that are added, filled or dropped; soft:
\* the code goes on when it fails; undo: a table dropped if it fails.
Statement ==
  [do : STRING, t : STRING, from : STRING, rows : Amounts,
   less : SUBSET Columns, cols : SUBSET Columns, soft : BOOLEAN, undo : Parts]

Plain(do, t, f, cols) ==
  [do |-> do, t |-> t, from |-> f, rows |-> "all", less |-> {}, cols |-> cols,
   soft |-> FALSE, undo |-> ""]

-----------------------------------------------------------------------------
(* Composition. *)

P ++ Q == {p \o q : p \in P, q \in Q}
Nothing == {<< >>}
Opt(P) == Nothing \cup P
Some(P) == P \cup P ++ P         \* a loop, once or twice round
Maybe(P) == Nothing \cup Some(P)

Each(P, F(_)) == {[i \in DOMAIN p |-> F(p[i])] : p \in P}
Soft(P) == Each(P, LAMBDA s : [s EXCEPT !.soft = TRUE])
Undoing(t, P) == Each(P, LAMBDA s : [s EXCEPT !.undo = t])

-----------------------------------------------------------------------------
(* Statements. *)

New == {"new"}
Work == {"work"}
RowId == {"rowid"}

Check == {<<Plain("check", "", "", {})>>}      \* may refuse
Refuse == {<<Plain("refuse", "", "", {})>>}
\* The branch taken when the table has the columns, and the one when not.
Has(t, c) == {<<Plain("has", t, "", c)>>}
Lacks(t, c) == {<<Plain("lacks", t, "", c)>>}
Read(t) == {<<Plain("read", t, "", {})>>}
AddCol(t, c) == {<<Plain("add", t, "", c)>>}
AddIf(t, c) == {<<Plain("addif", t, "", c)>>}  \* IF NOT EXISTS
DropCol(t, c) == {<<Plain("dropcol", t, "", c)>>}
Fill(t, c) == {<<Plain("fill", t, "", c)>>}    \* UPDATE of the columns
Drop(t) == {<<Plain("drop", t, "", {})>>}
DropIf(t) == {<<Plain("dropif", t, "", {})>>}
\* DROP COLUMN of those that were not there when the call began.
DropAdded(t, c) == {<<Plain("dropadded", t, "", c)>>}
Rename(t, to) == {<<Plain("rename", t, to, {})>>}
Exchange(t, u) == {<<Plain("exchange", t, u, {})>>}
\* The source takes the first name and t the source's, in one statement.
RenameIn(t, to) == {<<Plain("renamein", t, to, {})>>}
Insert(t, f) == {<<Plain("insert", t, f, {})>>}

\* CREATE TABLE t AS SELECT ... FROM f, with the columns c added.
Make(t, f, c) == {<<Plain("make", t, f, c)>>}
\* The same without columns of f that have the names to be added.
Remake(t, f, c) == {<<[Plain("make", t, f, c) EXCEPT !.less = c]>>}
\* CREATE OR REPLACE.
Replace(t, f, c) == {<<Plain("replace", t, f, c)>>}
\* What a created table keeps instead of all rows and columns.
Keeping(rows, less, P) ==
  Each(P, LAMBDA s : [s EXCEPT !.rows = rows, !.less = less])
Derive(t, f) == Keeping("other", Columns, Make(t, f, New))

-----------------------------------------------------------------------------
(* Orchestration and answers. *)

Func == {<<Plain("func", "", "", {})>>}       \* a function of a chain starts
Pass(t) == {<<Plain("pass", t, "", {})>>}     \* its table goes to the next
Collect == {<<Plain("collect", "", "", {})>>} \* the chain is over
Run(name) == {<<Plain("run", name, "", {})>>} \* another program
\* A read that fails and is caught.
Unread == {<<Plain("unread", "", "", {})>>}
\* The registry is asked whether the columns are this call's own.
Owned == {<<Plain("owned", "src", "", New)>>}
Marker == {<<Plain("marker", "", "", {})>>}
Value == {<<Plain("value", "", "", {})>>}     \* an answer without a table
Table(t) == {<<Plain("table", t, "", {})>>}   \* "new_table" of the answer
Mutates == {<<Plain("mutates", "src", "", {})>>}
=============================================================================
