---------------------------- MODULE TablePrograms ----------------------------
(***************************************************************************)
(* Operations on tables as a whole: reshaping, merging, sorting and        *)
(* selecting make a new table; statistics and inspection only read;        *)
(* arithmetic and comparison add a column to the source; inserting,        *)
(* updating and reordering change the source itself.                       *)
(***************************************************************************)
EXTENDS Statements

AnswerTable(t) == Read(t) ++ Table(t)
DeriveTable == Derive("r", "src") ++ AnswerTable("r")

-----------------------------------------------------------------------------
(* reshape/base.py *)

Explode == Read("src") ++ DeriveTable
Melt == Read("src") ++ Check ++ DeriveTable
Pivot == Check ++ Read("src") ++ Check ++ Read("src") ++ Check ++ DeriveTable
PivotTable == Check ++ Read("src") ++ Check ++ DeriveTable

\* The margins are computed from the table they are inserted into.
Crosstab == Read("src") ++ Check ++ Derive("r", "src")
            ++ Opt(Keeping("other", {}, Insert("r", "r"))) ++ AnswerTable("r")

\* The two temporary tables are named after the source and never dropped.
Transpose ==
  Read("src") ++ Check ++ Make("ids", "src", RowId) ++ Derive("cells", "ids")
  ++ Read("cells") ++ Check ++ Derive("r", "cells") ++ AnswerTable("r")
TransposeCh == Read("src") ++ Check ++ Read("src") ++ Check ++ DeriveTable

\* All columns and the ranks.
Rank == Check ++ Make("r", "src", New) ++ AnswerTable("r")
GroupbyRank == Check ++ Make("r", "src", New) ++ AnswerTable("r")

(* merging/base.py: the other tables are those of other datasets. *)

Merge == Check ++ Read("src") ++ Check ++ DeriveTable
Join == Check ++ Read("src") ++ Check ++ DeriveTable
Concat == Check ++ Some(Read("src")) ++ Check ++ DeriveTable

(* sorting/base.py *)

SortValues == Check ++ Make("r", "src", {}) ++ AnswerTable("r")

(* selection/base.py *)

Asof == Read("src") ++ Check ++ Some(Read("src")) ++ Value
At == Read("src") ++ Check ++ Read("src") ++ Check ++ Value
Iat == Read("src") ++ Check ++ Read("src") ++ Check ++ Value
GetColumns == Read("src") ++ Opt(Read("src")) ++ Value
SelectDtypes == Check ++ Read("src") ++ Check ++ Opt(Read("src")) ++ Value
BuildIlocResult ==
  (Keeping("some", {}, Make("r", "src", {})) ++ Table("r")) \cup (Read("src") ++ Value)
Iloc == Some(Read("src")) ++ Check ++ (BuildIlocResult \cup (Read("src") ++ Check ++ Value))

(* stats/base.py *)

CategoricalMultiColumnCrosstab == DeriveTable

Reshaping(b) ==
  UNION {Explode, Melt, Pivot, PivotTable, Crosstab, Rank, GroupbyRank,
         IF b = "clickhouse" THEN TransposeCh ELSE {}}
Combining == UNION {Merge, Join, Concat, SortValues, CategoricalMultiColumnCrosstab}
Selecting == UNION {Asof, At, Iat, GetColumns, SelectDtypes, Iloc}

-----------------------------------------------------------------------------
(* arithmetic/base.py: a column of the source, declared as a change of it. *)

ApplyExpression == AddIf("src", New) ++ Fill("src", New) ++ Read("src") ++ Mutates

BinaryOps == Opt(Read("src")) ++ Check ++ ApplyExpression
UnaryOps == Opt(Read("src")) ++ ApplyExpression
NormalizeRange == Opt(Read("src")) ++ Read("src") ++ Read("src") ++ ApplyExpression

Arithmetic == UNION {BinaryOps, UnaryOps, NormalizeRange}

(* comparison/base.py: a column of the source, undeclared. *)

CompareColumns == Check ++ AddIf("src", New) ++ Fill("src", New) ++ AnswerTable("src")

-----------------------------------------------------------------------------
(***************************************************************************)
(* stats/base.py, stats/clickhouse.py: the difference of dates is a column *)
(* of the source unless the source has it already.                         *)
(***************************************************************************)
DatetimeDiff(b) ==
  LET Mirrored ==
        Make("s", "src", New) ++ Undoing("s", RenameIn("s", "o")) ++ Soft(Drop("o"))
      Ensure == Lacks("src", New)
                ++ (IF b = "clickhouse" THEN Mirrored
                    ELSE AddIf("src", New) ++ Fill("src", New))
  IN  Read("src") ++ (Has("src", New) \cup Ensure) ++ AnswerTable("src")

-----------------------------------------------------------------------------
(* inspection/base.py, inspection/clickhouse.py *)

\* The column is added first; the values go through a temporary table.
DataframeInsert ==
  Check ++ Read("src") ++ Check ++ AddCol("src", New) ++ Derive("s", "src")
  ++ Maybe(Insert("s", "src")) ++ Fill("src", New) ++ Drop("s") ++ Read("src") ++ Value

\* The table is read, written anew row block by row block, and takes the place
\* of the old one.
DataframeInsertCh ==
  Check ++ Read("src") ++ Check ++ Read("src") ++ Keeping("none", New, Make("s", "src", New))
  ++ Maybe(Keeping("some", {}, Insert("s", "src"))) ++ Insert("s", "src")
  ++ DropIf("src") ++ Rename("s", "src") ++ Value

\* The columns of the source get the other table's values.
DataframeUpdate ==
  Check ++ Read("src")
  ++ (Value \cup (Opt(Read("src") ++ Check) ++ Fill("src", {"own"}) ++ Read("src") ++ Value))

\* A row of the source comes once for each row of the other table it matches.
DataframeUpdateCh ==
  Check ++ Read("src")
  ++ (Value
      \cup (Opt(Read("src") ++ Check) ++ DropIf("tmp")
            ++ (Keeping("other", {}, Make("tmp", "src", {}))
                \cup Keeping("more", {}, Make("tmp", "src", {})))
            ++ Drop("src") ++ Rename("tmp", "src") ++ Read("src") ++ Value))

(* index/clickhouse.py: the source in another order, copied and counted. *)

SetOrderBy ==
  LET Mismatch == Read("s") ++ DropIf("s") ++ Refuse
      Copied == Opt(Read("s")) ++ RenameIn("s", "o") ++ Opt(Soft(Drop("o"))) ++ Value
  IN  Check ++ Read("src") ++ Check ++ Read("src") ++ Check
      ++ (Value \cup (Keeping("none", {}, Make("s", "src", {}))
                      ++ Undoing("s", Insert("s", "src") ++ (Mismatch \cup Copied))))
=============================================================================
