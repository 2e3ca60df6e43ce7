--------------------------- MODULE CleaningPrograms ---------------------------
(***************************************************************************)
(* Filling, replacing and dropping values (core/analytix/cleaning and      *)
(* groupby_cleaning).  Some answer with a new table; most add a column to  *)
(* the source.  ClickHouse, which cannot UPDATE from a query, and the      *)
(* filling of dates on PostgreSQL work on a clone and do the same again on *)
(* the source, some of them by building the table anew and putting it in   *)
(* the place of the old one.                                               *)
(***************************************************************************)
EXTENDS Statements

AnswerTable(t) == Read(t) ++ Table(t)
AddNewColumnIfNotExists == Read("src") ++ AddIf("src", New)

\* The new table takes the place of t: no statement does both, and in between
\* the rows are in the temporary table only.
TakePlace(tmp, t) == Drop(t) ++ Rename(tmp, t)

-----------------------------------------------------------------------------
(* cleaning/base.py: a new table. *)

PrepareOperationTable == Make("w", "src", {})
\* Only the named columns.
PrepareColumnOperationTable == Keeping("all", Columns, Make("w", "src", {}))
MaterializeQueryAsTable(rows, less) == Keeping(rows, less, Make("r", "src", {}))

\* If every column is dropped there is no table.
DataframeDropna ==
  Opt(Read("src")) ++ Check ++ Read("src") ++ Check
  ++ (   (MaterializeQueryAsTable("some", {}) ++ AnswerTable("r"))
      \cup (Some(Read("src"))
            ++ ((MaterializeQueryAsTable("all", {"own"}) ++ AnswerTable("r")) \cup Value)))

DataframeDrop ==
  Check ++ Opt(Read("src") ++ Check)
  ++ (MaterializeQueryAsTable("some", {}) \cup MaterializeQueryAsTable("all", {"own"}))
  ++ AnswerTable("r")

DataframeIsna ==
  Read("src") ++ Check ++ MaterializeQueryAsTable("other", {}) ++ AnswerTable("r")
DataframeNotna ==
  Read("src") ++ Check ++ MaterializeQueryAsTable("other", {}) ++ AnswerTable("r")
DataframeDropDuplicates ==
  Read("src") ++ Check ++ MaterializeQueryAsTable("some", {}) ++ AnswerTable("r")
DataframeDuplicated ==
  Read("src") ++ Check ++ Derive("r", "src") ++ AnswerTable("r")

Deriving ==
  UNION {DataframeDropna, DataframeDrop, DataframeIsna, DataframeNotna,
         DataframeDropDuplicates, DataframeDuplicated}

-----------------------------------------------------------------------------
(***************************************************************************)
(* cleaning/base.py: a new column of the source, declared as a change of   *)
(* it (_mark_ref).                                                         *)
(***************************************************************************)
MarkRef == Mutates
Filled == Fill("src", New) ++ Read("src") ++ Read("src") ++ MarkRef

\* That a value, a mapping or the backend's support is missing is noticed after
\* the column was added.
FillnaInPlace == Check ++ AddNewColumnIfNotExists ++ Check ++ Filled

NumericFillna == Read("src") ++ FillnaInPlace
NumericInterpolate == Read("src") ++ Check ++ AddNewColumnIfNotExists ++ Opt(Read("src")) ++ Filled
ReplaceValues == Read("src") ++ Check ++ Some(AddNewColumnIfNotExists) ++ Fill("src", New)
                 ++ Read("src") ++ MarkRef
NumericEnforceRange == Read("src") ++ AddNewColumnIfNotExists ++ Filled
NumericDropOutliersZscore == Read("src") ++ AddNewColumnIfNotExists ++ Filled
CategoricalFillna == Read("src") ++ FillnaInPlace
CategoricalMapValues == Check ++ AddNewColumnIfNotExists ++ Fill("src", New)
                        ++ Read("src") ++ MarkRef
CategoricalFilterInvalid == Check ++ AddNewColumnIfNotExists ++ Filled
CategoricalCompressRare == Read("src") ++ AddNewColumnIfNotExists ++ Filled
DatetimeFillna == Read("src") ++ FillnaInPlace
DatetimeFixInvalid == AddNewColumnIfNotExists ++ Filled
DatetimeRemoveOutOfRange == Read("src") ++ AddNewColumnIfNotExists ++ Filled

InPlaceEverywhere ==
  UNION {ReplaceValues, NumericEnforceRange, CategoricalFillna, CategoricalMapValues,
         CategoricalFilterInvalid, DatetimeFixInvalid}
OnlyRowStores ==
  UNION {NumericFillna, NumericInterpolate, NumericDropOutliersZscore,
         CategoricalCompressRare, DatetimeRemoveOutOfRange}

\* The one operation that rewrites a column of the source.
NumericConvertText ==
  Read("src") ++ Opt(Read("src") ++ Fill("src", {"own"})) ++ Read("src") ++ MarkRef

-----------------------------------------------------------------------------
(* cleaning/clickhouse.py: on a clone first, then on the source.  The      *)
(* answer is the clone; that the source was changed is not declared.       *)

FillBoth(P) ==
  AddCol("w", New) ++ P ++ Fill("w", New) ++ AddNewColumnIfNotExists ++ Fill("src", New)
  ++ Read("w") ++ AnswerTable("w")

NumericFillnaCh ==
  Read("src") ++ PrepareColumnOperationTable ++ Check ++ FillBoth(Check)
NumericDropOutliersZscoreCh == Read("src") ++ PrepareOperationTable ++ FillBoth(Nothing)
DatetimeRemoveOutOfRangeCh == Read("src") ++ PrepareOperationTable ++ FillBoth(Nothing)

\* The clone gets the values and the positions they are joined by.
NumericInterpolateCh ==
  Read("src") ++ Check ++ PrepareColumnOperationTable
  ++ DropIf("s") ++ Make("s", "w", New \cup Work) ++ TakePlace("s", "w")
  ++ Read("src") ++ DropIf("tmp") ++ Remake("tmp", "src", New) ++ TakePlace("tmp", "src")
  ++ Read("w") ++ AnswerTable("w")

\* The temporary table is named after the clone, for the source too.
CategoricalCompressRareCh ==
  LET Apply(t) == DropCol(t, New) ++ DropIf("s") ++ Make("s", t, New) ++ TakePlace("s", t)
  IN  Read("src") ++ PrepareOperationTable ++ AddCol("w", New) ++ Apply("w")
      ++ AddNewColumnIfNotExists ++ Apply("src") ++ Read("w") ++ AnswerTable("w")

NumericConvertTextCh ==
  LET Apply(t) == DropIf("s") ++ Keeping("other", {}, Make("s", t, {})) ++ TakePlace("s", t)
  IN  Read("src") ++ PrepareOperationTable ++ Read("w") ++ Apply("w") ++ Apply("src")
      ++ Read("w") ++ AnswerTable("w")

\* A clone of every column has the new one already when the call is repeated.
MirroredColumns == NumericFillnaCh \cup NumericInterpolateCh
MirroredClones ==
  UNION {NumericDropOutliersZscoreCh, DatetimeRemoveOutOfRangeCh, CategoricalCompressRareCh}

(* cleaning/postgres.py *)

\* Filling forwards or backwards builds the table from the column and its filled
\* copy alone, the clone's and then the source's.
DatetimeFillnaPg ==
  LET Apply(t) ==
        DropIf("s") ++ Keeping("all", Columns, Make("s", t, New)) ++ TakePlace("s", t)
      Clone(P) == PrepareColumnOperationTable ++ Check ++ AddCol("w", New) ++ Check ++ P
                  ++ Read("w") ++ AnswerTable("w")
  IN  [fill |-> Clone(Apply("w") ++ AddNewColumnIfNotExists ++ Apply("src")),
       statistic |-> Clone(Fill("w", New) ++ Read("w") ++ AddNewColumnIfNotExists
                           ++ Fill("src", New) ++ Read("src"))]

-----------------------------------------------------------------------------
(***************************************************************************)
(* groupby_cleaning: a column of the source filled group by group.  The    *)
(* answer is the source, undeclared as a change of it.                     *)
(***************************************************************************)
FilledByGroup == Fill("src", New) ++ Read("src") ++ AnswerTable("src")

(* groupby_cleaning/duckdb.py, also for PostgreSQL *)

NumericFillnaGroupby ==
  Read("src") ++ Check ++ AddNewColumnIfNotExists ++ Check ++ FilledByGroup
CategoricalFillnaGroupby == Read("src") ++ Check ++ AddNewColumnIfNotExists ++ FilledByGroup
DatetimeFillnaGroupby == Read("src") ++ Check ++ AddNewColumnIfNotExists ++ FilledByGroup

FillnaGroupby ==
  UNION {NumericFillnaGroupby, CategoricalFillnaGroupby, DatetimeFillnaGroupby}

(* groupby_cleaning/postgres.py *)

\* Filling forwards or backwards keeps the group columns and the filled one.
DatetimeFillnaGroupbyPg ==
  LET Added(P) == Read("src") ++ Check ++ AddNewColumnIfNotExists ++ P
                  ++ Read("src") ++ AnswerTable("src")
  IN  [fill |-> Added(DropIf("tmp") ++ Keeping("all", Columns, Make("tmp", "src", New))
                      ++ TakePlace("tmp", "src")),
       statistic |-> Added(Fill("src", New))]

(* groupby_cleaning/clickhouse.py *)

\* The column is dropped again and comes with a table joined from the groups.
JoinGroups(extra) ==
  DropCol("src", New) ++ DropIf("tmp") ++ Make("tmp", "src", New \cup extra)
  ++ TakePlace("tmp", "src")

NumericFillnaGroupbyCh ==
  Read("src") ++ Check ++ AddNewColumnIfNotExists ++ Check
  ++ (JoinGroups({}) \cup Fill("src", New)) ++ Read("src") ++ AnswerTable("src")
CategoricalFillnaUngroupedCh ==
  Read("src") ++ Check ++ AddNewColumnIfNotExists ++ Check ++ FilledByGroup
CategoricalFillnaGroupbyCh ==
  Read("src") ++ Check ++ AddNewColumnIfNotExists ++ Check
  ++ (JoinGroups({}) \cup Fill("src", New)) ++ Read("src") ++ AnswerTable("src")
DatetimeFillnaUngroupedCh ==
  Read("src") ++ Check ++ AddNewColumnIfNotExists ++ Check ++ FilledByGroup

\* Filling forwards or backwards leaves the row numbers and the islands, which
\* the values come from, in the source.
DatetimeFillnaGroupbyCh ==
  LET Added(P) == Read("src") ++ Check ++ AddNewColumnIfNotExists ++ P
                  ++ Read("src") ++ AnswerTable("src")
  IN  [fill |-> Added(JoinGroups(Work \cup RowId)),
       statistic |-> Added(JoinGroups({}) \cup Fill("src", New))]

FillnaGroupbyCh ==
  UNION {NumericFillnaGroupbyCh, CategoricalFillnaUngroupedCh,
         CategoricalFillnaGroupbyCh, DatetimeFillnaUngroupedCh,
         DatetimeFillnaGroupbyCh.statistic}
=============================================================================
