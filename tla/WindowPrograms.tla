---------------------------- MODULE WindowPrograms ----------------------------
(***************************************************************************)
(* Rolling, expanding and exponentially weighted windows over a table and  *)
(* over its groups (core/analytix/window, groupby_window), and the         *)
(* orchestrators that chain them and publish the last table as the source  *)
(* (core/analytix/_generated.py).  A function of a chain works on the      *)
(* table of the one before it and passes its own table on.                 *)
(***************************************************************************)
EXTENDS Statements

\* A full copy under a new name; nothing drops it when the call is over.
PrepareOperationTable == Make("w", "in", {})

\* Without order_by, a copy with row numbers gives the order; it is left too.
ResolveOrdering(f) == Make("o", f, RowId)
Ordered(f, P(_)) == P(f) \cup (ResolveOrdering(f) ++ P("o"))

Answered(t) == Read(t) ++ Pass(t)

\* The wide table becomes the source.
SwapTableIntoSource(b) ==
  CASE b = "duckdb" -> Replace("src", "in", {}) ++ Drop("in")
    [] b = "postgres" -> Drop("src") ++ Rename("in", "src")
    [] b = "clickhouse" -> Exchange("src", "in") ++ Drop("in")

\* One statement for each of them.
DropColumns == DropAdded("src", Work) ++ DropAdded("src", RowId)

\* A column that is on the source already has to be this call's own.  A failing read
\* of the source's columns is taken for a source that has none of them.
AssertOwnedColumns ==
  Unread \cup Lacks("src", New) \cup (Has("src", New) ++ Owned)

\* One failing read of the columns and the helper columns are not dropped.
PublishRowAligned(b) ==
  LET Swap(P) ==
        AssertOwnedColumns ++ SwapTableIntoSource(b) ++ P ++ Marker ++ Mutates
  IN  Swap(DropColumns) \cup (Unread ++ Swap(Nothing))

-----------------------------------------------------------------------------
(***************************************************************************)
(* window/base.py: DuckDB and PostgreSQL.  The aggregates are added to the *)
(* clone one by one; without order_by it is numbered first.                *)
(***************************************************************************)
AddAggregates ==
  LET Loop == Some(Check ++ AddIf("w", New) ++ Fill("w", New))
  IN  Check ++ PrepareOperationTable
      ++ (Loop \cup (AddIf("w", Work) ++ Fill("w", Work) ++ Loop ++ DropCol("w", Work)))
      ++ Answered("w")

RollingAgg == AddAggregates
ExpandingAgg == AddAggregates

\* The column is added to the clone and filled in the table ordered by: without
\* order_by that is the numbered copy, which does not have the column.
FillsIn(f) == AddIf("w", New) ++ Fill(f, New) ++ Answered("w")
FillOrdered == Check ++ PrepareOperationTable ++ FillsIn("w")
FillUnordered == Check ++ PrepareOperationTable ++ ResolveOrdering("w") ++ FillsIn("o")

RollingQuantile == FillOrdered \cup FillUnordered
RollingSem == FillOrdered \cup FillUnordered
ExpandingQuantile == FillOrdered \cup FillUnordered
ExpandingSem == FillOrdered \cup FillUnordered

\* The table ordered by is selected into a third one.
SelectOrdered ==
  Check ++ PrepareOperationTable
  ++ Ordered("w", LAMBDA f : Remake("r", f, New)) ++ Answered("r")

\* SELECT b.* FROM the numbered rows: the numbers are selected with them.
Numbered(f) == Keeping("all", New, Make("r", f, New \cup Work))
SelectNumbered ==
  Check ++ PrepareOperationTable ++ Ordered("w", Numbered) ++ Answered("r")

RollingNunique == SelectOrdered
RollingRank == SelectNumbered
ExpandingNunique == SelectOrdered
ExpandingRank == SelectNumbered

RollingDatetimeStat ==
  Check ++ Ordered("in", LAMBDA f : Check ++ Read(f) ++ Check ++ Numbered(f))
  ++ Answered("r")

ExpandingDatetimeStat ==
  Check ++ PrepareOperationTable
  ++ Ordered("w", LAMBDA f : Read(f) ++ Check ++ Numbered(f)) ++ Answered("r")

\* The values are computed here and joined back on a row number, through a
\* staging table on ClickHouse and as a list of VALUES on the others.
Ewm(b) ==
  LET Joined(f) == Remake("r", f, New \cup Work)
      Staged(f) ==
        DropIf("s") ++ Derive("s", f)
        ++ Undoing("s", Maybe(Insert("s", f)) ++ Joined(f)) ++ DropIf("s")
  IN  Check ++ PrepareOperationTable
      ++ Ordered("w", LAMBDA f : Read(f)
           ++ (IF b = "clickhouse" THEN Staged(f) ELSE Joined(f)))
      ++ Answered("r")

(* window/postgres.py *)

RollingQuantilePg == SelectNumbered

\* Two numberings, of the ordered rows and of the result, are zipped.
RollingNuniquePg ==
  Check ++ PrepareOperationTable
  ++ Ordered("w", LAMBDA f : Read(f) ++ Make("r", f, {}))
  ++ AddIf("r", New) ++ AddIf("r", Work) ++ Fill("r", Work) ++ Read("r")
  ++ Maybe(Fill("r", New)) ++ DropCol("r", Work) ++ Answered("r")

(* window/clickhouse.py *)

SelectAggregates == Check ++ Remake("r", "in", New) ++ Answered("r")

RollingAggCh == SelectAggregates
ExpandingAggCh == SelectAggregates
RollingQuantileCh == SelectOrdered
RollingSemCh == SelectOrdered
RollingNuniqueCh == SelectOrdered
ExpandingQuantileCh == SelectOrdered
ExpandingSemCh == SelectOrdered
ExpandingNuniqueCh == SelectOrdered

RollingFunctions(b) ==
  CASE b = "duckdb" ->
         UNION {RollingAgg, RollingQuantile, RollingSem, RollingNunique,
                RollingRank, RollingDatetimeStat}
    [] b = "postgres" ->
         UNION {RollingAgg, RollingQuantilePg, RollingSem, RollingNuniquePg,
                RollingRank, RollingDatetimeStat}
    [] b = "clickhouse" ->
         UNION {RollingAggCh, RollingQuantileCh, RollingSemCh, RollingNuniqueCh,
                RollingRank, RollingDatetimeStat}

ExpandingFunctions(b) ==
  IF b = "clickhouse"
    THEN UNION {ExpandingAggCh, ExpandingQuantileCh, ExpandingSemCh,
                ExpandingNuniqueCh, ExpandingRank, ExpandingDatetimeStat}
    ELSE UNION {ExpandingAgg, ExpandingQuantile, ExpandingSem,
                ExpandingNunique, ExpandingRank, ExpandingDatetimeStat}

\* A function that fails is skipped; the last table is published.
Chain(functions) ==
  Read("src") ++ Check ++ Some(Func ++ Run(functions)) ++ Collect
  ++ (Run("publish") \cup (Soft(Read("in")) ++ Run("publish")))

Rolling == Chain("windowfunctions")
Expanding == Chain("windowfunctions")
EwmPublished(b) ==
  Read("src") ++ Check ++ Ewm(b) ++ Run("publish")

-----------------------------------------------------------------------------
(***************************************************************************)
(* groupby_window/base.py.  Grouped functions select from the table        *)
(* itself: no clone, one created table.                                    *)
(***************************************************************************)
SelectPartitions ==
  Check ++ Ordered("in", LAMBDA f : Check ++ Remake("r", f, New)) ++ Answered("r")
NumberPartitions ==
  Check ++ Ordered("in", LAMBDA f : Check ++ Numbered(f)) ++ Answered("r")

\* PostgreSQL, which has no window form of these, numbers the rows.
ByBackend(b) ==
  IF b = "postgres" THEN NumberPartitions ELSE SelectPartitions

RollingAggWithPartition == SelectPartitions
RollingQuantileGroupby(b) == ByBackend(b)
RollingSemGroupby == SelectPartitions
RollingNuniqueGroupby(b) == ByBackend(b)
RollingRankGroupby == NumberPartitions
ExpandingAggWithPartition == SelectPartitions
ExpandingQuantileGroupby(b) == ByBackend(b)
ExpandingSemGroupby == SelectPartitions
ExpandingRankGroupby == NumberPartitions
ExpandingNuniqueGroupby(b) == ByBackend(b)

RollingDatetimeStatWithPartition ==
  Check ++ Ordered("in", LAMBDA f : Check ++ Read(f) ++ Check ++ Numbered(f))
  ++ Answered("r")

ExpandingDatetimeStatWithPartition ==
  Check ++ Ordered("in", LAMBDA f : Read(f) ++ Check ++ Numbered(f)) ++ Answered("r")

\* The result is numbered, read and filled group by group.
EwmGroupby ==
  Check ++ Ordered("in", LAMBDA f : Read(f) ++ Make("r", f, {}))
  ++ Some(AddIf("r", New)) ++ AddIf("r", Work) ++ Fill("r", Work)
  ++ Maybe(Read("r") ++ Fill("r", New)) ++ DropCol("r", Work) ++ Answered("r")

(* groupby_window/clickhouse.py: the row numbers are part of the SELECT. *)

SelectPartitionsCh ==
  Check ++ Read("in") ++ Remake("r", "in", New) ++ Answered("r")

RollingAggWithPartitionCh == SelectPartitionsCh
RollingQuantileGroupbyCh == SelectPartitionsCh
RollingSemGroupbyCh == SelectPartitionsCh
RollingNuniqueGroupbyCh == SelectPartitionsCh
RollingRankGroupbyCh == SelectPartitionsCh
ExpandingAggWithPartitionCh == SelectPartitionsCh
ExpandingQuantileGroupbyCh == SelectPartitionsCh
ExpandingSemGroupbyCh == SelectPartitionsCh
ExpandingRankGroupbyCh == SelectPartitionsCh
ExpandingNuniqueGroupbyCh == SelectPartitionsCh

\* Unlike the others, these select every column of the source.
SelectPeriodsCh ==
  Check ++ Read("in") ++ Check ++ Make("r", "in", New) ++ Answered("r")

RollingDatetimeStatWithPartitionCh == SelectPeriodsCh
ExpandingDatetimeStatWithPartitionCh == SelectPeriodsCh

EwmGroupbyCh ==
  Check ++ Make("o", "in", RowId) ++ Read("o") ++ DropIf("s") ++ Derive("s", "o")
  ++ Undoing("s", Maybe(Insert("s", "o")) ++ Keeping("all", RowId, Make("r", "o", New)))
  ++ DropIf("s") ++ DropIf("o") ++ Answered("r")

RollingFunctionsGroupby(b) ==
  IF b = "clickhouse"
    THEN UNION {RollingAggWithPartitionCh, RollingQuantileGroupbyCh,
                RollingSemGroupbyCh, RollingNuniqueGroupbyCh,
                RollingRankGroupbyCh, RollingDatetimeStatWithPartitionCh}
    ELSE UNION {RollingAggWithPartition, RollingQuantileGroupby(b),
                RollingSemGroupby, RollingNuniqueGroupby(b),
                RollingRankGroupby, RollingDatetimeStatWithPartition}

ExpandingFunctionsGroupby(b) ==
  IF b = "clickhouse"
    THEN UNION {ExpandingAggWithPartitionCh, ExpandingQuantileGroupbyCh,
                ExpandingSemGroupbyCh, ExpandingRankGroupbyCh,
                ExpandingNuniqueGroupbyCh, ExpandingDatetimeStatWithPartitionCh}
    ELSE UNION {ExpandingAggWithPartition, ExpandingQuantileGroupby(b),
                ExpandingSemGroupby, ExpandingRankGroupby,
                ExpandingNuniqueGroupby(b), ExpandingDatetimeStatWithPartition}

RollingGroupby == Chain("windowgroupfunctions")
ExpandingGroupby == Chain("windowgroupfunctions")
EwmGroupbyPublished(b) ==
  Read("src") ++ Check
  ++ (IF b = "clickhouse" THEN EwmGroupbyCh ELSE EwmGroupby) ++ Run("publish")
=============================================================================
